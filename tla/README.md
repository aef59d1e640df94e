# Storacha bridge: a verification project

The bridge is a NestJS program that takes uploads from whitelisted wallets and
puts them into Storacha spaces. It runs as an AWS Lambda function
(`src/lambdaEntrypoint.ts`) and, on a developer's machine, as a plain server
(`src/main.ts`). This directory holds its TLA+ model, the TLC runs that check
the model on small instances, and theorems that TLAPS has proved for all of
them. Paths below are relative to the root of the repository.

## The system

| Component | State | Operations | Interacts with |
|---|---|---|---|
| `StorachaService` (`src/storacha`) | `_client` and, inside it, the spaces added and the *current space*; the `Spaces` table (`walletAddress`, `proofBase64`, `did`) | `init`, `setUserSpace`, `uploadFile`, `uploadZip` | called by `UploadService`; Postgres; the Storacha library and network; an operator who edits the table (`README.md`) |
| `UploadController`, `UploadService` (`src/upload`) | a directory per request under `TEMP_PATH` | the two routes, `unzip`, `uploadZip`, `uploadFile`, `cleanup` | guards, multer, `StorachaService`, `S3Service` |
| `S3Service` (`src/s3`) | the bucket | `uploadFile` (look up the key, then put) | called by `UploadService` |
| `MulterConfigProvider` (`src/multerConfig`) | the directory and the name of an uploaded file | `destination`, `filename` | runs before the handlers |
| `AuthGuard`, role guards, `AuthService` (`src/auth`) | a whitelist contract cached for each client type | `parseToken`, `isWhitelisted`, `getWhitelist` | the sequencer and whitelist contracts over RPC |
| Contracts (`src/contracts`: `Whitelist`, `DdexSequencer`, `ERC1967Proxy`) | role holders and listed wallets; the addresses of the whitelists, the owner, the emitter, a linked list of blobs; the implementation of the proxy | the transactions of the three interfaces | wallets; asked by `AuthService`; the emitter contract, which is elsewhere |
| `filesFromPaths` (`src/storacha/filesFromPath.ts`) | none | lists files, cuts their common prefix, sorts | the disk; called by `StorachaService` |
| `runMigrations` (`src/runMigrations.ts`, `src/migrations`) | the database and its schema | create the database, migrate, report to CodeDeploy | Postgres, CodeDeploy |
| Entry points (`src/lambdaEntrypoint.ts`, `src/app.instance.ts`, `src/main.ts`) | `AppInstance.instance`, `appServer` | lazy start of the application | Lambda |
| Secrets (`src/awsSecrets`) | the parsed secret of an environment | read once, when the application is created | AWS Secrets Manager |
| Configuration (`src/config`, `src/dataSource.ts`) | environment variables | read once | all |
| Logging, error reporting, Nest wiring | none after the start | | |

A request goes: guards, multer (file on disk), validation pipes, handler,
`unzip` (directories only), `StorachaService` (`init`, `setUserSpace`,
`filesFromPaths`, the client's upload), the copy in the bucket, removal of the
directory, answer.

### What is hard here

- **Shared client.** The space an upload goes to is not an argument. It is
  selected in a client that all calls of a process share
  (`storacha.service.ts:174`) and read back from it after the awaits of
  `filesFromPaths` (`:193`). Only the absence of overlapping calls in a Lambda
  environment keeps payloads of different owners apart.
- **State in two places that have different lives.** The `did` column says
  which space to select; whether a client knows that space depends on the
  process. A cold process finds a did it cannot select, a warm one finds a did
  it can although the operator has since replaced the proof.
- **Check then act over an await.** `init` tests `_client` and assigns it three
  awaits later; S3 is asked for the key and then written.
- **Every call may fail, or fail after having had its effect**, and an
  environment may time out or be recycled between any two steps.
- **Whole requests end, not calls.** A timeout takes away the request, its call of the
  service and the client with its spaces at the same moment, but not the table, the
  bucket, the space or (perhaps) the disk.
- **A list linked through a mapping** in the sequencer, with its two ends kept apart and
  hashes that come back after they have left.
- **Effects in a fixed order** that a caller relies on: extraction, Storacha,
  copy, answer; removal of the files whatever happened.

### What makes each component correct

- `StorachaService`: a payload is only ever put into a space whose proof was
  given to the address the route names; the did that is saved is one of the row's
  own proofs; success means stored, in one space; a call is never failed by the
  state another call left the client in; every call settles.
- `UploadService` and `S3Service`: an acknowledged payload is in Storacha and,
  where copies are made, in the bucket; nothing is in the bucket that is not in
  Storacha; a request turned down leaves nothing behind; files are removed.
- `AuthService`: a handler runs only for a wallet that is on a whitelist of the type
  its route is for, one the sequencer has named; a listed wallet is not refused for
  an error of the chain.
- `filesFromPaths`: no file lost, none that is hidden, names relative to the
  longest common directory, each of them different.
- Contracts: the queue of blobs is first in first out and loses nothing; the whitelists of
  an initialised sequencer are what they are; what was renounced stays renounced.
- `runMigrations`: CodeDeploy is told of success only when the schema is the latest,
  whichever schema a deployment starts from and whichever of overlapping runs migrates it.
- Entry points: a request is handled by an application that was initialised to
  its end, although an earlier start may have failed half way.

## The modules

| Module | What it is |
|---|---|
| `StorachaService` | the service, the table and the client, one action for the code between two awaits |
| `SpaceUpload` | what the service promises to its callers, without client, table, did or process |
| `MCStorachaService` | values for TLC |
| `StorachaServiceProofs` | theorems for any number of concurrent calls in a process |
| `StorachaIsolationProofs` | theorems about what calls do to one another: how far calls that share a client are safe, and that one call at a time in a process is, up to `StorachaService` implementing `SpaceUpload` |
| `UploadService` | a request from the route to its answer; uses `SpaceUpload` in the place of the Storacha service |
| `MCUploadService` | values for TLC |
| `UploadServiceProofs` | theorems about the request |
| `Bridge` | requests that call `StorachaService` itself, and the environments both live in |
| `MCBridge` | values for TLC |
| `BridgeProofs` | theorems: `Bridge` runs `StorachaService` and implements `UploadService`; what an answer of success is worth |
| `AuthService` | the guards, the whitelist contract a process keeps, and a chain that changes |
| `MCAuthService`, `AuthServiceProofs` | values for TLC; theorems about who is let in |
| `FilesFromPaths` | what of an upload is sent and under which names |
| `MCFilesFromPaths`, `FilesFromPathsProofs` | trees for TLC; theorems for every tree |
| `Deployment` | the migration hook, CodeDeploy's traffic and the start of an environment |
| `MCDeployment`, `DeploymentProofs` | values for TLC; theorems about a version that comes into service |
| `Whitelist` | the whitelist contract: roles, listed wallets |
| `DdexSequencer` | the sequencer behind its proxy, with the whitelist contracts it names |
| `BlobQueue` | what the sequencer promises of the blobs it is given |
| `MCDdexSequencer`, `DdexSequencerProofs` | values for TLC; theorems about the contracts |

Three specifications are implemented by more detailed ones: `SpaceUpload` by
`StorachaService`, `UploadService` by `Bridge`, `BlobQueue` by `DdexSequencer`.

`UploadService` is composed with `SpaceUpload` (`Storacha == INSTANCE SpaceUpload`),
and `StorachaService` implements `SpaceUpload` on Lambda (checked and proved),
which is where `UploadService` says it runs. `SpaceUpload` is therefore the
contract between the two: what is shown of a request rests on what is shown of
the service. `Bridge` is the composition without the contract: the service itself is
run by the requests, in their environments.

### StorachaService

| Variable | Code |
|---|---|
| `rows` | the `Spaces` table; a wallet without a row is `NoRow` (the proof column is not nullable) |
| `assigned` | history only: the proofs a wallet has had, what the properties call its own |
| `client[p]` | `_client` in process `p`: whether it was made, the spaces added, the current space |
| `contents` | what the Storacha network lists in each space |
| `pc`, `at` | where a call is, and in which process |
| `auth`, `found`, `target` | the `authInfo` argument, the local `space`, the space the library's upload read from the client |
| `outcome` | the return or the throw |

An action is the code from one await to the next. `BeginUpload` is
`uploadFile`/`uploadZip` up to the first await of `init`, which is also the
first await of `setUserSpace` when the client exists; `CreateClient` assigns
`_client`, `FindSpace` reads the row, `SelectStoredDid` and `StoredDidUnknown` are the
`try` and its `catch`, `AddSpace` ... `SaveDid` the body of the catch,
`StartTransfer` the start of the library's upload after `filesFromPaths`, and
`FinishTransfer` its end. Each await has its failure, and those whose effect
may have been made before the failure leave that open (`SaveDidFails`,
`FailTransfer`). `AssociateSpace` and `ReplaceProof` are the operator.
`ProcessExits` is a recycled environment, a timeout or a stopped server.

The Storacha library is not in the repository. What the model has of it is what the
service relies on: `addSpace` makes a space known and, when it is the first,
current; `setCurrentSpace` throws for a space that is not known; an upload
needs a current space, and reads it when it starts. Of a proof only the space it
delegates matters (`DidOf`); one that cannot be parsed has none.

`Moved(r)` says of a step of another that it takes away what call `r`, waiting where it is, goes on to rely on: that
its space is known, between `addSpace` and `setCurrentSpace` (`storacha.service.ts:103-105`), or that it is the current
one, from there to the start of the transfer (`:149`, `:193`). `Safe(r)` says that `r` has what it relies on.
`HasSpace(r)` is the part of it without which the client fails the call: that the added space is known, later that any space is
current. `Warm(p)` says that process `p` has its client and no call of it is still in `init`, to assign another.

`Lambda` chooses the deployment: one call at a time in a process (Lambda), or any
number (the server of `main.ts`). `ProofsRotate` lets the operator replace proofs.

### UploadService

`pc` follows a request: guards, pipes, unzip, Storacha, head, put, cleanup. The
guards are one refusal here. `dirs[p]` has a directory for each request that
has one on the disk of environment `p`, `bucket` a payload for each key. Two
requests with equal contents (a caller that tries again) have the same cid, and the same
key when their files have the same extension: `KeyOf` is the cid with the extension
of the file that multer wrote, which keeps that of the name it was sent with and takes one from the
media type only where the name has none (`Extension`). Equal contents means equal as
sent to Storacha; hidden entries of an archive are not part of it. `Finally` is the end of a `try`
block whose result waits for `cleanup`; a removal that fails replaces the result.
`Timeout` ends a request anywhere, without its `finally`. `UnzipFails` has two results: a directory that cannot be
made (`upload.service.ts:50`, an error nothing catches) and an archive that cannot be extracted (`:61`). `Busy`, like
`Accepts` of `StorachaService`, is the platform's: nothing in `lambdaEntrypoint.ts` keeps a second invocation out.

### Bridge

The variables are those of `StorachaService` (its `pc` and `at` are called `call` and `host`
here) and those of `UploadService` without the ones of `SpaceUpload`, which are now functions of the
state of the service: `given`, `owner` and `status` are `OwnSpaces`, `Owner` and `Status`.
`Handle` is every step of a request that does not touch the service. `CallStoracha` begins a call
in the environment of the request, an image for the space of its caller and an extracted archive for
that of the owner the route names; `Await` is a step of the call after which it goes on, `Return` and `Catch`
are the steps that end it, together with what the request does with the end. `Timeout` and
`IdleExit` take the client with the environment.

### AuthService

`named` and `members` are the two kinds of contracts, `_whitelists[p]` the cache of process
`p`. A request is at `id`, `address` or `assign` while its process looks the whitelist
up (two calls to the chain and the arrival of the second answer, before which another call may
have filled the cache), at `ask` while it waits for `isWhitelisted`, and then at the answer
it got. The answer of `isWhitelisted` is used at the moment it is evaluated, because
what follows is the call's own. `since`, `ever` and `always` are history: what the sequencer
has named since the process began, and whether the wallet was listed there at some or
at every moment of the call. Adding and removing
wallets is what `Whitelist` has. Replacing a whitelist is an upgrade of the sequencer to other code: with the
code of the repository the named whitelists stay (`WhitelistsStayNamed`). A sequencer may name the zero address for
a list, and a process then keeps a contract object that can only fail (`Address`). A request
whose process goes away is `Lost`. `UploadService` has one `Refuse` for all that is
turned away here.

### FilesFromPaths

`Init` chooses a tree; the steps are those of the two generators. A path is the sequence
of its parts, so that cutting the length of `commonPath` off a name drops `Len(commonParts)`
parts. The walk may visit entries in any order that has a directory before its content. The
final sort is left out: names are all different (`NamesTellFilesApart`), so it has one result.

### Deployment

A deployment starts from whatever those before it have left: no database, or one with none, some or all of the
migrations (`Init`); the second migration of the repository meets databases that have the first. A run applies all that
are missing in one transaction, which is the library's default and is assumed here. `pc[h]` follows one run of `runMigrations`; a run that Lambda repeats after a failure is
another run. `Throw` is an await that throws, or an invocation that times out, with or without
its effect: nothing catches what `createDBIfNotExists` throws, and `destroy` throws for a data source that
never connected, so in these cases CodeDeploy is told nothing. `MigrateFails` is the `catch`
block, after which `result` is still undefined and is sent as it is. `instance` and
`appServer` are the two variables of an environment; a start that fails leaves them as they are.
`secret` is what Secrets Manager holds, which the operator may write at any time (`PutSecret`), `secrets`
what an environment has read of it: the application is created only when it can be parsed, and a
missing or garbled one fails the start (`FetchSecret`, `CreateApp`).

### Whitelist, DdexSequencer, BlobQueue

The repository has the contracts as interfaces and as bytecode (the `_bytecode` constants at
`Whitelist__factory.ts:364`, `DdexSequencer__factory.ts:514` and `ERC1967Proxy__factory.ts:91`), not as
Solidity. Guards and effects were read from the bytecode, disassembled, and compared with its execution; the map
names, for each transaction, its entry in the interface. A transaction is one step; one that reverts is no step.
The variables have the names of the interface: `roles` and `whitelist` are the storage of the whitelist contracts,
`implementation` that of the proxy, the others that of the sequencer as the proxy keeps it. `order` is
history: the hashes that were submitted and not taken. `Call(c)` is what the proxy delegates,
and an upgrade may carry one (`Data`).

`DdexSequencer` implements `BlobQueue` with `order` for the queue, so that the head, the tail and the marks, which are
all that can be seen of the linked list from outside, are those of a first-in first-out queue.

In all modules an operator commented "A plausible bug" is no part of the
specification. It is a wrong variant of the definition that follows it: the
specification with that variant in its place violates the property that
`PROJECT.json` lists with it, which shows that the property depends on that code.

## The runs

| Run | Question | Result |
|---|---|---|
| `lambda` | does each upload reach a space of the wallet its route names, that of the proof its row holds, and without an error that comes from the client, when one environment serves three calls and may exit between any two steps? does a live client keep its spaces? | holds |
| `rotation` | two environments, proofs being replaced: is every step one of `SpaceUpload`? does each transfer start in the space that the row its own call read led to? does a successful wallet have a did? | holds |
| `server` | two overlapping calls in one process: is the did that is saved one of the row's own proofs? is a success stored in exactly one space? does a call lose what it relies on only in a step of another that moves its space? both calls may find no client and create one: is the harm of that confined to the start of the process? does every call end, whatever the other did to the client? | holds, the last under fairness |
| `server_space` | does each upload reach its own space on the server? | **violated**, see findings |
| `rotated_proof` | does each upload go to the space of the proof its row holds? | **violated**, see findings |
| `upload` | three requests, two with equal payloads, two environments, one bucket, every call failing and every environment timing out at any step: are acknowledged payloads kept, copies preceded by Storacha, refused requests without trace, files swept? | holds |
| `bridge` | two requests with equal contents that run the service themselves, two environments that may time out or be recycled at any step: is every step one of `UploadService`? is what was answered with success stored once, in a space of the owner, with a did in the table and a copy in the bucket? does no request go back to a step it has taken? is every request answered or lost? | holds, the last under fairness |
| `auth` | two calls of a process while wallets come and go and the sequencer is given other whitelists: is everyone let in listed, and nobody turned away who is? | holds |
| `files` | every tree over thirteen paths in every order: are exactly the visible files sent, under different names relative to their longest common directory? | holds |
| `deployment` | from every earlier schema, three overlapping hooks, any await failing before or after its effect, two environments: is CodeDeploy told the truth, and a request met by a ready version? | holds |
| `contracts` | two accounts, three blobs: is the linked list a queue, do whitelists, renounced ownership and lost administrators stay as they are? | holds |
| `stage_backup` | is no copy made where `BACKUP_TO_IPFS_NODE` is `"false"`? | **violated**, see findings |

### Bounds

- Three calls and one environment (`lambda`): the first fills the client, the second
  makes it know a second space, the third selects among both. Calls are
  independent but for the client, the table and the spaces, and each property
  speaks of one call and the client others left it, so a fourth adds no new
  kind of history. Two calls are enough where two are in conflict (`server`, `server_space`);
  what `server` checks of safety is proved for any number.
- Two wallets, two good proofs with a space each, one that cannot be parsed: two
  wallets are what it takes to mix them up.
- Two environments (`rotation`, `upload`): one that is warm with an old proof and
  one that is cold, sharing the table or the bucket.
- `ReplaceProof` never gives a wallet a proof it had before. This bounds the
  rotations by the number of proofs.
- `auth`: two calls and two whitelists are what it takes for one call to overwrite what
  another has cached, and for the whitelist of one type to be confused with that of the other.
- `files`: trees of depth three with two names and a hidden one, so that common
  directories shrink more than once and hidden entries occur at each depth but the last.
- `deployment`: three hooks, of which two overlap and one comes late; two migrations, so
  that a deployment can start from none, one or both.
- `bridge`: one wallet and one space, since whose space it is has its own runs and theorems; a good
  proof and a bad one, two environments and two requests with one key, so that a request meets a cold client,
  a warm one, one that was lost with the request before, and a copy that exists or is being made.
- `contracts`: two accounts share roles and ownership, three blobs are what it takes for one to be in the
  middle of the list; one list, which is given to both, one or none of the two ids; two addresses with this code.
- A request runs once: a retry is another request with an equal payload.
- Wallets, proofs and requests are permuted by `Symmetry` only in runs of safety
  properties and only where the constants treat them alike; `bridge` and `server` have none.
- Deadlock is not checked because all requests may have been answered, and then
  nothing is left to do. That no call is stuck is `EveryCallSettles`, that no request is,
  `EveryRequestIsAnswered`. In `contracts` deadlock is checked.

The theorems hold for all values of the constants, so the bounds matter only
for what is not proved (below).

### Fairness

`FairSpec` has weak fairness of `Proceed(r)` for each call: a call that has begun and can
go on, goes on. What justifies it is the event loop of Node, which resumes a
function when the promise it awaits settles, and the libraries, whose requests
end in an answer or an error. Nothing obliges the operator to act, a request to
come, a particular outcome to be chosen or a process to stay. `Bridge` has the same for
`Progress(r)`, what a request does between its arrival and its answer.

## What is proved

All theorems are for every number of calls, processes, wallets, proofs, spaces,
accounts, blobs and trees, from the assumptions on constants that each module names (`ConstantsOK`: a proof
delegates a space or none; `UploadConstantsOK`, `AuthConstantsOK`, `FilesConstantsOK`,
`DeploymentConstantsOK`, `SequencerConstantsOK`, `BridgeConstantsOK`). Where a theorem needs more (`Lambda`, proofs
that are not replaced, a setting) its statement says so. Every invariant and every action property that a passing run checks is
the conclusion of a theorem.

### The service, with calls that overlap or not (`StorachaServiceProofs`)

- `TypeCorrect`: `TypeOK`. The invariant is `Typed`: `TypeOK` is not inductive, because
  a row that has been found must hold a proof for `DidOf` to be applied to it,
  and a call under way must have a process and a wallet (`Placed`).
- `DidsAreOwn` and `SuccessfulWalletsHaveADid`: `TableInv` adds that the row a call
  holds in its hand is, proof and did, of the wallet's own history (`FoundOwn`) and that
  once a call is past `setUserSpace` its row has a did (`DidSaved`). The
  client is not mentioned: the did is that of the proof the call itself parsed,
  which is why overlapping calls cannot spoil it.
- `SuccessesAreStored`: `StoredInv` says that a payload is in no space before its
  transfer ends, and that a transfer lists it in its own target only.

Three lemmas carry the modules above it: `OthersUntouched` (a step of one call changes no other call and no client but that of its
process), `ProceedGoesForward` (each step of a call takes it to a later place, `CallNo`) and `CallsEnd` (what is
over stays over, with its outcome).

### What calls do to one another (`StorachaIsolationProofs`)

- `HarmTakesAMove`, on either deployment: a call is *safe* (`Safe`) while the client holds what its place
  requires (`ClientReady`), its transfer goes where its row led (`TransferOf`) and it has no error of the client (`ErrorOf`).
  `OwnStep` says a call's own steps keep it safe whatever state the calls before have left the client in, and `SafeStep`
  that the steps of others do unless they move its space.
- `SharingIsSafeUntilMoved`, on either deployment: `Spec /\ [][~Moved(r)]_vars => []Unharmed(r)`. A call that is safe to the end has
  its payload in its owner's spaces (`OwnUploadsStep`) and no error of the client. The hypothesis is about the steps of others
  only and is met by behaviours with any number of overlapping calls. It is the complement of finding `server_space`: that run
  shows the harm, this theorem that there is no other way to it.
- `StartsEnd`, on either deployment: `OnlyStartsLoseSpaces`, which is about the test and the late assignment of `init`
  (`storacha.service.ts:36-45`). `ClientGrows` says that a client that is neither replaced nor gone keeps its spaces and a current one,
  `HasSpaceStep` that a call therefore has its space until another call of its process assigns a client, and
  `CreationBegins` that no call sets out to create one where there is one: the race ends with the start of the process.
- `WarmServersFailNoCall`, on either deployment: `Spec /\ []FirstToCreate => []NoClientError`. On a server none of whose
  calls is still in `init` when the first client is made (the first call is alone until then, say) no call is ever failed by the
  client, however many share it. That a call's payload goes to its own space does not follow: see `server_space`.
- `UploadsStayInOwnSpaces`, `TransfersGoByRow`, `NoCallFailsForTheClient`, on Lambda: `IsolationInv` is `Alone` (two active calls of a
  process are the same call, so that nobody moves the client of a call that waits: `ClientStays`), safety of every call
  and that only a process without a client creates one (`FirstToCreate`), from which also follows
  `ClientsForgetNothing`. The operator may replace proofs meanwhile.
- `UploadsFollowTheProof`, on Lambda and without replaced proofs: `OneProof` (a wallet has had no proof but that of its row) makes
  the saved did and the parsed one the same. It is the complement of finding `rotated_proof`, which is about tables whose proofs are replaced.
- `KeepsItsPromise`, on Lambda: `Spec => Promise!Spec`. Each step of the service is mapped to a step of
  `SpaceUpload` or to a stutter; an exit of a process maps to a failed call
  when one was under way there.

### The request (`UploadServiceProofs`)

`UploadIsTyped`, `AckedPayloadsAreKept`, `CopiesFollowStoracha` and
`TurnedDownRequestsLeaveNothing` from `UploadInv`, which ties the place of a request to
its status in Storacha, to the space that has it and to its key in the bucket, and
`HandlersSweepTheirFiles` from `SweptInv`, by which a directory exists only on the
environment that serves its request or after one of four ends. `NoCopiesWhenUnset` is the complement of finding
`stage_backup`: with `BACKUP_TO_IPFS_NODE` unset or empty nothing is copied, so that those are the values that turn copies off.

### The request that runs the service (`BridgeProofs`)

`BridgeInv` is `IsolationInv` of the service inside and `Linked`: an environment serves one request, whose call is under
way exactly while the request waits for Storacha, and there. The service is an instance of
`StorachaIsolationProofs` with `Lambda` true (`Proved`), and each step of the bridge is one of it or none:

- `RequestsRunStorachaService`: `Spec => Service!Spec`. The service under requests is the service the theorems above are
  about, timeouts of whole requests included.
- `RequestsImplementUploadService`: the lemmas behind `KeepsItsPromise` say which step of `SpaceUpload` a step of the service is, and
  `Linked` which step of `UploadService`. The two theorems together say that replacing the service by its promise and putting it back loses nothing.
- `RequestsKeepWhatTheyAreTrustedWith`: the refinement put to use. The theorems of `UploadServiceProofs`, instantiated at the state the
  bridge maps to (`Kept`), are theorems of the bridge.
- `AcksHoldEndToEnd`: what a caller told of success can count on, which no component can say alone. `AckInv` follows a
  result from the service's outcome to the copy; the space, its owner and the did come from `IsolationInv` and `TableInv` of the service.
- `RequestsGoForward`: `NothingIsRetried`. A request's places and its call's places are each numbered, no step lowers a number, and a
  step of `Progress(r)` raises one. This is the well-founded half of `EveryRequestIsAnswered`: with nine places and ten, a request can
  take finitely many steps, and what is left to fairness is that it takes them.

### The guards (`AuthServiceProofs`)

`AuthIsTyped`, `HandledRequestsWereListed` and `ListedWalletsAreLetIn` from `AuthInv`:
a process holds only whitelists named since it began, each for its own type (`CacheInv`), and
what a call has seen of the chain agrees with what the chain has been (`CallInv`). Any number of calls
may overlap. `CachesAreCurrent` (`Spec /\ NamedStays => []CacheIsCurrent`): while the sequencer names the same whitelists, which
`NamedWhitelistsStay` proves of the contract in the repository, each cached contract and each question is of the whitelist in
force. The cache can be out of date by an upgrade only.

### Files, deployment, contracts

**`FilesFromPathsProofs`**: `VisibleFilesAreSent`, `FilesHaveNames` and `CommonPartsAreTheLongest`. The
walk keeps `WalkInv`: what was found, what is still to be visited and what was entered divide the tree,
and `commonParts` is a common beginning of the directories found that cannot be longer. Where the
code compares parts one by one, the proof takes the first index at which two paths differ, so that
no induction over sequences is needed.

**`DeploymentProofs`**: `DeploymentIsTyped`, `HooksTellTheTruth` and `RequestsMeetAReadyVersion` from
`DeploymentInv`. The schema only goes forward, so that what a hook has found or made true
(`Migrated`) stays true while it reports, while traffic is sent and while requests are served.
Assumption: `DeploymentConstantsOK` (there is a migration).

**`DdexSequencerProofs`**: `SequencerIsTyped`, `TheQueueIsLinked`, `TheQueueIsAQueue`, `NamedWhitelistsStay`,
`RenouncedForGood` and `RolesNeedAnAdministrator` from `Inv`: types, the list (`QueueIsLinked`, which is inductive
with the types) and that nothing is set before the proxy is deployed (`DeployedFirst`).

### Only model-checked

`EveryCallSettles` and `EveryRequestIsAnswered`: liveness under fairness, and `ENABLED` with it, is beyond the
prover. The three findings are counterexamples, which TLC finds on small instances.

## Findings

- `server_space` (`src/storacha/storacha.service.ts:193`). On the server of
  `main.ts` two calls that overlap can send a payload to the space of another wallet:
  the second selects its space while the first awaits `filesFromPaths`. Lambda
  serves one call at a time and is not affected, as `lambda` and `UploadsStayInOwnSpaces` show; on the server
  a call that was not overtaken in this way is not affected either (`SharingIsSafeUntilMoved`).
- `rotated_proof` (`src/storacha/storacha.service.ts:86`). After the operator has
  replaced the proof of a row by that of another space, the saved did is still tried
  first: an environment that knows the old space goes on using it, and a cold one
  uses the new one. Clearing the `did` column with the proof avoids it. It takes a
  replaced proof: without one uploads follow the proof (`UploadsFollowTheProof`).
- `stage_backup` (`src/config/config.ts:20`). `Boolean('false')` is true, so copies are made
  outside of production too, where `infrastructure/template.yml` says `"false"`.

## What is left out, and why

- Rows are added and their proofs replaced; the model has no deletion of a row (the
  documentation has the operator do neither, and an update of a missing row
  changes nothing). Edits of the did column by hand are left out as well.
- A payload that is registered after its call was lost is registered at the moment
  of the loss: nothing distinguishes the two for a call that never answers.
- The cid and the content of files, sizes, types and formats: a payload is a name, and a
  check of the pipes may go either way.
- Files that nobody removes: those of a request that is turned down by the pipes, whose directory could not be filled, or whose
  process was cut off stay in `/tmp` of a warm environment. `TempSwept` lists these cases and says that there are no
  others; how much may pile up is not bounded by the code, and nothing in the repository says that it is.
- `mkdirSync` throwing in multer's callback, a crash of the process: its end is the `Timeout`
  of the request.
- Logging, error reporting and Nest wiring keep no state. The stand-ins for secrets that tests and the
  local server use.
- Of the contracts: events, the identifiers of a blob that are only shown, what the emitter judges (a call
  it turns down reverts), calls that the emitter, a contract the owner chooses and the repository does not have, might make of the
  sequencer while `submitProof` waits for it and before the queue is moved (it is taken to make none), upgrades to other code, which `AuthService` has as what they do to the bridge. The
  typed wrappers TypeChain makes of the interfaces decide nothing.
- That a migration changes the schema before traffic is sent to the new version, so that environments of the old one meet the
  new schema for a while: nothing in the repository says what they then do.
- How long a replaced whitelist goes on being asked: until its process ends, as `since` has it. The
  whitelists of a sequencer are set when it is initialised and change with an upgrade only.
- A migration hook that tells CodeDeploy nothing: it happens (`Throw`), and nothing in the repository
  says what CodeDeploy then does.
- Down migrations, which nothing in the repository runs. Symbolic links in an archive, which the walk passes over.
- Local seeds of `src/migrations/1748604613650-AddSpacesTable.ts`: wallets are
  abstract and lower case here.

## The plan

Modules, in order of what matters most:

1. `SpaceUpload`, `StorachaService` and their proofs: **done**.
2. `UploadService` and its proofs: **done**.
3. `AuthService` and its proofs: **done**.
4. `FilesFromPaths` and its proofs: **done**.
5. `Deployment` and its proofs: **done**.
6. `Whitelist`, `DdexSequencer`, `BlobQueue` and their proofs: **done**.
7. `Bridge` and its proofs: **done**.
8. What calls that share a client do to one another, the theorems of the service and of the request in the bridge, and
   the orders of places that show that nothing is retried: **done**.

Left, in this order:

- The whitelists a sequencer names (`DdexSequencer`) and those a process has cached (`AuthService`) in one specification, so
  that the hypothesis of `CachesAreCurrent` is a theorem of it and not a reader's step from `NamedWhitelistsStay`.
- An order for `Deployment` like that of `NothingIsRetried`: the schema, a hook and the start of an environment only go forward.
- `AuthService` inside `Bridge`: the guard's refusal is one step there. The two share nothing but the process
  that ends, so that the product of their states says little more than each does.

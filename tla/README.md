# Reelm in TLA+

Reelm is an HTTP proxy between programs and LLM providers. It hashes each
request, records what the provider answers in *cassettes* (files on disk) and
replays them to later requests with the same hash. This directory models the
program, checks the models with TLC on small instances, and proves the main
results about them with TLAPS.

## 1. The system

| part | state | operations | where |
|---|---|---|---|
| cassette store | files `<ns>/<xx>/<hash>.<ext>`, `s.mu`, the format | Save, LoadByHash, LoadByNamespace, Delete, List, Prune, RebuildIndex, Close, NewDiskStore | `pkg/store/store.go` |
| index | a bbolt file: hash → path, namespace → hashes | Put, GetPath, GetHashesByNamespace, Delete | `pkg/store/index.go` |
| serializers | – | YAML or JSON and its extension | `pkg/store/serializer.go`, `cassette.go` |
| proxy handler | per request: goroutine, response in flight | ServeHTTP, handleReplay, handleRecord, serveCassette, resolveUpstreamURL | `pkg/proxy/handler.go` |
| process | mode, listener, open store, signal | runServe, Start, Shutdown, RecoveryMiddleware | `cmd/reelm/main.go`, `pkg/proxy/server.go`, `middleware.go` |
| streaming | body, event under way, chunks | PipeAndRecord, Replay | `pkg/streaming` |
| tunnel | a hijacked TLS connection | HandleConnect, connResponseWriter | `pkg/proxy/tls.go` |
| CA manager | two files, shared by every process of a user | NewCAManager, GetHostCertificate | `pkg/proxy/tls.go` |
| hashing | – | DetectProvider, four canonicalizers, Hash | `pkg/hasher` |
| configuration | – | Load, Validate, flags | `pkg/config`, `main.go` |
| the rest | – | logging, version, test utilities | |

**Interaction.** The handler detects the provider of a request, canonicalizes and
hashes it, and calls the store through the `Store` interface, one goroutine per
request; all of them share one DiskStore, and the store's lock is the only thing that
orders them. The process opens the store before it serves and closes it when
`runServe` returns, which can be under requests that are still recording (`Shutdown`
gives up after 15 seconds and never waits for tunnels; a failed listener does not wait
at all). A streamed response goes through the recorder on its way to the client and
the recorder's chunks into the cassette. A tunnel calls the handler in a loop with a
response writer of its own.

**What is hard.** A Save or a Delete changes the directory and the index in two steps
and may fail, be killed or lose its power between them. Every start rebuilds the index
from the files, so what the index "knew" (which of two files is the newer) is lost
there. Several operations look under one lock and act under another, or under none. A
response can break off at any point, and what was recorded of it outlives the request.
The CA is two files that several processes write without a lock. Whether two requests
share a hash is decided by four translations of four request formats. The hazards in
`PROJECT.json` name each at its line.

**What makes each part correct.** The store: one dictionary that survives restarts,
crashes and failures. The index: its two buckets agree. The handler: what it replays
was recorded, what it recorded is found again, replay mode calls nobody and writes
nothing, everybody is answered. The process: a graceful stop loses nothing of the
listener's and ends. Streaming: the chunks are the stream cut into events, and a replay
repeats it. The tunnel: each response ends and goes to the request it answers, and the
loop ends after its client. The CA: certificate and key belong together, and a client's
trust outlasts restarts. Hashing: an ask hits its own recording, however it is spelt,
and no other. Configuration: a process that came up can serve.

## 2. The modules

| module | models | uses |
|---|---|---|
| `CassetteStore` | the abstract dictionary behind the `Store` interface | |
| `DiskStore` | files, index, lock; Save, Delete, LoadByHash, Close, start, crash | instantiates `CassetteStore` as `Abs` |
| `StoreQueries` | LoadByNamespace, List/Prune, online RebuildIndex | extends `DiskStore` |
| `PowerLoss` | the store on a machine that loses unsynced writes | extends `DiskStore` |
| `Proxy` | concurrent requests in the three modes, restarts | instantiates `CassetteStore` as `Store` |
| `Server` | how a serving process ends; panics | extends `Proxy` |
| `StreamRecorder` | PipeAndRecord and Replay | |
| `Tunnel` | the loop of HandleConnect and an HTTP/1.1 client | |
| `Interception` | the CA files under several processes, CONNECT, trust | extends `Tunnel` |
| `Requests` | requests, texts, JSON values, provider detection | |
| `Hashing` | the canonicalizers, the hash | extends `Requests` |
| `Clients` | the requests the providers' SDKs send (external) | extends `Requests` |
| `Gateway` | configuration, upstream, headers and bytes of answers | extends `Clients`, takes the hash as a constant |
| `MCDiskStore`, `MCStoreQueries`, `MCPowerLoss`, `MCProxy`, `MCServer`, `MCStreamRecorder`, `MCTunnel`, `MCInterception`, `MCGateway` | the constants of the TLC instances | |
| `DiskStore_proofs`, `StoreQueries_proofs`, `PowerLoss_proofs`, `Proxy_proofs`, `Server_proofs`, `StreamRecorder_proofs`, `Interception_proofs` (with those of `Tunnel`), `Gateway_proofs` | theorems and proofs | `TLAPS` |

`Proxy` takes a store operation as one step of `CassetteStore`; that `DiskStore`
implements `CassetteStore` (checked, and proved for one format) is what permits this.
It includes a Save that returns an error after its file was published. Concurrency and
failure are the subject of `Proxy` and `Server`, where a request is only its hash; what
requests and answers say is the subject of `Gateway`, where one request is served at a
time.

### CassetteStore

`recorded` is the durable content: what the next start will serve. `hidden` is
the part of it that cannot be found before: everything while the store is closed
and, when updates may fail (`IOFaults`), recordings whose index update was lost.

### DiskStore

`files[h][e]` is `<hash><ext>`; `paths` and `spaces` are the two buckets; `mu`, `pc`,
`cur`, `new` are the writer inside Save or Delete; `fmt` is the configured format;
`phase` is "down" (no process), "open" or "closed" (Close was called, the process
lives on, calls still arrive). `SaveBegin`, `SaveRename`, `SaveIndex` are Save up
to the temporary file, the rename, and the index transaction; `DeleteBegin` and
`DeleteIndex` are Delete up to `os.Remove` and its transaction; the `...Fails`
actions are their error returns. `Open` is NewDiskStore with the rebuild in
lexical order (h.yaml after h.json), `OpenFails` a rebuild that stops part way,
`Crash` the end of the process anywhere, `LoseIndex` the removal of the index file
between two runs.

The refinement mapping takes `recorded[h]` to what a rebuild would find now, so a
Save takes effect at its rename and a Delete at its remove, and `hidden` to what is
recorded but neither indexed nor about to be.

Left out: temporary files (no operation sees their extension); the extension `.yml`,
which is read but never written; reads that fail (only updates do).

### StoreQueries

`task` and `todo` are the operation a goroutine is in and what it has still to visit.
LoadByNamespace reads the namespace's list (without `s.mu`), then loads hash by
hash; Prune lists, then deletes by hash through DiskStore's own Delete; RebuildIndex
reads a file and Puts its entry in two steps, without `s.mu`. The hashes are visited in
any order, where the code's is fixed. `stable` is history: the hashes nobody touched
since the operation began. It is for one format only (assumed): a rebuild then
meets one file of a hash at most. Recordings in `Old` are never saved again, as a
Save stamps the current time.

### PowerLoss

`durable[h][e]` is the set of what a power loss may leave of a file: Save's rename adds
the new recording and, as nothing syncs the temporary file, an empty one and those that
are cut off; `os.Remove` adds its absence; `WriteBack` reduces the set to the file as it
is. bbolt syncs its transactions, so the index survives as committed. `Parses` is what
the two serializers make of torn files: JSON refuses them, YAML reads all, an empty
file as an empty cassette. The rebuild indexes a file that parses and has a hash. A file
can be cut off after its namespace (`Cut`), within it (`Stub`: what is left reads as
`Left`, another namespace or none), or before the end of its hash, which is, for that
hash, as good as empty; `Filed` is the namespace a rebuild puts it under. `failed` is
history: the hashes an update left half done, and those with files in both formats;
`misfiled`, those the index has, or had, from a stub.

### Proxy and Server

`stage[r]` is how far the goroutine of request r is: "lookup", "call", "body", "save",
"answer", "done", or "lost" with its process. `resp[r]` is what it fetched: a request
fetches at most once, so a cassette is named by the request that recorded it, plus
whether it is a stream and whether it is whole. `out[r]` is the header
X-Reelm-Cache and the body the client got. `saved` and `seen` are history. The
answer of a stream is set at the end, where it carries what was passed on. Requests in
`Tunnelled` arrive, and go on, while the listener is closed. Clients in `Stuck` neither
read nor leave.

`Server` adds `ending`, why the process came to its end. `StopSignal` closes the
listener; `Drained` is a Shutdown that saw no request of the listener in flight,
`TimesOut` one that met its deadline, `ListenerFails` a ListenAndServe that returned an
error; each is followed by the deferred Close of the store, then `Return`. `Panics` is a
panic of any handler at any point: for a request of the listener the middleware writes
its 502, which a client gets that has been sent nothing yet; a stream whose header went
out just ends there (`BadGateway`). A tunnelled request unwinds its tunnel.

### StreamRecorder

A line is its position in the stream; `blanks` are the empty lines. `Ends` is what
follows a read by how it ended: more to come, EOF (the rest becomes a chunk) or an
error (it does not). The delays are not modelled.

### Tunnel and Interception

In `Tunnel`, `up` and `down` are the bytes under way, as heads, bodies, responses and
closes. A response ends by its length or with the connection; one with a Content-Length
is assumed to be as long as that says. The client (external) sends its next request when
the last response has ended, and may leave at any time.

`Interception` puts processes and a CA directory around it. `crt` and `key` are the
files: a key pair's name, `Torn`, or none. NewCAManager is taken step by step: read the
certificate, read the key, and, when either cannot be used, open, write, open, write. A
Stat or ReadFile may fail of a file that is intact, which the code treats as if it were
not there. Between any two steps a process may be killed; the directory or a write may
fail (`Fails`), after which NewHandler serves without a CA. The client's user installs
the certificate once (`Install`), and `Connect` is a CONNECT with the handshake: refused
when the CA's two halves do not match or are not what was installed. `raced` and
`renewed` are history: whether a process ever started while another was generating, and
whether a start ever replaced a pair that was intact, and has finished doing so.

### Requests, Hashing, Clients and Gateway

`Requests` says what an abstract request is and which provider it is taken for, and
`Hashing` what is hashed of it: a text is a sequence of words, line ends, spaces
and embedded JSON values; JSON is a tagged value after parsing. Numbers that pass
through `interface{}` are float64. Each canonicalizer is an operator that follows its
source: which fields its schema reads, what it normalizes, what it joins, keeps apart or
drops. The hash is the canonical request itself (SHA-256 is taken to be injective).
`Fits` compares the kinds of a schema's own fields; that json.Unmarshal also refuses a
wrong kind further inside is not modelled, as no client here sends one.

`Clients` is the other side, and external: an *ask* is what somebody wants of a provider
(namespace, model, turns, tools, limit), and `Wire(ask, style)` the request that spells
it. In the style "parts" a text is an array of typed parts wherever the provider's API
takes one. `Gateway` chooses a configuration as viper, Validate and the flags would, and
serves asks: `Refuse`, `Hit`, `Miss`, `Unresolved`, `Record` are the ways ServeHTTP
ends. A tape keeps what was recorded and, as history, what its own client was answered.
The hash of each request and whether it is rejected are the constants `HashOf` and
`RejectedOf` of `Gateway`, to which `MCGateway` gives the `Hash` and `Rejected` of
`Hashing`: these recurse over JSON values, which the provers cannot follow, and whatever
`Gateway` does with a hash can be proved without knowing how it is computed.

## 3. The runs

| run | what it checks | instance | distinct states |
|---|---|---|---|
| `queries` | types, the lock, the two buckets, transparency of restarts, Delete, LoadByNamespace, Prune, online rebuild, refinement | 2 goroutines, 2 hashes in a namespace, an old and a new recording, one format | 303k |
| `disk_formats` | what reached the disk is served; namespaces; SessionExact | 1 goroutine, 1 hash, 2 recordings and 3 ways to tear one, 2 namespaces, both formats, failing updates | 74k |
| `disk_switch_restart` | **violated**: see findings | 1 goroutine, both formats | |
| `proxy_modes` | what HITs answer, purity of replay, saved is found | 3 requests (two of one hash, one tunnelled), 3 modes, failing updates | 1.2M |
| `server` | graceful stop, panics, everybody answered, the process ends | 3 requests of a hash: one plain, one tunnelled, one with a stuck client; auto mode | 300k |
| `proxy_race` | **violated** | 4 requests, auto mode | |
| `stream` | cutting into events, replay | streams of up to 5 lines | 2.4k |
| `stream_broken` | **violated** | same | |
| `tunnel` | the CA files, trust, answers in order, the loop ends | 2 processes, 4 key pairs, connections of up to 3 requests, both framings, local answers | 1.2M |
| `tunnel_open` | **violated** | 3 requests | |
| `gateway` | hits and misses of asks, replays, upstreams, configurations | 4 providers, 13 asks each, 12 styles, 2 replies, 5 files, 5 settings | 159k |
| `gateway_beside` | **violated** | 4 providers, 2 asks each | |

**Bounds.** Two hashes are enough for one to be disturbed by work on the other, two
goroutines for one to meet another inside every operation (the lock admits one writer;
a third could only wait), two recordings to tell an overwrite from what was there.
Crashes, power losses and restarts are not bounded. Five lines hold an event of several
lines, consecutive empty lines, and a tail. In `proxy_modes`, two requests of a hash race
and a third asks for another hash; a fourth is needed only to replay twice around a race
(`proxy_race`). In `server`, one request of each kind is there to be waited for, cut off
or passed over. Two processes race for a CA, and four pairs (`Pairs`) let both generate
while a client trusts a third. The asks of a provider differ from one base in one
respect each, in everything the canonicalizers read: namespace, model, limit, tools,
system prompt, roles, texts, calls and results. The styles spell the base ask: with CR LF
or CR and blanks, in parts, with capitals, tools in reverse, ignored fields, the
provider's own host, its name in the header, a query, and no usable body; asks without a
system turn are also sent in parts. `Gateway` itself does not bound the tapes. `gateway`
explores states of one tape (the state constraint `Room` of `MCGateway`), which is
enough, as the properties relate a request to a tape; the steps that record a second
one, say a respelt ask under another hash, are taken and checked, and not followed
further.

Runs in which updates must succeed (`queries`, `server`, `proxy_race`,
`disk_switch_restart`) set `IOFaults` to FALSE; `disk_formats` and `proxy_modes` set it
to TRUE, and the refinement of `CassetteStore` under failing updates is proved
(section 5).

Deadlock is checked except in `stream`, `stream_broken` and `tunnel_open`, where the
stream and the connection come to their end.

**Fairness.** `Proxy` and `Server` assume weak fairness of each request's handler, except
those of `Stuck` clients: the `http.Client` has a timeout (120 seconds unless configured
otherwise) over call and body, the store's lock is held for bounded work, goroutines are
scheduled. `Server` adds that Shutdown returns when its connections are idle or its
deadline has passed (http.Server polls them, the context has a timer), and that runServe
then returns. Nothing is assumed of signals, kills, restarts, panics or arrivals.
`Tunnel` and `Interception` assume weak fairness of the proxy's loop and of a client's
reading, none of its sending or leaving, and none of starts. The store has no liveness
property: its operations are finite sequences of steps.

## 4. Findings

Each is a run that TLC refutes, with the statement it refutes.

* `disk_switch_restart`: after `cassette_format` goes from yaml to json, a recording
  made since is undone by the next start, which indexes the old .yaml file. (For the
  same reason a deleted cassette comes back from its other file: `DeleteRemoves`
  fails over two formats.)
* `proxy_race`: two racing misses in auto mode record twice; replays differ.
* `stream_broken`: after an upstream error, the last part the client received is in
  the body and in no chunk, and is not replayed.
* `tunnel_open`: a response without Content-Length never ends in a tunnel.
* `gateway_beside`: requests that differ only in a field no schema reads
  (`reasoning_effort`, `thinking`, `cachedContent`) share a hash, and the second is
  answered with the first's recording.

Behaviours the models contain without a run of their own, some of them named in a
property as its exception: a stream that broke off is saved and replayed as a HIT
(`BodyBreaks`); X-Reelm-Cache says RECORDED before anything is saved (`CutPlain`,
`SaveFails`); a YAML cassette torn by a power loss is replayed with fields missing
(`Parses`), and one cut within its namespace is indexed under what is left of the name,
and stays there when the hash is recorded again (`misfiled`); Prune deletes a cassette
recorded anew after it was listed; two processes that generate a CA at the same time can
leave a certificate with the other's key, which every later start loads as it is
(`raced`); a start that fails to read an intact CA replaces it, so that clients trust
the old one, and, killed between its two writes, leaves such a pair as well (`renewed`);
a text in an array of parts has another hash than as a string, in messages of openai and
azure and the system field of anthropic (`KeepsParts`); a stream cut short by a panic
ends without its 502 (`BadGateway`); a shutdown cuts tunnels off at any point; a
replayed X-Reelm-Cache of an upstream proxy hides the HIT.

## 5. What is proved

The theorems hold for all values of the constants that satisfy the modules' ASSUMEs (any
sets of goroutines, hashes, recordings, requests, processes, key pairs).

**DiskStore.** `Base`, the types and the lock invariant together, is inductive: the lock
invariant bounds what a writer holds in hand, and the types need it. `NamespaceExact` is
inductive over it, in any formats and under all failures. `SessionExact` needs
`Published`: a writer about to index has its own recording on disk under the current
extension, so that the transaction makes LoadByHash answer it.

The rest is about one format, `SameFormat`, the hypothesis of those theorems (a cassette
directory with files of both formats violates them, section 4). `OneFormat` says that
files and entries have no other extension. Without failing updates (`~IOFaults`)
`Synced` adds that every file of an open store is indexed or its Save about to index it,
and that a Delete between its two steps has removed its file; `RestartTransparent`
follows, and with it `DeleteRemoves`. `StoreImplemented` is the refinement, failures
included: initial states map to initial states, and the lemmas `RefinesSave`,
`RefinesDelete`, `RefinesLoad` and `RefinesLife` take each step to a step of
`CassetteStore` or a stutter.

**StoreQueries.** The lemma `StoreSteps` takes a step of the long operations to a step
of `DiskStore` on the store's variables, except an online RebuildIndex, which may Put an
entry for a file another goroutine has since removed. So the invariants of `DiskStore`
are taken over, the rebuild added, and without failing updates `QueriesImplementStore`
is the refinement again: such an entry resolves to no file, and a file it could reveal
is indexed already (`SyncedHidesNone`). With failing updates the refinement is false, as
a rebuild makes a recording visible that a failed Save had hidden. `QueryComplete` rests
on `QueryInv`: a query has collected, as it is now, every hash of its namespace that it
need not visit any more and nobody touched since it began. `NamespaceExact` makes its
first list complete, and no hypothesis on failures is needed. `PruneDone` rests on
`SavesYoung` (no Save under way is of a recording as old as what is pruned) and on
`PruneInv` (a Prune has yet to visit every old file): together they say that nobody puts
back what a Prune has passed.

**PowerLoss.** `PInv` takes `Base` and `Published` over from `DiskStore` and adds what
ties the files to the disk and to the index: `OnDisk` (a power loss may always leave a
file as it is, so that a file with one outcome left is that outcome), `Single` (a hash
that nothing failed for has a file in one format at most), `WholeIndexed` (that file, if
it is whole, is indexed or its Save about to index it) and `Gone` (a Delete between its
two steps has removed its file). `Publish`, `Erase` and the rest of DiskStore's steps
keep the inherited part by the lemmas of `DiskStore_proofs`; new are the start on torn
files, the power loss, and the write-back. `SyncedIsAlwaysServed` is read off `PInv`.
`FiledRight` is `NamespaceExact` but for the hashes a rebuild met as a stub. It is
inductive over `PInv`: of the store's steps only the two index transactions touch it,
and `RefileKeeps` is that a rebuild of any of the files keeps it. `SessionExact`
survives power losses by `SessionStep`.

**Proxy.** `Base` is the types with `Fetched`: a request past its call holds what it
fetched, and only a stream can be cut short. `SavedFound`, that a saved hash is recorded
and not hidden while the store is open, is inductive, as a failing Save hides only a
hash that was not visible before; it gives `NoFalseMiss`. `Stages` (no request is under
way in a dead process, none past its lookup in replay mode) gives `ReplayIsPure`.
`Genuine`, that every cassette in the store and every HIT is, for good, what a request
of its hash fetched, gives `HitsAreRecordings` and `PlainHitsAreWhole`.

**Server.** `SInv` is `EndingOK` with the types it needs and `DrainedIsIdle`: when
Shutdown has returned nil, nothing of the listener's is in flight, and nothing new
arrives before the exit. `HandleMoves` says that a handler's own step loses no request.
`GracefulLosesNothing` and `StoreOutlivesRequests` are then read off the steps: only the
exit of a process loses a request of the listener, and it finds none after a Shutdown in
time.

**StreamRecorder.** The invariant is in three parts. `Copied`: the body is what was
written to the client, line after line, and holds every line read so far while the
stream goes on. `Cut`: chunks and event under way cut the body, each chunk a whole
event, and the event under way without an empty line; an end at EOF makes a last chunk
of it, an error drops it. `Replayed`: what was played is the concatenation of the chunks
passed. `FlattenSeq` is recursive, and what it does at the end of a sequence has to be
proved by induction over the number of chunks, for which the provers have no usable
rule: the lemmas take the least counterexample instead (`LeastNatural`, from the theorem
that `<` is well-founded on the naturals). They show that the recursion is defined
(`JoinsExist`), has one solution, and that appending a chunk appends its lines. The
theorems hold for streams of every length (`MaxLines` is any natural).

**Tunnel.** `AnswersInOrder` is not inductive: nothing in it says where the next answer
comes from. `OneAtATime` does: while its client is there, a connection carries at most
one head or one response, that of the request the client waits for. It needs `Counted`
(how many answers the client has seen) and `Followed` (a head that announces a body has
it behind it, so that the loop never takes a body the handler read for a request).

**Interception.** The files and the processes are tied together by `IInv`, which TLC
checked first. Unless two processes raced: a whole key lies beside its own certificate,
but where an unread pair is being replaced (`KeyLast`); who generates is alone and, but
there, found no whole key (`Alone`); who loads has the certificate on disk (`Loading`);
and as long as no intact pair was replaced, who serves has what is on disk (`Serving`)
and what was installed is still there (`Installed`). The order of the writes carries it:
the certificate goes first, and is otherwise only rewritten while no whole key exists.
`InOrderOverConnections` extends `AnswersInOrder` to all connections, as each starts
empty. `ConnectionsAreServed` is the type invariant with `Connected`: a client that is
there, or a loop that reads, is in a tunnel of a process that is up and offers the
certificate the client trusts, whichever other process starts, generates or dies.

**Gateway.** `ProvidersAreDetected` goes through the signs in their order for each of the
four paths: whatever the style, host and header, a request is taken for the provider of
its ask. With `UpstreamIs` (resolveUpstreamURL takes the first entry of a name, found
by a least element) and `Busy` (an exchange is one of the process that runs, so its
configuration stands) this gives `AskReachesItsProvider` for every list of providers.
`ProcessesCanServe` follows Start through file, environment, flags and both
validations. `KeptInv`, that a cassette holds what the serializer of its format keeps
of a reply whose client's view it remembers, gives `HitRepeats` for all replies and
headers.

**Only model-checked.** `AllAnswered`, `Stops` and `LoopEnds`, as liveness under
fairness is out of the prover's reach; and `Hashing`, whose `Decoded` recurses over JSON
values, which rules out proofs in every module above it. `HitAnswersTheAsk` and
`RespellingsHit` say what the canonicalizers keep apart and what they bring together,
which `Gateway` alone cannot (there the hash is any function): they are checked on the
asks and styles of the run `gateway`.

## 6. Not modelled

* The bytes of YAML, JSON, HTTP and TLS; SHA-256; hop-by-hop headers other than one
  representative; the request headers that are passed on.
* Time: expiry of certificates, delays between chunks, latencies. A timeout is a step
  that may happen.
* The cache of host certificates (`certCache`): two handshakes for one host may both
  generate, and either certificate is valid.
* `CleanParameters` and the fuzzy-matching, `strip_auth`, `path_prefix` and `headers`
  settings, which nothing in the program reads.
* Ports, directories, log levels and the other settings that no behaviour above depends
  on; the version command; logging; the mock upstream of the tests.
* Reads of the store that fail, and anything that deletes files from outside other than
  the index.

**What is left to do.** A composition of `Proxy` with `StreamRecorder`, so that a
cassette has chunks and a body; a hidden part of `CassetteStore` that an online rebuild
may reveal, for a refinement of `StoreQueries` under failing updates; the texts of
`Hashing` (`NormalizeText`, `CanonicalizeTools`) apart from its JSON, with lemmas on what
they identify.

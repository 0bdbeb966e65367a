# TLA+ models of `term`

`term` gives a browser a shell on a machine that has no inbound port. An
**agent** on the machine dials out to a **hub** and keeps one multiplexed
connection; the hub serves a single-page app and relays one stream per browser
tab over that connection; the agent keeps the shells alive across reconnects.

This directory models the parts of the program whose correctness depends on
the order of steps: sessions and the control lease, the session registry, the
agent's connections and their streams, the PTY bridge with its scanners, the
hub's links and proxies, file paste, downloads, the frame codec along its three
hops, passkey logins with their credential store, and agent certificates with
their allowlist. TLC checks each of them on a small instance; TLAPS proves their
safety for every instance, the lease and the credential store as implementations
of an abstract specification, and the scanners against a reading of the whole
text. Liveness is model-checked only.

Paths below are relative to `src/`.

## 1. The system

| Part | Keeps | Operations | Talks to |
|---|---|---|---|
| Session (`agent/src/session.rs`, `Session`) | `SessionInner` under one mutex: controller, last_size, attached, scrollback, exited; a broadcast channel; the PTY | attach, detach, resize_for, acquire/release/take_control, write_input_from, reader task | stream tasks, PTY bridge |
| Session manager (`SessionManager`) | map from session id to session | lookup_or_spawn, remove, gc_pass, list | stream tasks, sweeper, KillSession |
| Stream task (`agent/src/main.rs`, `run_session_stream`) | receivers, paste tables | replay, inbound and outbound halves under one `select!` | session, connection writer |
| Agent connection (`run_session`) | stream table, writer queue | hello, routing, ping, reconnect with backoff | hub |
| PTY bridge (`agent/src/pty.rs`) | two threads, two queues, master fd | read, write, resize on the blocking pool | session, shell |
| File paste (`agent/src/main.rs`, `hub/static/app.js`) | pending_pastes, pending_groups, temp files; the tab's aborted sets | begin, chunk, end, reject, inject paths | stream task, tab |
| Downloads (`session.rs`, `main.rs`, `app.js`) | next_download_id, a second broadcast channel, the tab's table | stream_download, outbound download half, tab begin/chunk/end | session, tab |
| Agent link (`hub/src/agent_link.rs`) | `AppState.agents`, per-link streams, pending RPCs, writer queue | registration, eviction, reader, writer, teardown, open_stream, StreamGuard, RPCs | agent, proxies |
| Browser proxy (`hub/src/proxy.rs`) | one stream channel | cap check, upgrade, two pumps | agent link, tab |
| Frame codec (`common/src/frame.rs`, `transport.rs`) | nothing | encode, validate_header, from_payload | every hop |
| Priority channels (`common/src/prio.rs`) | hi and lo queue with a byte budget | send, try_send, recv | all writers |
| OSC scanner (`common/src/osc.rs`) | six-state scanner | feed | reader task |
| Passkey logins (`hub/src/webauthn_routes.rs`, `auth.rs`, `state.rs`) | pending_logins, sessions (bearer tokens) | register_start, login_start, login_finish, logout, gc | credential store, tab |
| Credential store (`common/src/creds.rs`, `flock.rs`, `envelope.rs`; `hub-admin/src/main.rs`) | credentials.json and its lock file | load, save, add-passkey, remove, bump_counter | hub, hub-admin processes |
| Agent certificates (`common/src/agent_pki`, `issued_certs.rs`; `hub-admin/src/main.rs`; `hub/src/client_verifier.rs`, `agent_ws.rs`; `agent/src/wsdial.rs`) | CA and leaf files, issued-certs.json and its lock, the hub's snapshot of it, the replay cache | init-ca, issue-cert, revoke-cert, reload, verify_client_cert, authenticate_ws_upgrade | hub, hub-admin processes, agents |
| Front end, UI, installers | configuration, layout | wiring and I/O | |

What is hard about it:

* **Work after the unlock.** Lease operations change state under the lock and
  resize, announce or queue input after it; the sweeper lists under the lock
  and removes later; the hub checks a cap before an upgrade and opens after it.
* **Cancellation.** `select!` drops the other half of a stream wherever it
  awaits: mid-resize, mid-paste, mid-replay.
* **Bounded queues everywhere**, each with its own answer to being full: lag
  (broadcast), drop (PTY input), reset the stream (hub), wait (writers).
* **Signals without memory**: `Notify::notify_waiters`.
* **Identity across reconnects**: session ids outlive connections, stream ids
  and download ids do not.
* **Several processes, one file**: the hub and hub-admin rewrite
  credentials.json, hub-admin commands issued-certs.json; certificate and key
  are two files without a lock.
* **Waiting in circles**: a teardown waits for a writer, the writer for the
  streams that hold its queue, the streams for room in that queue or for a
  program to read its input; on Windows output waits for input.
* **Arbitrary cuts**: escape sequences are recognised across reads that split
  them anywhere.

What makes each part correct is stated in section 3 beside its runs; the
hazards, each at its line, are in `PROJECT.json`.

## 2. Modules

| Module | Models | Run by | Proofs |
|---|---|---|---|
| `Session` | one session and the stream tasks attached to it | `MCSession` | `SessionProofs` |
| `Lease` | abstract: who controls a session, at which size | as a property of `session` | `SessionProofs` |
| `SessionManager` | registry, sweeper, KillSession | `MCSessionManager` | `RegistryProofs` |
| `AgentConn` | reconnect loop, `run_session`, per-stream tasks, writer queue | `MCAgentConn` | `AgentProofs` |
| `PtyBridge` | bridge threads, DSR and OSC scanner, input queue | `MCPtyBridge` | `BridgeProofs` |
| `AgentLink` | a machine's links at the hub, and their proxies | `MCAgentLink` | `RegistryProofs` |
| `Paste` | file paste on one stream, tab and agent | `MCPaste` | `PasteProofs` |
| `Download` | downloads from the agent's tasks to the tab | `MCDownload` | `DownloadProofs` |
| `Wire` | the frame codec and the hops that use it | `MCWire` | `WireProofs` |
| `Passkeys` | logins, tokens, credential store, hub-admin | `MCPasskeys` | `PasskeysProofs` |
| `CredStore` | abstract: credentials.json as an atomic store | as a property of `passkeys` | `PasskeysProofs` |
| `AgentCerts` | CA, leaf certificates, allowlist, both ways in | `MCAgentCerts` | `AgentProofs` |

Two proof modules extend two components each; there the specification of one
component carries its name (`ManagerInit`, `ManagerNext`, `ManagerSpec` and
`ConnInit`, `ConnNext`, `ConnSpec`) beside the plain names of the other.

The modules meet at narrow interfaces instead of importing each other's state.
`SessionManager` takes a task to be attached exactly while it runs, which is
`Session!NoStaleAttachment`, a theorem. `AgentConn` takes what a stream does
inside a session to be a visit of unknown length that ends in a detach, and
keeps what `Session` and `SessionManager` leave out: several connections one
after the other, whose streams overlap in one session. `PtyBridge` ends where
`Session` begins, at the output the reader task broadcasts. `AgentCerts` ends
where `AgentLink` begins, at an admitted connection. `Paste` sees the lease as
one Boolean that may change at any time. `Paste` and `Download` take the way
between tab and agent to be one FIFO, since paste and download frames all ride
the lo half of every queue on it; `AgentLink!StreamHasNoGap` is what the hub
contributes to that.

### State and steps

An action is the code between two awaits, or a critical section, whichever is
shorter.

* **Session.** `controller`, `lastSize`, `attached`, `scrollback`, `exited` are
  the fields of `SessionInner`. `Attach`, `Grant` (the common part of
  `acquire_control` and `take_control`), `ReleaseControl`, `ResizeFor`,
  `WriteCheck` and `Detach` are the critical sections; `ApplyResize` is the
  `spawn_blocking` job; `AttachAnnounce`, `RequestDone`, `WriteSend` and
  `DetachAnnounce` are what follows the unlock. `pc` and `req` say where a
  `run_session_stream` is; `AtAwait` says where its `select!` can drop the
  inbound half. Output bytes are numbered, so that a duplicate or a hole is
  visible. `Broadcast` is tokio's channel, modelled from its use: a receiver
  that is too slow loses the oldest events and is marked `lagged`.
* **SessionManager.** A session object is the number of its spawn, so that a
  session that replaced another under the same id is a different one.
  `GcCollect`, `GcRemove` and `GcKill` are the three pieces of `gc_pass`
  between which the lock is free; `KillRemove` and `KillShell` are
  KillSession's. `idle` stands for an elapsed `idle_ttl`, which a clock would
  only delay.
* **AgentConn.** `phase` is where `main` and `run_session` are, `wtask` and
  `out` are the writer task and its queue in frames, `at` is where each task is
  in `run_session_stream`. `over` marks an input channel without a sender,
  because the reader reset the stream, the hub closed it or the teardown cleared
  the registry. `Send` is `BytesTx::send`: it waits for budget, and is refused
  once the receiver is gone, which also frees those who wait. A paste that types
  its paths is at `"typing"`, where only the program in the shell, or its death,
  lets it go on, while the outbound half still runs. Attachments are pairs of a
  session and a stream id, as they are in the code, so the id of a new
  connection can meet the late detach of an old one.
* **PtyBridge.** Both scanners work byte by byte on a small alphabet of bytes
  that matter to them; the reader thread cuts the output at any point. Input is
  counted. `windows` chooses at the start whether the DSR scanner runs. The
  reference definition (`Read`, `OscAt`, `CsiAt`) looks at the whole text at
  once and shares nothing with the scanners. `holder` says who has the session
  and with it the sender of the input queue: the manager with the streams, after
  the sweep perhaps still streams (`Arc<Session>` of `run_session_stream`), then
  nobody.
* **AgentLink.** `rd` and `wr` are the program counters of the reader with its
  teardown and of the writer task; in state `"wait"` a `notified()` future
  exists. `NotifyWaiters` wakes exactly those. The proxy goes through lookup,
  cap check, `open_stream`, its pumps and the drop of the last `StreamGuard`,
  which removes the stream and then queues a Close. A proxy in `sending`, or at
  `"bye"`, is parked in `ws_tx.send()`, from which only its browser frees it
  (`BrowserReads`, `ProxyReturns`).
* **Paste.** `pend`, `written`, `groups`, `finished`, `declared` are the two
  tables. The table changes of a handler between two awaits are one step, its
  file operations, reject and PTY write the later steps held in `work`, and so
  is what the flush of a finished file puts off: `Stage` and `Ungroup`. So
  `StreamEnd` can drop the handler between any two. `app` chooses at the start
  whether the client is app.js, which sends the files of an action one after
  another, or some other client of the protocol, which need not.
* **Download.** One `stream_download` task per download, the receiver with its
  lag, the FIFO to the tab, the tab's table. The tab may reconnect, to the same
  session or, if its shell exited, to a new one. A stream looks its session up
  first and subscribes later (`Subscribe`), so it can miss Closed; a stream that
  has found the channel empty still listens while its Close is sent
  (`"closing"`, `SendClose`). `flushed` is a ghost: the downloads that were over
  when the flush ended.
* **Wire.** Lengths are real byte counts, a text is its length and kind (id
  characters, ASCII, two-byte characters, raw). `Encode` clamps like `encode`
  and `validate_header` / `from_payload` are tables and guards. One frame is
  under way at a time: the codec has no memory.
* **Passkeys.** Taking the flock and loading the file is one step, saving and
  unlocking a later one; readers take no lock; each await of a route ends a
  step. Cryptography is abstract: an assertion names the ceremony it signs, a
  credential and its counter. `admitted` and `minted` are ghosts: the result of
  the commands that reported success, and the nonces tokens were minted for.
* **AgentCerts.** Each hub-admin process runs one command and names the key pair
  it makes. Certificate and key file are two steps without a lock, the allowlist
  is a locked load and a later save; a process can be killed between any two
  steps, and a killed write leaves its temporary file (`litter`), which makes
  the next `create_new` fail. The clock counts half seconds, because headers
  carry whole seconds and the replay cache compares instants; it also runs while
  an upgrade waits for the cache's lock. A header may be signed with any clock
  in `Ahead`. `admitted` is a ghost: how each header came in. `raced` is
  another: two commands found one place vacant at the same time.

## 3. Runs

All passing runs complete; `CHECK_DEADLOCK FALSE` is set because every bound
lets the system come to rest.

**session** (two streams, two sizes, two requests, two bytes of output in one
read or in two, a ring of one byte, a channel of two events).
`NoStaleAttachment`: a stream is in `attached` exactly while its task owes a
detach, whichever way it ends. `ImplementsLease`: seen from outside the lease
moves only by the steps of `Lease` -- a newcomer takes a free lease and never a
held one, who leaves takes its lease along and leaves the geometry, the geometry
changes hands with the lease. So the lease is held by a member or by nobody, or
the hand-off would be wedged, and the geometry is the holder's
(`ControllerAttached` and `LastSizeIsControllers`, theorems). `OneSelf`: two
browsers that have read everything never both show that they are in control,
although announcements are made after the unlock and can be swapped.
`NoDupNoGap`: scrollback replay and live output join at the same byte, also when
the ring has dropped its head. Two streams suffice for every conflict over one
lease, two requests for take and counter-take while another step attaches or
detaches; the ring wraps at the second byte, also inside one read, and a
receiver lags at the third event.

**manager** (two ids, two tasks, cap one, two spawns, one kill). `MapCapped`,
`DoomedUnmapped` (a session about to be killed can no longer be handed out),
`ExitedCollected` (an exited session stops counting against the cap even if
nobody asks for it). The cap is one so that it binds; two spawns let an id be
reused.

**manager_orphan** shows a disagreement. `main.rs` keeps the manager so that no
shell is left "unreachable and un-GC'd". `gc_pass` releases the map lock
between listing an exited session and removing its id; a lookup in between
replaces the session, and the sweep then removes the replacement. Its shell
runs on with no entry in the map.

**agent** (two tasks, one session, two connections, a writer queue and input
channels of one frame). `AttachmentsBacked`: every stream id in a session's
`attached` belongs to a task that will take it out, however its connection ended
-- with the writer dead, with the registry cleared, or in the middle of the
replay. `DetachedOnlyByReuse` (an action property): detach goes by the stream id
alone, and a stream that goes on loses its place only to a stream of another
connection that the hub gave the same id; two streams of one connection never
detach each other. `NoStreamForgotten`: once `run_session` has cleared the
registry every stream of that connection that still listens is bound to see the
end of its input, also one opened or reset while it ended.
`ConnectionWindsDown`: the teardown of a connection ends, its streams go away
and the agent dials again, unless a paste waits for a program that reads no
input. Two tasks give a stream and a request that compete for the queue, and two
streams with one id on two connections; the queue of one makes every sender
wait.

**bridge** (21 texts of whole, broken, overlong and unterminated sequences, on
Windows and elsewhere, reads of one or two bytes, queues of one).
`ForwardsReference`: however the output is cut, browsers get what a reading of
the whole text gives, and exactly the requests with the session's token start a
download. `QueriesAnswered`: each cursor query is answered once.
`ExitAfterOutput`: the session is marked exited only after all output was
scanned. `OutputFlows`: output does not wait for the shell to read its input,
with one exception on Windows, which the property names. `ThreadsEnd`: both
threads end with the shell, wherever they were blocked; a writer thread that
waits for input ends when the last stream has let go of the session, which
nothing makes it do. The limits are 3 for `MAX_OSC_LEN` and 2 for `MAX_CSI_LEN`,
so that the texts reach and pass them.

**link_registry** (two connections, one proxy, cap one, channel and writer queue
of one, two frames). `MapIsNewestLink`: a late teardown never unregisters the
successor and no torn-down link stays. `StreamHasNoGap`: a frame that does not
fit ends the stream and leaves no hole. `NoLeakedStream`: every registered
stream has a proxy that will remove it. `TornDownProxyEnds`: a proxy that was
registered when the teardown cleared the registry sees EOF and goes away, if its
browser reads what is sent to it; one that opens its stream after that goes away
with the first frame its browser sends. Queues of one fill at once; two frames
are needed to overflow.

**link_evict** shows a disagreement. A comment says that `notify_waiters` wakes
both the old reader and the old writer. It wakes futures that exist; a reader
inside a handler or a writer inside a send creates its next one later, and the
evicted link lives on beside its successor for as long as its agent keeps it.

**paste** (two actions of two files, the second beyond the byte limit, tables of
two and one). `WholeGroups`: the paths of an action of app.js are typed all
together or not at all. `DiskAccounted`: every temp file has exactly one owner
while the stream is up. `TypeOK` holds the limits of the registries and the
declared sizes. `CleanupMissesOnlyDropped`: when the stream ends at any await,
only files that the dropped handler had in its variables stay behind: one it was
creating, or one it had taken from the table and was flushing or unlinking.
app.js may send nine frames, enough for an action and the beginning of the next;
another client five, enough to end two files.

**download** (two downloads of one or two chunks, in one session or in two, one
reconnect, a receiver of two events). `SavedIntact`: what one session sent and
the tab saved is the announced file, in order. `ExitFlushesEnds`: of the
downloads that were over when the flush at the shell's exit found the channel
empty, none stays open in the tab. `ExitEndsStream`: a stream that Closed has
reached ends, if its tab reads, however much is queued or lost to lag; the flush
waits for nothing more. Two chunks and a receiver of two make any of Begin,
Chunk and End the one that is lost.

**wire** (every type with texts and values at, below and above their limits,
two tabs). `RelayKeepsLink`: nothing a browser sends, and nothing the agent
emits, is a protocol error on the shared link; of what the hub builds itself
only a KillSession for an invalid id is (section 5). `DeliveredIntact`: a relayed
frame arrives on its stream and unchanged, with a name at most cut at a
character boundary. The 2^32 - 1 of `MAX_PASTE_TOTAL_BYTES` is scaled to 2,
since it is only compared.

**passkeys** (a counting and a counterless credential under one label and one id
prefix, two ceremonies, two login_finish requests, two hub-admin processes, a
pending table of one, one tick, one restart). `StoreMatchesAdmin`: no
read-modify-write of the file undoes another. `ImplementsStore`: the file
changes as `CredStore` says, by one add, one remove or one counter moving up,
although two logins verify against the same value. `NewestAssertionPasses`: the
clone check never rejects the latest answer of an authenticator before it was
presented. `OneTokenPerNonce`, and `TypeOK` with the limit of the pending table.
Two of each actor suffice for a lost update; a shared label makes `remove`
ambiguous.

**certs** (one init-ca, two issue-cert for one machine to one place, one
revoke-cert, one header signed by a clock that is ahead by the whole skew of one
second, two upgrade requests, two and a half seconds, one restart).
`ChangesAreAtomic` (an action property): the allowlist changes only by the whole
effect of one command on the list as it is. `PairsMatch`: unless two commands
raced for one place, a key file belongs to the certificate beside it and an
allowed certificate has its key. `HeaderOnce`: of two connections with one
signed header in the life of a hub process, the first came when the header was
ahead by exactly the skew, or the second waited for the cache's lock while a
second passed. The run reaches the first case. The second takes a clock in step
as well (`Ahead = {0, 1}`), which was run apart because it takes twice as long;
`HeadersAreUsedOnce` covers every drift. `RevocationHolds`: a machine whose last
entry is gone for good is locked out in the end. `AllowedGetsIn`: one that stays
allowed is connected again and again. Two issue-cert and one revoke-cert cover
every lost update of one entry; time runs past the collection of the cache, at
which the header is still timely.

Symmetry is used in `session` and `passkeys`, which check no liveness and whose
specifications never order the permuted values.

### Fairness

* `SessionManager`: weak fairness of the sweeper (an interval that never ends),
  of the reader task of a dead shell and of a KillSession task.
* `AgentConn`: weak fairness of the teardown, the backoff and the writer; strong
  fairness of a stream task's own steps, since its sends wait in a tokio
  semaphore, which serves waiters in order; a transport that is lost ends the
  read (by error or by the idle deadline); the input queue of a dead shell has
  no receiver any more. Nothing makes a program read, print or exit, or the hub
  hang up, and a hub may refuse every dial.
* `PtyBridge`: the threads and tasks are scheduled, and the sweeper drops an
  exited session. Nothing is assumed of the shell, or of a stream that holds the
  session.
* `AgentLink`: weak fairness of the reader's and a proxy's own steps
  (`TaskSpec`, `link_registry`); no browser is assumed to read or to send
  anything but its Open. `link_evict` also assumes that the agent reads what it
  is sent, and hangs up when a writer that ended shut the connection down
  (`FairSpec`). No healthy agent is assumed to disconnect.
* `Download`: weak fairness of the outbound loop. That the tab handles what is
  relayed to it (`TabReads`) is a hypothesis of `ExitEndsStream`.
* `AgentCerts`: the reloader ticks, the service manager restarts the hub, an
  agent that is not connected dials. Nothing makes anybody run hub-admin, sign a
  header or lose a link.

## 4. Proofs

`SessionProofs`, for any set of streams and sizes and any capacities, from
`SessionAssumption` (None and NoSize are not members, the initial size is a
size, capacities are naturals, the channel holds at least one event):

* `TypeCorrect`, `ControllerIsAttached`, `AttachmentsAreLive`,
  `SizeFollowsLease`. The inductive invariant `LeaseInv` is the conjunction of
  `TypeOK`, `NoStaleAttachment`, `ControllerAttached` and
  `LastSizeIsControllers`. `ControllerAttached` alone is not inductive: a grant
  is harmless only because the granted stream is in its pump, where
  `NoStaleAttachment` says it is attached; a detach is harmless only because it
  releases the lease in the same critical section.
* `SessionImplementsLease`: `Spec => LeaseView!Spec`. The mapping forgets
  variables; that a step of a stream maps to a step of a member, or of a
  newcomer, follows from its program counter only through `NoStaleAttachment`.

* `OneBrowserShowsSelf` (`OneSelf`) and `OutputIsSeamless` (`NoDupNoGap`), by
  `ShownInvariant`. `OneSelf` speaks of browsers that have read everything;
  `OneSelfToCome` says of the others what they will show when they have: the
  last announcement in the channel counts. `ScrollbackIsNewest` ties the ring to
  the number of bytes produced, or a newcomer's replay could not be known to
  meet the live output.

`RegistryProofs`, of the agent's registry for any finite set of ids, any tasks
and any cap, from `ManagerAssumption`:

* `RegistryIsCapped` and `DoomedIsUnmapped`. `ManagerInv` adds `TypeOK` and
  `MapById` (a session is registered under its own id), without which removing
  a victim's id would not be known to remove the victim. The cap is a statement
  about cardinalities: inserting into `Mapped \ {id}` below the cap.

and of the hub's registries for any connections, proxies, capacities and length
of run, from `LinkAssumption`:

* `MapHoldsNewestLink` (`MapIsNewestLink`), `StreamsAreOwned`
  (`NoLeakedStream`), `StreamsHaveNoGap` (`StreamHasNoGap`). `LinkInv` adds that
  only links that registered are evicted, that a proxy past its lookup knows its
  link, and that a channel is empty when `open_stream` makes it. The channel is
  a run of consecutive numbers; two lemmas append to it and take from it.

`BridgeProofs`, for any texts, any cut of them into reads, any queue length and
any `MAX_OSC_LEN` and `MAX_CSI_LEN`, from `BridgeAssumption`:

* `ScannerReads`: a scanner fed a whole text puts out and counts what `Read`
  gives for it, for texts of any length. This is an induction over the text, and
  the library's induction theorems cannot be instantiated here; the proofs take
  the least counterexample instead (`LeastMissing`, `InductionUpTo`, from
  `WFMin` over the naturals). The same argument shows that the recursive
  functions exist which the folds and `Read` choose (`FoldExists`,
  `ReadsExists`), so that each may be replaced by its run, one value per
  position. A step of a scanner adds to its output what its state, its buffer
  and the byte determine (`ByteApplies`); what it does from an ESC to the end of
  the sequence, over the length limit or to the end of the text is `CsiRuns`,
  `OscRuns` and `OverflowRuns`, and `StretchRuns` joins them to what the
  reference does with the same stretch.
* `CutsMakeNoDifference`: the state carried from one read to the next makes the
  pieces count as one text (`FeedJoins`). `BridgeInv` says of both scanners in
  the bridge that what they put out so far, and the state they keep, is what
  they give for everything read so far in one piece.
* `OutputIsRead` (`ForwardsReference`) and `QueriesAreAnswered`
  (`QueriesAnswered`) follow from the two.
* `ExitIsLast` (`ExitAfterOutput`). `Drained`: a station of the output ends only
  after the one before it, with nothing in hand.

`PasskeysProofs`, for any credentials, ceremonies, login requests and hub-admin
processes, from `PasskeyAssumption`:

* `StoreInvariant`, `NoLostUpdate` (`StoreMatchesAdmin`),
  `PasskeysImplementsStore`. The strengthening is `CopyCurrent`: a writer
  between its load and its save holds the file as it is. It is kept because
  `LockHeldByWriter`, a part of the invariant, admits one such writer at a time,
  and without it a save could put back what another had removed.

* `LatestAnswerPasses` (`NewestAssertionPasses`), by `CounterInvariant`. The
  strengthening is that a stored counter belongs to a registration or to an
  assertion that has been presented (`FileSound`), and that no two uses of a
  counting authenticator share a counter (`AssertionsSound`). A login that
  verified against an old value may store a lower counter late; that is why the
  invariant tells counters apart and does not order them.
* `NonceBuysOneToken` (`OneTokenPerNonce`). `TokenInv` follows the entry of a
  nonce: still to come or in `pending_logins`, or claimed by one request.
* `PasskeyTypes` (`TypeOK`), with the limit of the pending table. It needs that
  None, which stands for `Option::None`, is neither a request nor an assertion;
  `PasskeyAssumption` says so.

`AgentProofs`, of certificates for any commands, machines, places, headers and
requests, from `CertsAssumption`:

* `ListInvariant` and `AllowlistIsAtomic` (`ChangesAreAtomic`), with the same
  strengthening for issued-certs.json.
* `KeysMatchCertificates` (`PairsMatch`). Of a place that is being written the
  property says nothing; `OneWriter` says what its one writer finds there before
  each of its two writes, and holds until two commands race for a place.

* `HeadersAreUsedOnce` (`HeaderOnce`), for any skew and any clocks. A header that
  got its agent in and was not ahead by the whole skew then is too old by now, or
  still in the cache with an entry that outlives it (`OnceOrStale`, `Covered`):
  the collection of that entry, two skews after it was made, finds it stale. An
  upgrade that finds no entry then has a stale header, which was timely when it
  was checked (`WaitingWasTimely`): it was held up in between.

and of the agent's connections for any tasks, connections and shells, from
`ConnAssumption`:

* `NoAttachmentLeaks` (`AttachmentsBacked`), `TeardownReachesAll`
  (`NoStreamForgotten`), `ConnTypes` (types, the budget of the queue to the hub
  and the limit of the input channels), by `ConnInvariant`. A leave
  takes out the pair of its own session and id; the invariant survives it
  without knowing the ids apart, because another task with the same pair has
  then lost its place, not left one behind. That is how the code behaves.
* `NoDetachWithinConnection` (`DetachedOnlyByReuse`) needs the ids apart:
  `StreamIdsApart` says that streams of one connection that are listened to have
  different ids, all below the hub's next one.

`PasteProofs`, for any groups, sizes, limits and frames in flight, and for any
client of the protocol, from `PasteAssumption`:

* `LimitsHold` (`TypeOK`), `FilesAreOwned` (`DiskAccounted`),
  `CleanupIsComplete` (`CleanupMissesOnlyDropped`), `GroupsAreTypedWhole`
  (`WholeGroups`). `PasteInv` has four parts. `OrderInv` is about frames: no
  client begins a paste after it has ended it, and app.js has an end between the
  beginnings of two files of a group, wherever on the wire or in the agent these
  are. `TypesInv` has the tables agree with each other, `DiskInv` gives each file
  one owner, which a second begin of the same paste would break, and
  `GroupsInv` keeps the group of every file in the agent's hands open. The last
  rests on the order: a group is dropped or typed only when app.js has none of
  its files under way.

`DownloadProofs`, for any sizes, capacities, downloads, sessions and reconnects,
from `DownloadAssumption`:

* `SavedFilesAreIntact` (`SavedIntact`), by `SoundInvariant`. That as many
  chunks came as announced means that all came only if none came twice or out of
  order: so the chunks of a download rise, on the way (`InOrder`), from the
  tab to the way (`Ahead`) and in the tab (`EntrySound`), where the n-th chunk
  has a number of at least n, and at most the size. Loss keeps all three:
  `Within` is what a lagging receiver or a reconnect leaves of a sequence.
* `ExitLosesNoEnd` (`ExitFlushesEnds`). `EndsComing`: the end of a download that
  is over is on its way, behind its begin, while the tab has or will have an
  entry for it. When the flush ends, the way is the pipe, and what the receiver
  still takes before it is dropped changes nothing for those in `flushed`.

`WireProofs`, for frames of any type, value and text, any tabs, ids and reads,
from `WireAssumption` and `BodiesAssumption` (bodies have naturals for lengths
and values; nothing is assumed well-formed):

* `FramesArriveIntact` (`DeliveredIntact`) and `TabsCannotDropLink`
  (`RelayKeepsLink`). `WireInv` says what the frame is at each hop. The lemmas
  say that what one decoder accepts the next encoder does not cut, so that it is
  accepted again under any other stream id, and that what each place in the hub
  and the agent builds is accepted. `TabsCannotDropLink` has the hypothesis
  `ListFits`: the list of `MaxSessions` sessions fits the hub's limit, which it
  does up to 1,618 sessions. The agent does not check `limits.max_sessions`, so
  this is a condition on its configuration; the default is 64. `WireInvariant`
  has no such hypothesis and names the oversized list as the second way to lose
  the link.

Only model-checked: liveness (the prover has no fairness), that is
`ExitedCollected`, `ConnectionWindsDown`, `OutputFlows`, `ThreadsEnd`,
`TornDownProxyEnds`, `ExitEndsStream`, `RevocationHolds` and `AllowedGetsIn`.
Every invariant and action property of the passing runs is a theorem.

## 5. What the models show that no run carries

The models reach these behaviours too. A property that comes near one of them
names it as its exception. Some of them the code never speaks of; of others a
comment or the repository's README says that they do not happen, and those are
marked with the line.

* Two resizes handed to the blocking pool by two streams may be applied in
  either order, so the PTY may keep the geometry of a stream that has lost the
  lease until the next resize; `last_size` is right.
* `ControllerChanged` announcements may be swapped; a browser may show "other"
  or "none" where a later change made it different, until the next change.
* Input that passed the lease check is queued even if the lease moved before.
* A stream that looked its session up before the shell exited and subscribes
  after `Closed` was broadcast is never told, and neither the hub nor app.js
  acts on the Close frame of a stream. It also keeps the session, the sender of
  its input queue and the parked writer thread until its tab closes;
  `pty.rs:25-26` has the writer thread end when the async side drops `in_tx`.
* The End of a download that is posted after the flush at the shell's exit has
  found the channel empty, while the Close frame is sent, is lost with the
  receiver. `main.rs:822-831` speaks of those that were ready before.
* A paste that types its paths waits until the PTY's input queue has room. If
  the program never reads again and prints nothing, the task survives the end of
  its connection, the writer task survives with it unless a write fails, and
  `run_session` does not return: the agent does not dial again. `main.rs:671-675`
  says that each per-stream task ends.
* After a write error `run_session` returns while tasks of the old connection
  are still running. The hub's next link numbers its streams from 1, so a late
  detach can take the attachment, and the lease, of the new connection's stream
  with the same id.
* A Close frame travels in the hi half of the agent's queue and can overtake a
  DownloadEnd in the lo half, although `main.rs:822-831` flushes the downloads
  first. Hub and tab ignore Close, so nothing is lost by it.
* The hub builds KillSession from the URL without `is_valid_session_id`; the
  agent's decoder rejects the frame and the machine loses its link.
* On Windows the reader thread waits for room in the input queue to answer a
  cursor query; a shell that reads no input then stalls its own output.
* Two init-ca, or two issue-cert for one place, that start together can leave a
  key beside another's certificate: the check that the files do not exist and
  the writes are not one step, and no lock covers them.
* The agent signs the host of its URL without the port; the hub verifies the
  signature over the Host header it received. The two differ when the hub is
  reached on a port that is not the scheme's own, and no perimeter rewrites Host.
* A killed write leaves a temporary file, and later commands for that place fail
  until it is removed by hand.
* A signed header is accepted twice if it is ahead by exactly the skew, which
  `ca.rs:249-255` accepts: for the rest of the second in which its cache entry is
  collected (`state.rs:105-111`) it is still timely, because it carries whole
  seconds. So is one whose second upgrade waits for the cache's lock, after the
  timestamp check, while the entry is collected. `state.rs:31-35` says that any
  retry within tolerance is rejected, `agent_ws.rs:19-20` and the repository
  README at 623-627 that a captured header is refused.
* A session listed as idle is killed although a browser attached meanwhile.
* Upgrades that overlap can exceed `MAX_STREAMS_PER_AGENT`.
* A stream opened on a link whose teardown has already cleared the registry sees
  no EOF until its browser sends a frame, and a proxy whose browser does not read
  stays in its send. `agent_link.rs:26-28` says that every `recv()` returns None
  and the proxy exits.
* A teardown waits for a writer that missed the notification.
* A rejected file of a paste action leaves its finished siblings in place until
  the stream ends; a handler dropped mid-way, also while it flushes a finished
  file, leaves its temp file; a client
  that is not app.js can have part of a group typed.
* A tab's download entry that outlives its session takes chunks of the next
  session's download of the same id.
* Two assertions of one authenticator presented in the other order: the older
  is refused as a clone.
* A `ListSessions` answer outgrows what the hub accepts at about 1,600
  sessions; the default cap is 64.

## 6. Not modelled

* RPCs of the agent link (answers at, after or without their deadline) and its
  counters for /metrics.
* The order between the two halves of a priority channel; each module uses the
  half its frames ride. `BytesTx::send` refuses a payload above the whole
  budget; no frame is that large.
* Validity periods of certificates, names in certificates beyond the machine
  id, TLS itself.
* Byte formats and cryptography of WebAuthn and the PKI: stateless; their
  decisions are in `Passkeys`.
* The HMAC secret file of hub-admin.
* Start-up, configuration, static files, metrics, the tab layout, `term-dl`,
  installers: I/O and wiring.
* File name choice in paste: it affects no property here.
* A download request with a path that is not UTF-8 (`session.rs:621`), which is
  refused like one without the token. In `Wire` the only characters of several
  bytes have two: a name is cut to 254 or 255 bytes there, in the code it may be
  cut to 252.

## 7. Plan

The order the modules were written in: `Session`, `SessionManager`,
`AgentLink`, `Paste`, `Download`, `Wire`, `Passkeys`, then `Lease`, `CredStore`,
`AgentCerts`, `PtyBridge` and `AgentConn`. The proofs
followed in the same order, ending with `AgentConn` and `PtyBridge`. What is
left:

1. RPCs in `AgentLink`, and with them `LinkInv` for the table of pending calls.

# Formal models of flowd

TLA+ models of the NetFlow collector `flowd` (`src/flowd.c`), checked with TLC
on small instances. The registry's invariants, and the fact that it
implements an abstract bounded LRU table, are also proved with TLAPS for all
values of the constants.

## The system

`flowd` runs as an unprivileged worker process next to a privileged
*monitor* (privilege separation, `privsep.c`, not under `src/`). The worker
is single-threaded. `main()` reads the configuration, binds the listening
sockets, starts the monitor, installs the signal handlers and enters
`flowd_mainloop`. Each iteration of that loop does the following:

1. It tests `exit_flag`.
2. On `reopen_flag` (set by USR1 and by HUP) it closes the log.
3. On `reconf_flag` (set by HUP) it has the monitor re-read the
   configuration (`client_reconfigure`, fatal on failure), then rebuilds the
   poll set (`init_pfd`) and clears the flag.
4. When the log is closed it opens it through the monitor (`start_log`):
   - a new file gets a header;
   - an existing file must start with a valid header and is appended to;
   - every failure is fatal.
5. On `info_flag` it dumps its state to the log sink.
6. It blocks in `poll(..., INFTIM)` on the monitor descriptor and the
   listening sockets. A signal makes `poll` fail with EINTR, and the loop
   continues. An event on the monitor descriptor ends the loop.
7. It reads one datagram from each readable socket (`process_input`):
   - it looks up or creates the sending peer (`find_peer`/`new_peer`);
   - it checks the length and the version;
   - it runs the version's decoder (`process_netflow_v1/v5/v7`), which makes
     three structural checks and, for a valid packet, calls `update_peer`
     and then `process_flow`;
   - `process_flow` filters each record and appends it to the log
     (`store_put_flow`, fatal on a short write).

The peer registry (`struct peers`) keeps every peer twice, in a splay tree
by address and in an LRU tail queue. When the table is full, `new_peer`
evicts the tail of the queue.

## Modules

| Module | Models | State / actions |
|---|---|---|
| `PeerRegistry` | `struct peers`, `delete_peer`, `new_peer`, `update_peer`, `find_peer`, the callers' `ninvalid++` | `peers` is a record: the tree as a set of addresses, the LRU list as a sequence, per-peer state, and `num_peers`/`num_forced`. The operations are operators from registry to registry, so `Flowd` can compose them the way `process_input` calls them. |
| `MCPeerRegistry` | the registry alone, driven by `process_input`'s calls | `NewPeerStep`, `UpdatePeerStep`, `InvalidStep`. The history variables `clock`, `lastUse` and `lastUpdated` are used by the properties only. |
| `NetflowDecode` | the receive buffer, the common-header check, the version switch, the three checks of each decoder, and each decoder's loop over its records (`FlowOffsetsV1/V5/V7`: the offset each record is read from) | `Verdict(len, v, n)` is one of short, unsupported, invalid or valid. |
| `MCNetflowDecode` | every datagram with the given versions, counts and sizes | It has one nondeterministic initial state per datagram. |
| `Flowd` | the worker process and its environment | See below. |
| `MCFlowd` | small instances of `Flowd` | It defines three datagrams: a valid v5 packet, one a byte short, and one of the unsupported version 9. |
| `PeerTable` | what the registry promises (after `spec.md` §4.1), with no tree and no list | `known`, `stats`, a recency stamp `used` per address, `num`, `forced`; `Insert` (evicting a peer of least `used` when full), `Touch`, `Reject`. |
| `PeerRegistryLemmas` | TLAPS lemmas about the registry operations | What `TAILQ_REMOVE`, `TAILQ_INSERT_HEAD`, `new_peer`, `update_peer` and `ninvalid++` do to each field, and how they keep the list ordered by recency. |
| `PeerRegistryProofs` | TLAPS theorems about the registry | |
| `NetflowDecodeProofs` | TLAPS theorems about the datagram checks and decode loops | Lemmas on `Verdict`, `PacketSize` and `FlowOffsets` for all versions, counts and sizes. |
| `FlowdProofs` | TLAPS theorems about the worker loop, its log and the registry inside it | The inductive invariants `LInv` (the log) and `RInv` (the type and the registry), with one lemma per step. |

In `Flowd`, each action of the loop is one stretch of `flowd_mainloop`
between two points at which a signal handler can run. The actions are:
- `LoopTest`, `ReopenCheck`, `ReconfCheck`, `ReconfClear` (the
  `reconf_flag = 0` after `client_reconfigure` returned) and `StartLog`;
- `InfoCheck`, `EnterPoll` (poll is entered; from here on a signal
  interrupts it) and `PollReturn`;
- `ProcessInput(s)`, one datagram from socket `s`, through the whole of
  `process_input`, the decoder, `update_peer` and `process_flow`.

The environment actions are:
- `Signal(sig)`, one of the four handlers, which atomically sets its flags
  and interrupts `poll`;
- `Send` (an exporter's datagram; the socket buffer holds `MaxQueue`);
- `Rotate` (the log file is renamed away);
- `EditConfig` (the new file may not parse);
- `MonitorExit`;
- `Restart`, which is `main()` again after the worker died or returned.

The log files survive the process as sequences of items:
- `"H"`, a complete header;
- `"h"`, a torn header;
- `"R"`, a complete flow record;
- `"r"`, a torn record.

`log_fd` is `logGen`, the file it refers to (0 for -1).

Data is abstracted as follows:
- addresses are model values;
- a datagram is `[src, version, nflows, size]`;
- the filter verdicts are any number of accepted records;
- `gettimeofday` is a choice from `Times`, not necessarily increasing.

The packet geometry is taken from the canonical NetFlow layouts, because
`netflow.h` is not under `src/`:
- v1: header 16, record 48, at most 24 flows;
- v5: header 24, record 48, at most 30 flows;
- v7: header 24, record 52, at most 28 flows.

## Runs

| Run (cfg) | Expect | Checks | Shows |
|---|---|---|---|
| registry (`MCPeerRegistry.cfg`) | pass | `RegistryConsistent`, `LruOrderedByRecency` | With 3 addresses, `max_peers` = 2 and 2 forced evictions, the tree and the LRU list always hold the same peers, each once, and `num_peers` counts them. The list is ordered by last use, so eviction removes the least recently used peer. |
| registry_head (`MCPeerRegistryHead.cfg`) | violation | `LruHeadIsLastUpdated` | A peer created after the last `update_peer` takes the head without ever being valid. |
| registry_clock (`MCPeerRegistryClock.cfg`) | violation | `FirstSeenBeforeLastValid` | A wall clock that steps back gives `lastvalid < firstseen`. |
| registry_refines (`MCPeerRegistryRefines.cfg`) | pass | `ImplementsPeerTable` | Same instance: under the mapping `known <- peers.tree`, `stats <- peers.state`, `used <- lastUse`, every step of the registry is an `Insert`, `Touch` or `Reject` of `PeerTable`; in particular the peer `new_peer` evicts as `TAILQ_LAST` is one of least recency. |
| decode (`MCNetflowDecode.cfg`) | pass | `RecordsWithinDatagram`, `AcceptsExactlyWellFormed` | Versions {0,1,5,7,9}, counts 0..45 and sizes 0..2100 (past the 2048-byte buffer): the decode loop of every accepted packet reads exactly `nflows` records, each after the header and within the received bytes, and exactly the well-formed packets are accepted. |
| flowd_safety (`MCFlowdSafety.cfg`) | pass | `HeaderOnlyAtStart`, `LogReadyWhileReceiving`, `ReopenHonoured` | With 2 signals, 2 log generations, 2 configuration versions, a monitor exit and one restart interleaved with the loop, the following hold. Each log file has one header, at its start, and a header torn by a failed write is the last item of its file (a restart on it dies in `store_check_header`). Datagrams are handled only with an open, verified log. After a reopen request the log is the file at the path at request time, or a newer one. |
| flowd_live (`MCFlowdLive.cfg`) | pass | `DatagramEventuallyHandled` | Under weak fairness of the loop, every queued datagram is received unless the worker exits. |
| flowd_reconf_lost (`MCFlowdReconfLost.cfg`) | violation | `ReconfHonoured` | A HUP delivered while `client_reconfigure` runs is wiped by `reconf_flag = 0`. |
| flowd_torn_tail (`MCFlowdTornTail.cfg`) | violation | `TornTailNeverExtended` | After a short record write kills the daemon, the restarted daemon appends after the torn record. |
| flowd_exit_race (`MCFlowdExitRace.cfg`) | violation | `ExitHonoured` | A TERM delivered after the `exit_flag` test and before `poll(INFTIM)` is ignored while no traffic arrives. |

Each property of a passing run has a mutant in `PROJECT.json`. The mutant is
a plausible bug in the modelled code that makes TLC report the property
violated:
- `delete_peer` without `SPLAY_REMOVE`;
- `update_peer` without the move to the head;
- `NFx_MAXFLOWS` off by one;
- a length check one record short;
- a v7 decode loop that runs to `i <= nflows`;
- `start_log` that takes every file as new;
- `start_log` that ignores `store_check_header`;
- a reopen that clears the flag without closing the log;
- an `init_pfd` that leaves out the last socket.

**Findings.**
- The exit race and the lost HUP are bugs in the signal handling of
  `flowd_mainloop`.
- The torn tail, the LRU head and the clock are places where the code does
  not do what the specification says.

Details are in `PROJECT.json`.

## Bounds

The bounds are as small as the interesting cases allow:
- `max_peers` = 1 or 2 with one more address than fits, so eviction happens.
- One socket queue slot and two sockets, so `poll` reports several sockets
  and the loop's in-order handling matters.
- Two signals, enough for "HUP during reconfigure" and "USR1 then HUP".
- Two log generations, enough for a rotation between a reopen request and
  the reopen.
- Two configuration versions, one restart, and one datagram per outcome of
  the decoder.

The decode run enumerates every count up to 45 and every size up to 2100, so
it covers every decoder boundary and the truncation at 2048.

Deadlock checking is off in every cfg: `poll(INFTIM)` blocks for good when
nothing arrives, and a dead daemon stays dead once the restart bound is
spent.

## Fairness

`Spec` in `Flowd` has `WF_vars(Loop)` and nothing else. The worker is the
only thread of its process and runs whenever it can. Nothing obliges an
exporter to send, a user to signal, or the administrator to rotate or edit.
In particular a signal is never assumed to come, which is why `ExitHonoured`
fails: waking `poll` needs an event.

## Proofs

`PeerRegistryProofs` proves, for every set of addresses, every
`max_peers` > 0 (`MaxPeersAssumption`) and every set of clock values:
- `RegistryConsistency`: `Spec => []RegistryConsistent` for
  `MCPeerRegistry`'s `Spec`;
- `RegistryTypeCorrect`: `Spec => []RegistryTypeOK`;
- `LruOrder`: `Spec => []LruOrderedByRecency`;
- `RegistryRefinesTable`: `Spec => ImplementsPeerTable`, i.e. the registry
  implements `PeerTable` under the mapping of `MCPeerRegistry`.

The inductive invariant is `IInv == RegistryTypeOK /\ RegistryConsistent`.
Neither conjunct is inductive alone:
- the eviction in `new_peer` needs `num_peers = Len(lru)`, so that
  `TAILQ_LAST` exists when the table is full;
- the type after `update_peer` needs the peer to be in the list.

The step proof has one case per action and rests on one lemma per registry
operation:
- `NewPeerLemma`, via `MakeRoomLemma`;
- `UpdatePeerLemma`;
- `CountInvalidLemma`.

Those lemmas rest in turn on lemmas about the list operations:
- `RemoveAtLemma`/`TailqRemoveLemma`: `TAILQ_REMOVE` of the element at a
  position shortens the list by one, removes exactly that element and keeps
  the list free of repeats;
- `ConsLemma`: `TAILQ_INSERT_HEAD` of a new element;
- `PosLemma`: the position of a listed element.

`LruOrder` needs a stronger invariant, `OInv`: `IInv`, `clock \in Nat`,
`lastUse[a] <= clock` for every address, and `Decreasing(peers.lru,
lastUse)`. The bound on `lastUse` is what makes the new head, stamped
`clock + 1`, more recent than every listed peer. The step proof rests on:
- `RemoveAtOrderLemma`/`TailqRemoveOrderLemma`: removing an element keeps
  the others in order;
- `ConsOrderLemma`: a head more recent than all keeps the order;
- `OrderFrameLemma`: restamping an address that is not listed changes
  nothing.

`RegistryRefinesTable` is proved the usual way:
- `InitRefines`: the initial registry maps to `PeerTable!Init`;
- `NextRefines`: under `OInv`, every step maps to a `PeerTable` step.
  There is one lemma per action. `NewPeerRefines` splits on whether the
  table is full. When it is, `LastIsLruLemma` turns the order of `OInv`
  into "`TAILQ_LAST` has the least `lastUse` of the tree".
- The field lemmas of `PeerRegistryLemmas` (`NewPeerRoomLemma`,
  `NewPeerEvictLemma`, `UpdatePeerFieldsLemma`, `CountInvalidFieldsLemma`)
  say what each operation does to each field.

`tlapm PeerRegistryLemmas.tla` and `tlapm PeerRegistryProofs.tla` check all
of them.

### The datagram checks (`NetflowDecodeProofs`)

Two theorems cover every version, flow count and size, not just the
datagrams the decode run enumerates:
- `AcceptsWellFormed`: `Spec => []AcceptsExactlyWellFormed`;
- `RecordsInside`: `Spec => []RecordsWithinDatagram`.

The only assumption is `DatagramAssumption`: the header fields and the size
are naturals. That is what `ntohs` of a `u_int16_t` and a byte count give.

Both theorems rest on lemmas about the operators:
- `PacketFitsBuffer`: the largest accepted packet, 1480 bytes for v7, is
  shorter than `buf[2048]`. So a truncated datagram, whose received length
  is 2048, can never match `NFx_PACKET_SIZE(nflows)`;
- `VerdictValid`: `Verdict` on what `recvfrom` returned is "valid" exactly
  for a well-formed packet as sent;
- `OffsetsInside`: record `i` of the loop is read at
  `NFx_PACKET_SIZE(i - 1)`, so it ends at or before `NFx_PACKET_SIZE(nflows)`.

Each state of `MCNetflowDecode` is one datagram that never changes. The
type invariant is therefore inductive as it stands, and the two properties
follow from it in every state. `tlapm NetflowDecodeProofs.tla` checks them.

### The worker loop (`FlowdProofs`)

Theorems, for every configuration that satisfies `FlowdAssumption`:
- `LogLayout`: `Spec => []HeaderOnlyAtStart`;
- `LogReady`: `Spec => []LogReadyWhileReceiving`;
- `ReopenRequestsHonoured`: `Spec => []ReopenHonoured`;
- `FlowdTypeCorrect`: `Spec => []TypeOK`. Its proof carries
  `RegistryConsistent` through `process_input`'s registry calls, since
  the type after an eviction needs it.

The log invariants rest on `LInv`. It has these conjuncts:
- `LogTypeOK`;
- every non-empty log generation is `Headed`: one header, then only
  records or a torn tail, and nothing after a torn header;
- `LogOpenOnHeader`;
- `OpenPastStartLog`: past `start_log` the log is open and headed;
- `OpenOnRequested`: with the reopen flag clear, the open generation is at
  least the last requested one, and no request is newer than the current
  generation.

The last two are what make `LogReadyWhileReceiving` and `ReopenHonoured`
inductive: a signal can set the flag at any step, and the proof must know
where the loop is when it is next read.

`RInv` is `TypeOK /\ RegistryConsistent /\ ReadableNonEmpty`:
- `ReadableNonEmpty` says that a socket poll reported readable has a
  datagram queued, so `ProcessInput` reads a real packet;
- `ProcessInput` is `FoundOrNew` (find the peer, or `new_peer`) and then
  `update_peer` or `ninvalid++`, so its step case reuses the registry
  lemmas of `PeerRegistryLemmas`.

`NextRInv` assumes `LInv` as well. `RInvAlways` combines the two
invariants with PTL.
 `tlapm FlowdProofs.tla` checks all of them.

These are only model-checked:
- the liveness properties, since TLAPS does not handle fairness or ENABLED;
- the violations of the `flowd_reconf_lost`, `flowd_torn_tail` and
  `flowd_exit_race` runs, and of `registry_head` and `registry_clock`.

`LruOrderedByRecency` and `ImplementsPeerTable` are proved for the registry
driven by `MCPeerRegistry`. They are not stated for the registry inside
`Flowd`, which carries no recency history variables.

## Not modelled

- The filter evaluator (`filter.c`): it is a pure function, and the model
  lets it accept any subset of the flows.
- The configuration parser: its outcome is "parses" or "has errors".
- The monitor's internals: they are environment.
- The field-by-field copy of NetFlow records into
  `struct store_flow_complete`, and the byte layout of `store.c`.
- Logging, `usage`, `dump_packet` and option parsing.
- Other processes writing the log file.

## Next steps

- Prove `ImplementsPeerTable` for the registry inside `Flowd`, by
  carrying the history variables of `MCPeerRegistry` into the loop.
- Add a corrected loop, with the flag cleared before `client_reconfigure`
  and a signal-safe wait, and check `ReconfHonoured` and `ExitHonoured` on
  it.

# A verification development of ProxiMight

ProxiMight sends the connections of chosen applications through proxies and
tunnels, and cuts off everything else when the proxy path is lost. Its core is a
C library (`src/src/core`), driven by a GUI (`src/src/gui`) and by a packet
backend (`src/src/backend`). This directory models that core in TLA+, checks it
with TLC on small instances and proves part of it with TLAPS for every instance.
Every definition is read off the C source; `PROJECT.json` names the lines.

## 1. The system

Threads: the **GUI thread** owns the engine, the profile and the kill switch and
calls the pump once per frame; the **backend** runs a socket pump (verdicts) and
a network pump (rewriting); the **relay** has an accept thread and one worker per
connection; each **checker** has one worker (the engine owns one for health, the
GUI one for the user); tracing and VPN child processes stand beside these.

| Component | State it keeps | Operations | Hard behaviour | What makes it correct |
|---|---|---|---|---|
| Kill switch `pmx_lockdown.c` | policy, allowlist, firewall (borrowed), label, two counters, armed | create, destroy, set_policy, set_allowlist, arm, disarm, on_health | calls in any order; a firewall that is missing or refuses | labels say the truth; rules are never left behind; an armed blocking policy is enforced; evidence is consecutive |
| Engine, watcher `pmx_engine.c` | running, watched proxy, list applied, time of the last probe | start, stop, pump, rebuild_allowlist | the probe is asynchronous; profile edited in place; stale results | a lost path is noticed, a regained one restored, an edit reaches the allowlist |
| Engine, verdicts `pmx_engine.c` | profile, snapshot, bounded inbox, event ring | on_flow, decide, pump, load, clear, recent | backend thread against GUI thread; failing allocation | consistent snapshots, flows accounted for, newest rows in order |
| Checker `pmx_checker.c` | job queue, result queue, pending count, options | submit, submit_chain, poll, set_opts, destroy; worker loop | condition variable, probe outside the lock, destroy at any moment | FIFO, exact count, no lost wakeup, destroy returns |
| Redirection table `pmx_nat.c` | slots, count | add, find, mark_closed, remove, expire | full table; clock readings that arrive late | one mapping per port; a live flow never loses its own |
| Relay `pmx_relay.c` and Windows backend `backend_windivert.c` | registrations, connections, workers | register, take, reap, worker, close callback; the two pumps | six parties and the operating system's port reuse | a proxied flow stays proxied and reaches its own destination |
| Profile file `pmx_profile.c`, `pmx_protect.c` | file, temporary file, lock | load, migrate, save | crash between steps; faults; a file that cannot be read | a complete profile is never lost, overwritten unread or written in clear |
| Profile contents, rules, chains | ids, references | add, remove, move, edit, load, resolve | dangling references, reused ids | a reference leads to what its user picked or nowhere; no path is traversed in part |
| Dial: sockets `pmx_net.c`, handshakes `pmx_proxy.c`, `pmx_socks.c`, `pmx_http_connect.c` | position in the protocol, what has been read, the time left | resolve, connect, send, receive exactly or some, one handshake per protocol, hop after hop | any answer, cut anywhere; a stream shared by the hops of a chain; limits per read | success is a tunnel to the destination through every hop; failure has a cause; no read outlasts its limit |
| VPN runner `pmx_vpn_run.c`, `pmx_proc.c`, `panel_vpn.c` | eight entries, child processes, services, a cached verification | up, down, poll, query, run, spawn, kill, destroy | commands that block the window, children that die, slots and management ports that are handed on | labels are true, every child is in one entry's hands, no verification is another client's, an end is noticed |
| Lifecycle `gui_main.c`, `gui_app.c`, `pmx_engine.c`, backends, `pmx_relay.c`, `pmx_netpath.c`, `pmx_log.c` | who is alive: threads, objects, the count that holds Winsock | start, stop, change backend, trace, exit | failure at every step of a start; joins with every thread at every place | nothing used after it is freed, nothing left behind, no hang but on a flow that never rests |
| Rules `pmx_rule.c` | none | glob match, list match, port match, port validate | backtracking, spaces, half ranges | a pattern matches what it means |
| VPN configurations `pmx_vpn.c` | the import | sniff, parse OpenVPN, parse WireGuard | inline blocks, defaults that come late, cut ports | endpoints are those the client itself reads; a full tunnel is never called split |
| GUI drawing, the rest of the wrappers | | | | not modelled, see section 7 |

Interaction: the backend reports flows into the engine's inbox and asks it for
inline verdicts; for a proxied flow it registers with the relay and then with the
redirection table; a relay worker that ends calls back into the table; the pump
submits probes to the checker, drains its results into the kill switch and pushes
the allowlist, in which the endpoints of imported tunnels stand beside the
proxies; panels edit the profile in place and hand policies over; load and save go
through the profile file. A relay worker and a check both dial through the same
handshakes. The tunnel panel drives the runner and shows what its query cached. The
log calls a sink in the application from every thread.

## 2. The modules

| Module | Models | Extends or uses |
|---|---|---|
| `Lockdown` | the kill switch; the firewall is external | |
| `Hysteresis` | abstract: trip and restore over a log of observations, no counters | |
| `LockdownHistory` | `Lockdown` with the log as a history variable, refining `Hysteresis` | `Lockdown`, `Hysteresis` |
| `LockdownProofs` | theorems about `Lockdown`, and that its counters implement `Hysteresis` | `LockdownHistory` |
| `HealthWatch`, `MCHealthWatch` | the engine's start, stop and pump composed with the kill switch, profile edits, the worker and the network | `Lockdown` |
| `Nat`, `MCNat` | the redirection table, slot by slot | |
| `NatPromise` | abstract: a finite map from ports to flows | |
| `Redirect`, `MCRedirect` | both pumps, relay, table, applications | `Nat` |
| `ProfileStore` | the profile file over sessions, step by step | |
| `Profile`, `MCProfile` | identifiers, references, the editors, resolution | |
| `ProfileProofs` | theorems about `Profile` and about `ProfileStore` | `Profile`, `ProfileStore` |
| `Checker` | queues, worker, condition variable, destroy | |
| `CheckerPromise` | abstract: a FIFO of questions and answers | |
| `CheckerProofs` | theorems about `Checker` | `Checker` |
| `Verdicts` | inbox, snapshot, drain, ring | |
| `FlowProofs` | theorems about `Nat`, that it implements `NatPromise`, and theorems about `Redirect` and `Verdicts` | `Redirect`, `Verdicts` |
| `Dial`, `MCDial` | one dial of a flow or of a check, through a chain of hops, with the peers | |
| `DialProofs` | theorems about `Dial` | `Dial` |
| `VpnRunner`, `MCVpnRunner` | entries, children, services, the tunnel panel | |
| `VpnRunnerProofs` | theorems about `VpnRunner` | `VpnRunner` |
| `Lifecycle`, `MCLifecycle` | the program's threads and objects from start to exit | |
| `LifecycleProofs` | theorems about `Lifecycle` | `Lifecycle` |
| `Rules` | the matchers, with what a pattern means beside them | |
| `VpnConfig` | the two parsers, with what the clients read beside them | |
| `TextProofs` | theorems about `Rules` and `VpnConfig` | `Rules`, `VpnConfig` |
| `MCText` | both for TLC: a behaviour reads one text | `Rules`, `VpnConfig` |

### How state and actions correspond to the code

*Kill switch.* The variables are the fields of `struct pmx_lockdown`; `fw` and
`rules` are the firewall behind the interface (missing, open, engaged, and what
the last successful engage was given). Every entry point runs on the GUI thread
and is one action; `Reconcile`, `EnsureEngaged` and `Disengage` are the helpers
the entry points call. An engage may fail and then changes nothing, as the fake
firewall of `tests/test_chain_failover.c` does; letting go always succeeds. A
mode read from a file that the enum does not know is the value `"unknown"`.
The counters saturate at `CounterCap`, no lower than any threshold; a threshold
of zero or less behaves as one of one.

*Watcher.* The pump is split where the checker's worker can act in between:
`PumpTick`/`PumpNoTick`, `Probe`, `DrainOne`, `DrainDone` with `pc` as the place
reached. `Publish` is the worker's critical section after a probe. `RebuildAllowlist`
compares whole structures in C, and the bytes behind a string's terminator are
not initialised, so an equal list may also be pushed again: a choice in the model.

*Table.* One action per function of `pmx_nat.h`, each under the table's mutex.
Callers read the clock first, so the time they pass may be up to `Lag` old.

*Redirection.* `Decide`, `Register`, `AddMapping`, `Release` are the socket pump's
steps for one connect; `AppSends` and `RelaySends` are packets through the network
pump; `Reap`, `Take` the accept thread; `WorkerEnds` and `CloseCallback` the two
steps in which a worker leaves: marked done under the relay's mutex, then the
callback outside it. A connection in `backlog` is one the kernel has completed and the
relay has not accepted yet; what was decided for its flow and when it was registered
goes with it as history (`Arriving`). `RecyclePorts` says whether a port may be used
again before the relay is done with it.

*Profile file.* A save is `Save`, `Seal`, `OpenTmp`, `WriteTmp`, `Rename`; each may
fail as the call in C may, and the process may die between any two. `Load` is
`pmx_engine_load_profile`, whose migration of a plaintext file runs the same steps
before the load returns. The user acts between sessions or when told that the
file could not be read. `faults` is fixed for a behaviour: files that exist but
cannot be opened for a while, flushes that lose the last bytes.

*Profile.* One action per function of `pmx_profile.h` that changes the contents, and
one per frame of an editor with at most one click: `EditRule` is `rule_editor` with
what drawing alone repairs and fills in, or the toggle in the table of rules, which
repairs nothing; `EditChain` is `chain_editor`. A pattern
is the set of connections it matches. `Decide` is `pmx_resolve_with_profile`. Proxies
and chains carry a `who` that is never reused, and rules and hops the one their
user picked (`meant`, `who`): history against which references are judged.

*Checker.* One action per critical section. `Take` is the section at the head of
the worker's loop with its three outcomes; `Wake` is signal and broadcast.

*Verdicts.* `Report` and `Enqueue` are the two critical sections of
`engine_on_flow`; `DecideInline` reads the snapshot; `Pump`, `DrainFlow`,
`DrainEmpty` are the GUI thread. An `Enqueue` without memory returns and counts
nothing, as the code does. Profiles are told apart by the generations of two
of their arrays, which is what a torn copy would mix.

*Dial.* The stream back to the client is a sequence of cells, one per field of an
answer, each marked with the peer that wrote it; a field's length relative to the
others is kept, because that is what the client can get wrong. `wire` and `buffer`
are cells under way and arrived, in pieces of any length. `Recv` is one turn of
`pmx_recv_exact`, `Http` and `ReadPage` of `pmx_recv_some`; `Remaining` is the budget
`pmx_recv_exact` and `pmx_tcp_connect` keep, and `Await` where a new read begins with
a whole one. `Socks5` has a disjunct for every answer awaited. `CheckAgain`,
`AsksPage`, `ReadPage` are `measure_egress`. Peers answer as their protocol says, or
refuse, answer something else, close, or keep silent; the destination may speak
first. `fault` remembers that one of them did.

*VPN runner.* `entries` are the runner's, `procs` and `services` the operating
system's. `Connect` and `Disconnect` are the panel's button with all of
`pmx_vpn_up` and `pmx_vpn_down`; a command they run leaves `run` behind, which
blocks the window and is advanced by `Turn` (one turn of `pmx_proc_run`'s loop: the
pipe drained, then 25 ms) until `InstallEnds`, `UninstallEnds` or `ShowEnds`. `Ask` is
the throttled query when it is made, `Expire` the five seconds or the refresh
button. `Reopen` closes the program and opens it again: children are killed,
services stay. A click needs a poll before it, as every frame begins with one. Beside
the cached answer stands where it came from: `from`, the configuration of the client
that gave it, and `by`, that client, until it is freed or removed (`Gone`). The code
keeps neither.

*Lifecycle.* `todo` is the code the GUI thread still has to run, as a list of named
steps: a click puts a list there (`RelayStop`, `BackendStop`, `EngineDestroy`,
`TraceFree`, `Exit`, `Boot` are the functions of those names), a failing step
exchanges it for that function's clean-up, and a join is a step that waits. The
other threads only live, use, log and end here: both pumps, the acceptor (of clients it
sends away) and the workers call the sink. `Destined` is the test that lets a worker
begin: a destination waits for it. A worker that splices is `busy` while it moves bytes
(`Moves`, `Moved`), which includes the time `pmx_send_all` takes; only a tick without
any lets it ask whether the relay is to end (`Quiet`). `refs` is `g_wsa_refs`.

*Text.* `Rules` runs `pmx_glob_match` one loop turn per step and `VpnConfig` a parser
one line per step. Each states the meaning separately: `Reach` is the set of
positions a pattern can have consumed, `Configuration` the lines of a file that
OpenVPN would read. `Sniffed` looks for the text of a section or an option anywhere in
the file, inline blocks and comments included, in the spellings `strstr` looks for, and
a file with none of them is an error. A line is a record of what it looks like and of a
name with its case; each parser knows some names in any case (`Named`) and passes over
everything else (`OtherDirective`, `OtherKey`), so a file may mix the lines of both.
What tokenizes is in the choice of lines, and a port is cast to 16 bits where C casts it.

## 3. What is checked

| Run | Instance | Shows |
|---|---|---|
| `lockdown` | two allowlists, two guard settings, thresholds 1 and 2, counters to 3, firewall missing or refusing at will | a label that says "blocking" is true (`BlockingLabelIsTrue`); rules are in force only while something owns them (`NoStrandedRules`); the label belongs to the policy in force (`LabelFollowsPolicy`); trips and restores happen exactly on runs of observations since the last reset (`ImplementsHysteresis`) |
| `watch` | two proxies and a tunnel, an allowlist of two, closed/open/off policies with thresholds 2, firewall that does not refuse | armed and blocking means enforced with the current list (`EnforcedWhileArmed`); a watched path that stays down or up is noticed (`LabelFollowsThePath`); what is enabled or disabled while running, tunnel or proxy, reaches the list and an engaged firewall, as far as the list has room (`EditsReachTheAllowlist`) |
| `nat` | two slots, three ports and port 0, two destinations, time to 3, readings one unit late | `OneMappingPerPort`; a live mapping survives every step but an add or remove of its port (`LiveMappingsSurvive`); the table implements the map (`ImplementsPromise`) |
| `redirect` | two ports, one slot, one registration, one connection, three opens | a connection gets its own flow's destination, and a released flow keeps its registration, on its way and in the accept backlog, until it is taken or old (`RegistrationsAreRight`); `LiveFlowsStayRedirected`; both with ports that rest until the relay is done |
| `store` | seeded and edited profile, both faults or none | a save neither tears the file, while flushes succeed, nor writes it in cleartext (`SavesAreSafe`); `NeverClobbersOpenable` while files open; an open that migrates keeps the data and, while flushes succeed, leaves a file that can be read again (`LoadKeepsData`) |
| `checker` | two hops, three jobs, failing allocations | `PendingIsTrue`; `ImplementsCheckerPromise`; `BacklogIsAbandoned`; `EveryCheckIsDone`; `DestroyReturns` |
| `verdicts` | inbox 2, ring 2, four flows, two edits, memory ample or not | every flow is a row, waits or is counted as dropped while memory is ample, newest rows in order, never a mixture of two profiles (`VerdictsAreSound`); `EditsTakeEffect` while memory is ample |
| `profile` | the seeded profile, one with a proxying default rule and one without `next_id`; two hops per chain; five operations | `IdsNeverCollide`; every route is the one meant, whole (`RoutesAreMeant`); deletions reroute nothing (`RemovalsNeverReroute`) |
| `vpn` | two entries, three tunnels (two OpenVPN, one WireGuard), two child processes, a pipe of one unit for output of up to two, two turns per command | labels agree with processes and, of running tunnels, with services (`LabelsAreTrue`); a living child is in exactly one entry's hands and has its management port to itself (`ClientsAreTracked`); "Handshake verified" is on the word of a client of the tunnel's configuration and never of another that is there (`StatusIsOwn`); only a command that hangs is killed (`CommandsAreNotCutShort`); a client's death is noticed (`EndsAreNoticed`) |
| `dial` | every kind of hop alone, nine chains of two, limits of 2 ticks, two addresses, status lines in up to two of three pieces | `PMX_OK` is a tunnel to the destination through every hop in order (`OkMeansTunnel`); a hop's answers are read to their ends and no further (`TunnelStartsClean`); a dial that fails has a cause outside the program (`FailuresAreReal`); reads are bounded in time and number (`DialIsBounded`) |
| `lifecycle` | one relay, two connections, both backends, a trace, the engine's checker | nothing is used after it is freed (`NothingUsedAfterFree`); users of sockets hold Winsock (`WinsockHeld`); a start that fails undoes itself (`NothingIsStranded`); every stop, exit and scan comes back, unless it waits for a worker whose flow is never done moving bytes (`MainReturns`) |
| `text` | globs to 4 characters against texts to 4, lists of two; port texts to 5 characters; OpenVPN files to 4 lines, WireGuard files to 5, files that mix both, with names in several spellings, to 4 | `RulesMatchAsMeant`; `ImportIsFaithful` |

A property that joins several is their conjunction, and each of its parts
has a mutant of the code that breaks it. The type invariants of the modules
(`TypeOK`, `NatTypeOK`, `VpnTypeOK` and so on) stand in the modules and are proved,
but for those of the watcher, the dial and the lifecycle.

The bounds are the smallest at which the interesting case happens, and one more
where that is cheap. A table of two slots and three ports is full, recycled and
refused; a ring of two and four flows wraps twice; thresholds 1 and 2 tell
"now" from "consecutive", and a counter that saturates one above the highest
threshold cannot be told from one that does not. Three opens on two ports reuse
a port while the other is busy. Time up to 3 with a TTL of 1 has readings before,
at and after expiry. Ports and destinations are only compared, so the runs of
`nat` and `redirect` use symmetry; they check safety only.

Two entries and three tunnels make a slot be refused, handed on and reclaimed; two
children are as many as can live behind two entries. `VpnRunnerFour.cfg` (`MCVpnRunner`) checks the
same invariants with a second WireGuard tunnel, whose file has the base name of the
first and so claims the same service; it is left out of the runs for its size. A pipe half as large as the
longest output is the case that blocks a writer. Two hops are the smallest chain in
which one hop's answer can run into the next one's, and a status line longer than
the reads allowed is the smallest that comes in too many pieces. Two connections
let one be joined while the other dials. Five characters hold a range with its
spaces, a half range and a list; four lines hold a block that is opened, holds a
line, is closed wrongly and then rightly, or an inline block that hides a section and
its endpoint. An allowlist of two among three endpoints is one that fills up, and one
in which the tunnel has room.

`dial`, `lifecycle` and `text` do not check for deadlock: a dial, the program and a
text come to an end. `redirect`, `checker` and `profile` do not either: opens and time, jobs,
and operations are bounded, and a destroyed checker really stops. Five operations
are enough for a proxy to be removed, saved away, reloaded and followed by another
with an identifier of its own while the default rule still names the first.

### Fairness

* `FairWatchSpec`: the main loop pumps every frame (`Pump`), a probe ends within
  its timeouts (`Publish`), time passes (`IntervalPasses`). Users, starts, stops
  and the network owe nothing; the liveness properties are conditional on what
  they do (`<>[] ... => <>[] ...`).
* `FairCheckerSpec`: the worker is scheduled (`Take`), a probe ends (`Answer`), and
  a client in destroy returns from the join once the worker is gone (`Joined`).
  No wakeup is assumed: `SpuriousWake` is not fair, so a lost signal shows.
* `FairVerdictsSpec`: the GUI thread pumps once per frame and a pump runs to its end.
* `FairVpnSpec`: a frame is drawn again and again and begins with a poll (`Poll`),
  the loop around a command turns (`Turn`), and a command ends or is killed at its
  limit (`CommandEnds`).
* `FairLifecycleSpec`: the GUI thread and every other thread are scheduled, and a dial,
  a check and a trace have limits of their own. `Quiet` is the tick in which nothing
  arrived, due when a worker is not moving bytes; nothing is assumed of `Moves`, `Moved`
  and `FlowEnds`, so a flow may be busy for ever, over and over or in one send. That is
  why `MainReturns` excepts the wait for such a worker, and for nothing else; section 4
  has the promise without the exception.

## 4. Where the code and its documentation differ

No listed run expects a violation. Each divergence has a configuration, or a property
beside the others of its module, with which TLC reproduces it.

| Configuration (module, property) | What it shows |
|---|---|
| `LockdownHealthy.cfg` (`Lockdown`, `HealthyMeansEnforced`) | panel: "While armed, only the proxy endpoint(s) and loopback may leave the machine"; after a refused engage a run of good probes relabels the controller healthy with the firewall open |
| `HealthWatchNothing.cfg` (`MCHealthWatch`, `NothingToWatchTrips`) | "A kill switch with nothing to watch has failed, and must trip"; the tick that notices clears the value that gates the tick, so one failure is counted and no more |
| `RedirectRecycled.cfg` (`MCRedirect`, `LiveFlowsStayRedirected`) | "a flow that is still passing traffic must never lose its mapping"; a close callback that comes late names a port a newer flow owns |
| `ProfileStoreHeld.cfg` (`ProfileStore`, `NeverClobbersUnread`) | "it never clobbers the file you couldn't open"; a file that cannot be opened counts as absent and is overwritten on exit |
| `LockdownGuards.cfg` (`Lockdown`, `GuardsInForce`) | only a change of mode re-engages, so a leak guard switched on while armed does not reach the engaged rules |
| `HealthWatchStale.cfg` (`MCHealthWatch`, `VerifiedSinceArm`) | a result left by an earlier start verifies the proxy after the next: "block egress at startup until proxy proven up" |
| `HealthWatchTunnel.cfg` (`MCHealthWatch`, `TunnelsStayReachable`) | enabled proxies fill the fixed-size allowlist before the tunnels that "MUST stay reachable" |
| `ProfileStoreFlush.cfg` (`ProfileStore`, `WritesAreAtomic`) | "Write `len` bytes atomically", but the results of `fflush` and `fclose` are ignored, so the rename may install an incomplete file |
| `ProfileVpnIds.cfg` (`MCProfile`, `IdsNeverCollide`) | "Make sure next_id can never collide with a stored id" leaves out the tunnels, which shows in a file without `next_id` |
| `VerdictsLog.cfg` (`Verdicts`, `LogSaysWhatWasDone`) | the row is resolved against the live profile and the verdict against the snapshot, so they can differ |
| `LifecycleRetry.cfg` (`MCLifecycle`, `NothingIsStranded`) | `wd_start` returns an error when a pump's thread cannot be started but keeps what it has started; clicked again, it overwrites the pointer to the first relay, whose accept thread nobody joins: "joins every one of those threads" (`gui_main.c`) |
| `LifecycleBusy.cfg` (`MCLifecycle`, `MainAlwaysReturns`) | "Workers notice !running within one splice tick" (`pmx_relay.c`), but a worker looks only in a tick without traffic, and not while a send blocks: stop, and with it the window, waits for a flow that is never done |

The following are definitions at the ends of their modules; listing one alone as the
INVARIANT or PROPERTY of the named configuration shows it.

| Definition (configuration) | What it shows |
|---|---|
| `HealthWatch!WatchResumes` (`HealthWatchNothing.cfg`) | started with no proxy enabled, the watcher never picks one up: "It now re-derives each tick" is true only while it has a target |
| `Verdicts!NothingIsDroppedSilently` (`Verdicts.cfg`) | "a counter nobody looks at is the same as dropping them silently", but a flow whose node cannot be allocated is not even counted |
| `Redirect!DirectGoesDirect` (`Redirect.cfg`) | a direct flow inherits a live mapping of its port |
| `Redirect!RightDestination` (`RedirectRecycled.cfg`) | a connection in the backlog takes the registration of the next one |
| `Profile!ShownTargetIsReal` (`Profile.cfg`) | a rule taken from a chain to direct to proxy keeps the chain's identifier: the picker shows the first proxy, which cannot even be clicked, and the engine resolves the rule to nothing |
| `Profile!NewRulesAreInert` (`Profile.cfg`) | a new rule matches everything and is direct; it "behaves like the default rule" only where the default rule is direct too |
| `Profile!RedundancyIsOneHop` (`Profile.cfg`) | a redundancy chain "currently behaves like a one-hop chain", except that any disabled or missing alternative makes it un-routable |
| `Dial!TunnelIsWhole` (`Dial.cfg`) | "afterward, `s` carries a tunnel" (`pmx_proxy.h`), but `http_handshake` returns at the status line: what follows it of the headers is read as the next hop's answer or handed to the application |
| `Dial!HandshakeIsTimely` (`Dial.cfg`) | "bounded by timeout_ms" (`pmx_proxy.h`), but every read of a handshake has the whole limit again |
| `Dial!EgressIsAnAddress` (`Dial.cfg`) | the egress address of a check is whatever follows the first blank line, also that of a proxy's headers left in the stream |
| `Dial!RequestsEnd` (`Dial.cfg` with `Creds = {"none", "long"}`) | long credentials are cut in `auth_header[512]` and take the header's end of line with them, so the request never ends and the proxy waits |
| `VpnRunner!DownMeansRemoved` (`VpnRunner.cfg`) | "tunnel service removed" is said whatever the exit code of the command |
| `VpnRunner!AnswerIsCurrent` (`VpnRunner.cfg`) | the panel keeps an answer for five seconds under the tunnel's identifier, so after a stop and a start "Handshake verified" is for that long the word of the client before |
| `VpnRunner!CommandShownIsRun` (`VpnRunner.cfg`) | the panel shows the command with the first management port; the second tunnel runs with another |
| `VpnRunner!UpIsListed` (`VpnRunner.cfg`) | a tunnel removed from the profile while it is up goes on running with no row to stop it from |
| `VpnRunner!LabelsAreTrue` under `ReloadVpnSpec` (`VpnRunner.cfg` with `w2` among `Configs`) | entries are keyed by an identifier that a reloaded profile may give to another configuration, whose label is then the old one's |
| `VpnConfig!ProtoIsGlobal` (`Text.cfg`) | "Apply the global proto/port to remotes that didn't specify one" (`pmx_vpn.c`), but a `proto` line reaches only the remotes after it |
| `VpnConfig!OptionNamesKeepTheirCase` (`Text.cfg`) | "OpenVPN matches option names case-sensitively" (`pmx_vpn.c`), which the container tag heeds and the directives do not: a `Remote` OpenVPN would refuse becomes an endpoint the kill switch lets through |
| `VpnConfig!InlineFilesAreData` (`Text.cfg`) | "OpenVPN treats ANY `<tag> … </tag>` as an inline *file* whose body is data", but `[Interface]` anywhere in the file, also in such a body, makes the file WireGuard's, and an `Endpoint` behind a `[Peer]` in that body is let through |
| `VpnConfig!FullIsEverything` (`Text.cfg`) | `8000::/1` alone is called a full tunnel, since `::/1` occurs in it |
| `VpnConfig!HalvesAddUp` (`Text.cfg`) | the two halves on two `AllowedIPs` lines are called split |

One order is the reverse of what a comment says and still safe: when the network
handle cannot be opened, `wd_start` frees the redirection table before it stops the
relay. No worker can be calling back then, because no destination is registered
before the pumps run; `NothingUsedAfterFree` rests on that, and its mutant, an accept
thread that serves a connection without a destination, breaks it.

## 5. What is proved

All proofs hold for every value of the constants that satisfies the module's
named assumption. TLC checked each inductive invariant on the run's instance before
it was proved. Types are part of every invariant below and of no run.

**`LockdownProofs`** (from `LockdownAssumption`: the empty allowlist and the
unguarded setting are among those offered, thresholds lie in `1..CounterCap`).
`TypeCorrect`, `BlockingLabelIsAlwaysTrue`, `RulesAreNeverStranded`,
`LabelAlwaysFollowsPolicy`, `ArmedIsEnforced`. The properties are not inductive one
by one: that a blocking label is true after `SetAllowlist` needs the firewall to
stay engaged, that rules are never stranded needs the label to follow the policy
in `OnHealth`, and `Create` needs a freed controller to hold nothing. `IInv` is
their conjunction with `FreedIsReset`. One lemma says what an engage leaves, one
what a disengage leaves, one that `Reconcile` establishes all of `IInv` from the
policy it is given, one that an observation keeps it; the step lemma has a case
per action. These theorems are about `Spec`; the run checks `HistSpec`, which is
`Spec` with a variable that constrains nothing, and `ArmedIsEnforced` is checked
by `watch`. The refinement of `Hysteresis`, `CountersFollowTheEvidence`, is about
`HistSpec`. Its invariant adds what a counter means: it holds `n` if and only if the
last `n` observations logged say the same (`CountersReadTheLog`), so that a counter
that has reached a threshold and a run of that length are one condition.

**`FlowProofs`, the table** (from `NatAssumption`: capacity and TTL positive, port 0 and the
zeroed destination are not real ones, a destination is no status). `NatTypeCorrect`,
`PortsAreUnique`, `CountIsTrue` (the count kept by hand is the number of used slots,
so the guards against an underflow never act), and the action property
`LiveMappingsAlwaysSurvive`. The invariant is the conjunction of the first three: the
count needs uniqueness, because remove zeroes the slots of a port and takes one
off, and uniqueness needs the choice of slot in `add` (`AddSlotChoice`). The same
invariant carries the refinement of `NatPromise`, `TableKeepsItsPromise`: one mapping
per port is what makes the slots a map at all, and the map is as full as the table
because slots in use and mapped ports are in bijection. Each function of the
table is one step of the promise; an expiry forgets exactly the idle ports.

**`FlowProofs`, redirection** (from `NatAssumption` and `RedirectAssumption`: tables
and TTLs positive). `RedirectTypeCorrect` holds whether or not ports are recycled.
`RegistrationsAreAlwaysRight` and the action property `LiveFlowsAlwaysRedirected`
hold under `~RecyclePorts`, as in the run: with recycled ports they are false
(`RedirectRecycled.cfg`, section 4). Neither follows from the two tables alone. What a
port means has to be the same to the application, the two tables, the relay's
connections and its close callbacks (`PortsAreOwn`); then the tables agree except
between the two registrations (`TablesAgree`), a registration only ages out, for a flow
on its way (`RegisteredUntilTaken`) as for one in the accept backlog
(`BacklogIsRegistered`), and a mapping is at least as fresh as the flow's latest
packet (`MappingsAreFresh`), so that no expiry, reclaim or callback can take it.

**`ProfileProofs`, the file** (from `StoreAssumption`: which faults there are).
`StoreTypeCorrect`, and the action properties `SavesAreAlwaysSafe`,
`LoadsAlwaysKeepData`, `OpenableIsNeverClobbered`. They speak of the rename; the
invariant says what earlier steps left for it: what the temporary file holds, whole
unless a flush failed (`TmpIsOurs`), that a migration still has in memory what is on disk
(`MigrationIsFaithful`), and that a session which may save has seen the file or found
none (`SaversKnow`).

**`ProfileProofs`, the contents** (from `ProfileAssumption`: a chain has room for a hop).
`ProfileTypes`, `IdentifiersNeverCollide`, `ProxyingRulesAreMeant` and the action
property `RemovalsOpenNoRoute`, for every set of files each of which is sound
(`FileIsSound`): its identifiers are distinct, its references name what they were
meant to, and `next_id` or an identifier of a proxy, rule or chain bounds them all.
The hypothesis is needed because a load raises `next_id` above those three only: a
file with a tunnel and no `next_id` collides (`ProfileVpnIds.cfg`, section 4). The
files of the run satisfy it, the one without `next_id` too, which TLC evaluates
(`MCFilesAreSound`). The invariant says of the profile in memory, and of the file as
it would be loaded, that it is `Sound`: identifiers distinct over the four lists and,
with every reference that dangles, below `next_id`; an identifier that is found is the
object its user picked. Dangling references must count, since an identifier handed out
again would revive them. The lists are handled by one notion: an operation leaves
elements drawn from the list, each once (`Draws`), so identifiers stay distinct. That
a removal opens no route is then a comparison of lookups: what is found afterwards was
found before.

**`VpnRunnerProofs`** (from `VpnAssumption`: finitely many tunnels and processes, at
least one slot, and that a command writes no more than a pipe per turn of its limit).
`VpnTypeCorrect`, `LabelsAreAlwaysTrue`, `ClientsAreAlwaysTracked`,
`StatusIsAlwaysOwn`, `CommandsAreNeverCutShort`. The bound on output is what the code
relies on: pipes hold 4 KB or more and are drained 200 to 800 times before a command
is killed. The invariant ties slots, children, services and the command under way each
to the entry it belongs to (`SlotsAreOwn`, `ChildrenAreOwned`, `ServicesAreOwn`,
`CommandIsOwn`): a label is true only because no other entry can hold its child or
stop its service, and a verification is a tunnel's own only because the port asked
belongs to its slot (`AnswersAreOwn`), and stays so because the client that gave it is
the tunnel's for as long as it is there (`AnswererIsOwn`).

**`FlowProofs`, the verdicts** (from `VerdictsAssumption`: inbox and ring hold something).
`VerdictsTypeCorrect`, `VerdictsAreAlwaysSound`. Accounting is an equation while memory
is ample and an inequality otherwise, since the code does not count what it has no
memory for. It needs an order: rows come before waiting flows before flows to come
(`FlowsInOrder`), so a flow is in one place.
The cap needs that only the backend appends between its two critical sections
(`RoomIsKept`). The newest rows need the ring to mirror the end of an unbounded log
wherever its head is (`RingMirrorsLog`).

**`DialProofs`** (from `DialAssumption`: limits, addresses and attempts positive, a status
line longer than its first word, chains that are sequences of proxies and not empty,
`None` a value of its own). `BoundedThm`,
`TunnelThm`, `CleanThm` and `FailuresThm`, for chains of any length and of any kinds of
hops, where the run has two hops at most. `BoundedThm` needs only the client's part of the
invariant, which is inductive of itself: the limit is always `Timeout`, and a place in a
protocol fixes how many reads there have been. The other three are about the stream,
and what holds of it must not depend on where reads end and how arrivals are cut. So the
invariant speaks of `Stream`, the cells the present read has taken followed by those
that have arrived and those on their way, and says that it is one of four things: empty,
while the hop has not answered (`Asking`); a refusal, which the client will read as one
(`Refusing`); an agreement to go on (`Agreeing`); or the rest of a granting answer and
behind it only the destination's words, and those only at the last hop (`Granting`), with
the far end and the route already what was asked for. A step that moves cells leaves
`Stream` as it is; one that completes a read takes a known number of cells off its
front, and the lemmas say what is left (`GrantingReadsOn`, `GrantingEnds`). That no hop
before this one leaves headers behind (`Clean`) is a hypothesis throughout, as in the
properties: behind an HTTP hop nothing of the sort holds (`Dial!TunnelIsWhole`,
section 4).

**`CheckerProofs`** (from `CheckerAssumption`: at least one hop; memory may fail or
not). `CheckerTypeCorrect`, `PendingIsAlwaysTrue`, the action property
`BacklogIsAlwaysAbandoned`, and the refinement `CheckerKeepsItsPromise`. The
invariant is types, the exact count and `WorkerJoined`: a freed checker has no
worker left. The last is what the join in destroy buys, and the refinement needs
it: the promise allows no answer after the end. The mapping reads the questions
off two places, the job in the worker's hands followed by the queue, so taking a
job is a stutter and answering removes the front; the first four lemmas are the
facts about sequences this rests on, and `EnqueueAsks` says that one enqueue is one
question, also when it is one of a chain's.

**`LifecycleProofs`** (from `LifecycleAssumption`: finitely many relays and connections,
and `None` neither a relay nor a backend). `WinsockIsHeld` for every behaviour;
`NothingIsUsedAfterFree` and `NothingStaysStranded` under `~MayRetry`, as in the run:
where Start may be clicked again after a pump's thread could not be started, the
second relay takes the first one's place and both can fail (`LifecycleRetry.cfg`,
section 4). What exists depends on where the GUI thread is in its code, and that code
is a list which a click or a failure exchanges at many places. The proof therefore
begins with the lists: `Edge` says which step may follow which in a program with a
given last step (its goal), and every list the module builds is a `Program`. A step
done then leads to one of a few (`Follows`), a click or a failure to the first step of
a known program (`Turns`), and the invariants speak of `At` and `Goal` where the model
has a list. `CountInv` says which objects exist at each step and that `refs` is never
below the number of those who hold Winsock: main, the engine, each relay, a check and
a trace. `OrderInv` adds that the backend's relay is the only one and that every worker
is its own (`OneRelay`), what a start has made and a stop has taken down at each step
(`Progress`: no worker is left when the relay or its table is freed, and where a start
undoes itself no destination is registered that could bring one), that the pumps rest unless their
table and relay are there and the engine runs or has failed to start (`PumpsInv`), and
that no pump, acceptor or worker is calling the sink when the application goes
(`SinkInv`). TLC checked both invariants on the run's instance first.
Threads are one case of the step lemma: they open and free nothing, and a new worker
needs a pending destination, which the failure paths of a start exclude.

**`TextProofs`, the rules** (from `RulesAssumption`: lists and texts are written in the alphabet,
specifications with numbers and marks, which are different things and the numbers
natural; ports are integers; `None` is none of these). `GlobsAreAlwaysMeant`,
`PortsAreAlwaysMeant` and, of both, `RulesAreAlwaysMeant`, for every list, text,
specification and port, of any length. For globs the question is why one place to come
back to is enough. `SearchInv` says that the elements since the last star are laid on
the text, and that from every smaller reach of that star the text cannot be matched,
which shows before the next one (`Attempt`, `Dead`). At the next star, what has been
reached is then the least position there is (`LeastReached`), and a star can wait for
every later one, so the stars before it may be forgotten. A segment given up is one
whose every way is dead (`AllDead`), and it hides no other. For ports, an entry the
validation accepts holds one number or two and no comma, the match asks for the range
between them, and both go on behind it (`Entry`); a number with a sign is a port only
if it is 0 (`PortRead`). The tables the two functions fill are functions defined by
recursion; that they exist, and are what their steps say, is proved (`Chain`,
`ValidIs`, `MatchedIs`, `RowsAre`). What the specification means, two numbers between
two commas, is found again at the end (`Stretch`). Specifications that do not validate
are outside the theorem, as they are outside the property.

**`TextProofs`, the configurations** (from `ConfigAssumption`: the ports on lines are
integers, there is room for an endpoint, `NoValue` is no tag, no section and no answer).
`ImportIsAlwaysFaithful`, for every file of lines of any mix, however long it is and
however its blocks nest, and for every number of endpoints there is room for. It speaks of
the client the file is sniffed to be for, and of OpenVPN files whose option names are in
the case OpenVPN knows (`SpeltRight`), as the property does: what the sniffing and the
names in other cases let through is in section 4. A file that is neither kind's is an
error without endpoints. The client decides line
by line whether an inline file that began on a line of configuration is still open; the
parser remembers one tag. `SkipInv` says that the two agree: the parser skips exactly
what is hidden (`Hidden`), and the tag it waits for is that of a line that hides. That
one tag is enough because behind a line that is not hidden only that line can hide
(`HiddenNext`), so two open inline files cannot both begin on configuration, and with the
end of the one nothing is hidden any more (`HiddenEnds`). What has been gathered is then
what the client reads in the lines so far: `DefaultInv` (the default port is the last one
configured), `SectionInv` (the section is the one opened last), `EndpointInv` (the
endpoints are the first remotes, and more of them than there is room for are admitted to),
`SaidInv` (no reason for a full tunnel and no key was passed over). The default port is
applied at the end, which is why the port of a remote is the last `port` of the whole file
(`PortIsRight`). A port that cannot be one, below 1 or beyond 16 bits, is outside the
theorem, as it is outside the property: the parser casts it.

That the first slot free, or the first match in a list, exists is an induction, and so
is what a text's every position says. The library's induction theorems take an
operator, which no backend can instantiate, but that strict inclusion of finite sets
is well-founded does not: the indices up to a given one are ordered by inclusion as
the indices are by size (`MinIsMember`, `FirstIndex`), and a claim about every index
follows from a first counterexample.

### What stays model-checked only

| Property | Why |
|---|---|
| `LabelFollowsThePath`, `EditsReachTheAllowlist`, `EveryCheckIsDone`, `DestroyReturns`, `EditsTakeEffect`, `EndsAreNoticed`, `MainReturns` | liveness: needs ENABLED, which TLAPS does not handle |

No module uses recursive operators.

## 6. The plan

1. *(done)* Kill switch, watcher, table, redirection, profile file, checker,
   verdicts: models, runs, mutants; proofs for the kill switch, the table and the
   checker (with its refinement).
2. *(done)* Profile contents, dial, VPN runner, lifecycle, rules, VPN
   configurations: models, runs, mutants.
3. *(done)* Proofs of the profile file and contents, the verdicts, the VPN runner,
   the redirection and the dial; refinements of `NatPromise` and `Hysteresis`.
4. *(done)* Proofs of `Lifecycle`, of `Rules` and of `VpnConfig`.
5. Left in the models: the panels' cache of check results, which is keyed by
   identifiers a reload hands out again; allocation failures inside a load.

## 7. What is not modelled, and why

Drawing, layout and wording (`gui_*`, panels beyond the clicks that reach the
engine, the profile or the runner). `pmx_json.c` and the byte level of parsing: a
line, a field or a character class is the smallest thing here. Process attribution
(`pmx_procinfo.c`) is a query to the system whose answer is the `app` of a flow. The
statistics of a route trace are sums over replies that nothing reads back; only its
thread and its cancellation are modelled. The bytes of an established tunnel, UDP,
IPv6 and checksums in the Windows backend, and the macOS backend, a scaffold without
behaviour. A loss of power (only the process dies). Cryptography (sealing succeeds or
fails). A firewall that refuses to let go: the only implementation in the repository
always does. `pmx_profile_validate` is called by the tests only.

The relay's mutex is not a state: what is done under it is one step, as `relay_reap`
joins only after it has given the mutex back. The early returns of checks and traces are
one step too. A port specification that does not validate is outside
`RulesMatchAsMeant`: what it should match is said nowhere.

Two hazards are known and have no property. `block_when_cannot_proxy` is copied into
the backend at Start, so a change of mode reaches it at the next Start: two
assignments, no order to explore. An allocation that fails inside a load ends a list
early and the load still succeeds: the loss lies between the file, which
`ProfileStore` keeps as one value, and the contents, which `Profile` loads whole.

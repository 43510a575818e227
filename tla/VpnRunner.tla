------------------------------ MODULE VpnRunner ------------------------------
(***************************************************************************)
(* The VPN runner (pmx_vpn_run.c), the child processes it drives           *)
(* (pmx_proc.c) and the tunnel panel that calls it (panel_vpn.c).          *)
(*                                                                         *)
(* A WireGuard tunnel is a system service that "wireguard.exe" installs    *)
(* and removes; an OpenVPN tunnel is a child process that lives behind an  *)
(* entry.  The runner tracks a few tunnels, polls the children once per    *)
(* frame, and asks the client whether the link is really up.  Everything   *)
(* but the clients themselves happens on the GUI thread, which a command   *)
(* (pmx_proc_run) blocks until the command ends or its time is up.         *)
(*                                                                         *)
(* Entry messages, the exit codes they quote and the paths of the clients  *)
(* are left out.  Tunnels are those pmx_vpn_validate accepts; the others   *)
(* never get as far as an entry.                                           *)
(***************************************************************************)
EXTENDS Integers, FiniteSets, FiniteSetsExt

CONSTANTS
  Ids,          \* identifiers of the tunnels of a profile
  Configs,      \* configuration files
  File,         \* the file each tunnel was imported from
  OpenVpn,      \* the configurations that are OpenVPN's, the others are WireGuard's
  Service,      \* name of a configuration's service: the base name of its file
  MaxTracked,   \* PMX_VPN_MAX_TRACKED
  PortBase,     \* PMX_OVPN_MGMT_BASE
  Pids,         \* child processes there can be at a time
  PipeSize,     \* bytes a pipe holds, in units of output
  MaxOutput,    \* output of a command, in the same units
  MaxTurns,     \* turns of 25 ms a command may take
  None

Slots    == 1..MaxTracked
Names    == {Service[c] : c \in Configs}
Kinds    == {"wireguard", "openvpn"}

\* A child process, and a command the GUI thread waits for.
Processes == [config: OpenVpn, port: Nat, alive: BOOLEAN]
Commands  == [what: {"install", "uninstall", "show"}, id: Ids, slot: Slots, left: 0..MaxOutput,
              piped: 0..PipeSize, turn: 0..(MaxTurns - 1), hangs: BOOLEAN]

\* A command writes no more than its turns can read: on Windows, 4 KB pipes and
\* hundreds of turns.
ASSUME VpnAssumption ==
  /\ OpenVpn \subseteq Configs /\ File \in [Ids -> Configs]
  /\ IsFiniteSet(Ids) /\ IsFiniteSet(Pids)
  /\ {MaxTracked, PortBase, PipeSize, MaxTurns} \subseteq Nat \ {0} /\ MaxOutput \in Nat
  /\ MaxOutput <= PipeSize * MaxTurns
  /\ Pids \cap Names = {}
  /\ None \notin Ids \cup Configs \cup Pids \cup Names \cup Processes \cup Commands

VARIABLES
  profile,    \* tunnels the profile lists
  config,     \* the configuration behind an identifier
  elevated,   \* pmx_proc_is_elevated
  found,      \* kinds whose client is installed: detected anew on every frame
  entries,    \* runner.entries
  procs,      \* the operating system's processes: [config, port, alive] or None
  services,   \* its tunnel services: the configuration that runs under a name, or None
  run,        \* the command the GUI thread waits for, or None
  clicked,    \* this frame, begun by a poll, has acted on a click
  status      \* app.vpn_status with its id and validity; history: "from", the configuration
              \* of the client that answered, and "by", that client while it is there

runnerVars == <<entries, procs, run>>
worldVars  == <<profile, config, elevated, found>>
vpnVars    == <<worldVars, runnerVars, services, status, clicked>>

Kind(id) == IF config[id] \in OpenVpn THEN "openvpn" ELSE "wireguard"
Entries  == [used: BOOLEAN, id: Ids \cup {None}, state: {"down", "starting", "running", "failed"},
             name: Names \cup {None}, proc: Pids \cup {None}, port: Nat, stopping: BOOLEAN]
Unused   == [used |-> FALSE, id |-> None, state |-> "down", name |-> None, proc |-> None,
             port |-> 0, stopping |-> FALSE]
Statuses == [valid: BOOLEAN, id: Ids \cup {None}, from: Configs \cup {None},
             by: Pids \cup Names \cup {None}]
NoAnswer == [valid |-> FALSE, id |-> None, from |-> None, by |-> None]
Up       == {"starting", "running"}

\* The GUI thread acts on a click: not while it waits for a command, and once per
\* frame, which begins with a poll (pmx_engine_pump).
Click == run = None /\ ~clicked /\ clicked' = TRUE

-----------------------------------------------------------------------------
(* Entries.                                                                *)

Known(id) == {s \in Slots : entries[s].used /\ entries[s].id = id}

Finished == {s \in Slots : entries[s].proc = None /\ entries[s].state \in {"down", "failed"}}

\* The slots entry_for chooses the first of; a slot that is not the tunnel's own
\* is cleared.
Candidates(id) ==
  LET unused == {s \in Slots : ~entries[s].used}
  IN  CASE Known(id) # {} -> Known(id)
        [] Known(id) = {} /\ unused # {} -> unused
        [] OTHER -> Finished

EntryFor(id, s) == IF Known(id) # {} THEN entries[s] ELSE [Unused EXCEPT !.used = TRUE, !.id = id]

\* pmx_vpn_runner_state
Label(id) == IF Known(id) = {} THEN "down" ELSE entries[Min(Known(id))].state

\* The client behind a tunnel that has a slot: its service, or the child of its entry.
Client(id) == IF Kind(id) = "wireguard" THEN Service[config[id]] ELSE entries[Min(Known(id))].proc

\* A child that is freed, or a service that is removed, is nobody's client any more:
\* the cached answer stays what it is.
Gone(clients) == status' = [status EXCEPT !.by = IF @ \in clients THEN None ELSE @]

\* pmx_proc_free: kills the process if it still runs.
Freed(p) == [q \in Pids |-> IF q = p THEN None ELSE procs[q]]

VpnInit ==
  /\ profile = Ids /\ config = File
  /\ elevated \in BOOLEAN /\ found \in SUBSET Kinds
  /\ entries = [s \in Slots |-> Unused]
  /\ procs = [p \in Pids |-> None]
  /\ services = [n \in Names |-> None]
  /\ run = None /\ clicked = FALSE
  /\ status = NoAnswer

-----------------------------------------------------------------------------
(* Commands: pmx_proc_run.  A command has some output left to write, or    *)
(* hangs after writing it.                                                 *)

Start(what, id, s) ==
  \E n \in 0..MaxOutput, hangs \in BOOLEAN :
     run' = [what |-> what, id |-> id, slot |-> s, left |-> n, piped |-> 0, turn |-> 0,
             hangs |-> hangs]

\* drain_pipe: what does not fit the capture buffer is read and discarded.
Drained_UntilFull == IF run.turn = 0 THEN 0 ELSE run.piped
Drained == 0

\* What a command wrote by the end of a turn, after the pipe was drained.
Wrote == LET room == PipeSize - Drained IN IF run.left < room THEN run.left ELSE room

\* How a command ends: "ok" (exit code 0), "failed", or "killed" at its time limit.
Endings ==
  CASE run.left = Wrote /\ ~run.hangs -> {"ok", "failed"}
    [] OTHER -> IF run.turn + 1 >= MaxTurns THEN {"killed"} ELSE {}

Turn ==
  /\ run # None /\ Endings = {}
  /\ run' = [run EXCEPT !.left = @ - Wrote, !.piped = Drained + Wrote, !.turn = @ + 1]
  /\ UNCHANGED <<worldVars, entries, procs, services, status, clicked>>

\* wireguard.exe /installtunnelservice: it fails on a name that is taken; a killed
\* one may or may not have got as far as installing.
InstallEnds ==
  /\ run # None /\ run.what = "install"
  /\ \E end \in Endings :
       LET e == entries[run.slot]
           did == services[e.name] = None /\ end \in {"ok", "killed"}
       IN /\ end = "ok" => services[e.name] = None
          /\ \/ did /\ services' = [services EXCEPT ![e.name] = config[run.id]]
             \/ end # "ok" /\ UNCHANGED services
          /\ entries' = [entries EXCEPT ![run.slot].state = IF end = "ok" THEN "running" ELSE "failed"]
  /\ run' = None
  /\ UNCHANGED <<worldVars, procs, status, clicked>>

\* /uninstalltunnelservice: how it ended is not looked at.
UninstallEnds ==
  /\ run # None /\ run.what = "uninstall"
  /\ \E end \in Endings :
       LET name == entries[run.slot].name IN
       \/ end # "failed" /\ services' = [services EXCEPT ![name] = None] /\ Gone({name})
       \/ end # "ok" /\ UNCHANGED <<services, status>>
  /\ entries' = [entries EXCEPT ![run.slot].state = "down"]
  /\ run' = None
  /\ UNCHANGED <<worldVars, procs, clicked>>

\* wg.exe show: it answers for the service of that name.
ShowEnds ==
  /\ run # None /\ run.what = "show"
  /\ \E end \in Endings :
       LET name == entries[run.slot].name
           from == IF end = "ok" THEN services[name] ELSE None
       IN  status' = [status EXCEPT !.from = from, !.by = IF from = None THEN None ELSE name]
  /\ run' = None
  /\ UNCHANGED <<worldVars, entries, procs, services, clicked>>

-----------------------------------------------------------------------------
(* Connect and Disconnect.                                                 *)

\* pmx_vpn_up, WireGuard.
Install(id) ==
  /\ Kind(id) = "wireguard" /\ Candidates(id) # {}
  /\ LET s == Min(Candidates(id))
         e == [EntryFor(id, s) EXCEPT !.stopping = FALSE]
     IN IF ~elevated
          THEN entries' = [entries EXCEPT ![s] = [e EXCEPT !.state = "failed"]] /\ UNCHANGED run
          ELSE /\ entries' = [entries EXCEPT ![s] = [e EXCEPT !.state = "starting",
                                                              !.name = Service[config[id]]]]
               /\ Start("install", id, s)
  /\ UNCHANGED <<procs, status>>

\* pmx_vpn_up, OpenVPN: the old child is freed before another is spawned.
Spawn_NoFree(id) ==
  /\ Kind(id) = "openvpn" /\ Candidates(id) # {}
  /\ LET s == Min(Candidates(id))
         e == [EntryFor(id, s) EXCEPT !.stopping = FALSE, !.port = PortBase]
     IN \/ /\ entries' = [entries EXCEPT ![s] = [e EXCEPT !.state = "failed", !.proc = None]]
           /\ procs' = Freed(e.proc)
        \/ \E p \in Pids :
             /\ procs[p] = None
             /\ procs' = [procs EXCEPT ![p] = [config |-> config[id], port |-> e.port, alive |-> TRUE]]
             /\ entries' = [entries EXCEPT ![s] = [e EXCEPT !.state = "starting", !.proc = p]]
  /\ UNCHANGED <<run, status>>
Spawn(id) ==
  /\ Kind(id) = "openvpn" /\ Candidates(id) # {}
  /\ LET s == Min(Candidates(id))
         f == EntryFor(id, s)
         e == [f EXCEPT !.stopping = FALSE, !.port = IF f.port = 0 THEN PortBase + s - 1 ELSE f.port]
         free == Freed(e.proc)
     IN /\ \/ /\ entries' = [entries EXCEPT ![s] = [e EXCEPT !.state = "failed", !.proc = None]]
              /\ procs' = free
           \/ \E p \in Pids :
                /\ free[p] = None
                /\ procs' = [free EXCEPT ![p] = [config |-> config[id], port |-> e.port, alive |-> TRUE]]
                /\ entries' = [entries EXCEPT ![s] = [e EXCEPT !.state = "starting", !.proc = p]]
        /\ Gone({e.proc})
  /\ UNCHANGED run

\* The Connect button, drawn for a tunnel that is neither starting nor running.
\* Without the client, or without a slot, nothing changes.
Connect(id) ==
  /\ Click /\ id \in profile /\ Label(id) \notin Up /\ Kind(id) \in found
  /\ Install(id) \/ Spawn(id)
  /\ UNCHANGED <<worldVars, services>>

\* pmx_vpn_down, WireGuard: the entry keeps its name once it has one.
Uninstall(id, s) ==
  LET e == entries[s] IN
  /\ entries' = [entries EXCEPT ![s].stopping = TRUE,
                   ![s].name = IF "wireguard" \in found /\ e.name = None THEN Service[config[id]] ELSE e.name]
  /\ IF "wireguard" \in found THEN Start("uninstall", id, s) ELSE UNCHANGED run
  /\ UNCHANGED <<procs, status>>

\* pmx_vpn_down, OpenVPN: no client is needed to end a child.
Stop_KeepChild(id, s) ==
  /\ entries' = [entries EXCEPT ![s].stopping = TRUE, ![s].state = "down"]
  /\ UNCHANGED <<procs, run, status>>
Stop(id, s) ==
  /\ entries' = [entries EXCEPT ![s].stopping = TRUE, ![s].state = "down", ![s].proc = None]
  /\ procs' = Freed(entries[s].proc)
  /\ Gone({entries[s].proc})
  /\ UNCHANGED run

\* The Disconnect button.
Disconnect(id) ==
  /\ Click /\ id \in profile /\ Label(id) \in Up
  /\ LET s == Min(Known(id))
     IN IF Kind(id) = "wireguard" THEN Uninstall(id, s) ELSE Stop(id, s)
  /\ UNCHANGED <<worldVars, services>>

-----------------------------------------------------------------------------
(* The poll, once per frame: a child that ended on its own.                *)

Exited_WhileStarting(e) ==
  e.used /\ e.proc # None /\ ~procs[e.proc].alive /\ e.state = "starting"
Exited(e) == e.used /\ e.proc # None /\ ~procs[e.proc].alive

Polled(e) ==
  CASE Exited(e) -> [e EXCEPT !.proc = None, !.state = IF e.stopping THEN "down" ELSE "failed"]
    [] e.proc # None /\ ~Exited(e) /\ e.state = "starting" -> [e EXCEPT !.state = "running"]
    [] OTHER -> e

Poll ==
  /\ run = None /\ clicked' = FALSE
  /\ entries' = [s \in Slots |-> Polled(entries[s])]
  /\ procs' = [p \in Pids |-> IF \E s \in Slots : Exited(entries[s]) /\ entries[s].proc = p
                                THEN None ELSE procs[p]]
  /\ Gone({entries[s].proc : s \in {t \in Slots : Exited(entries[t])}})
  /\ UNCHANGED <<worldVars, services, run>>

-----------------------------------------------------------------------------
(* The panel's pill: "handshake verified" is asked for at most every five  *)
(* seconds and for the tunnel it was asked for.                            *)

Stale_ByTimeOnly(id) == ~status.valid
Stale(id) == ~status.valid \/ status.id # id

\* Whoever answers on an entry's management port.
Answering(port) == {p \in Pids : procs[p] # None /\ procs[p].alive /\ procs[p].port = port}

Ask(id) ==
  /\ Click /\ id \in profile /\ Label(id) = "running" /\ Stale(id)
  /\ LET s == Min(Known(id)) IN
     IF Kind(id) = "wireguard" /\ "wireguard" \in found
     THEN /\ entries' = [entries EXCEPT ![s].name = IF @ = None THEN Service[config[id]] ELSE @]
          /\ status' = [NoAnswer EXCEPT !.valid = TRUE, !.id = id]
          /\ Start("show", id, s)
     ELSE /\ \/ status' = [NoAnswer EXCEPT !.valid = TRUE, !.id = id]
             \/ \E p \in Answering(entries[s].port) :
                  /\ Kind(id) = "openvpn"
                  /\ status' = [valid |-> TRUE, id |-> id, from |-> procs[p].config, by |-> p]
          /\ UNCHANGED <<entries, run>>
  /\ UNCHANGED <<worldVars, procs, services>>

\* Five seconds pass, or Refresh is clicked.
Expire ==
  /\ Click /\ status.valid
  /\ status' = NoAnswer
  /\ UNCHANGED <<worldVars, runnerVars, services>>

-----------------------------------------------------------------------------
(* The world.                                                              *)

\* A child ends on its own: it fails to start up, or loses its server for good.
ChildExits ==
  \E p \in Pids :
    /\ procs[p] # None /\ procs[p].alive
    /\ procs' = [procs EXCEPT ![p].alive = FALSE]
    /\ UNCHANGED <<worldVars, entries, run, services, status, clicked>>

\* A client is installed or removed, or its override path edited.
ClientsChange ==
  /\ Click
  /\ found' \in SUBSET Kinds /\ found' # found
  /\ UNCHANGED <<profile, config, elevated, runnerVars, services, status>>

\* Remove tunnel: the runner is not told.
RemoveTunnel(id) ==
  /\ Click /\ id \in profile
  /\ profile' = profile \ {id}
  /\ UNCHANGED <<config, elevated, found, runnerVars, services, status>>

\* The program is closed and opened again: pmx_vpn_runner_destroy ends the children,
\* a new runner knows nothing of the services.
Reopen ==
  /\ Click
  /\ procs' = [p \in Pids |-> IF \E s \in Slots : entries[s].proc = p THEN None ELSE procs[p]]
  /\ entries' = [s \in Slots |-> Unused]
  /\ elevated' \in BOOLEAN
  /\ status' = NoAnswer
  /\ UNCHANGED <<profile, config, found, run, services>>

CommandEnds == InstallEnds \/ UninstallEnds \/ ShowEnds

VpnNext ==
  \/ \E id \in Ids : Connect(id) \/ Disconnect(id) \/ Ask(id) \/ RemoveTunnel(id)
  \/ Poll \/ Expire \/ Turn \/ CommandEnds \/ ChildExits \/ ClientsChange \/ Reopen

VpnSpec == VpnInit /\ [][VpnNext]_vpnVars

\* The GUI thread draws a frame again and again, and a command it waits for ends
\* within its limit.
FairVpnSpec == VpnSpec /\ WF_vpnVars(Poll) /\ WF_vpnVars(Turn) /\ WF_vpnVars(CommandEnds)

-----------------------------------------------------------------------------
VpnTypeOK ==
  /\ profile \subseteq Ids /\ config \in [Ids -> Configs]
  /\ elevated \in BOOLEAN /\ found \subseteq Kinds
  /\ entries \in [Slots -> Entries]
  /\ procs \in [Pids -> Processes \cup {None}]
  /\ services \in [Names -> Configs \cup {None}]
  /\ run \in Commands \cup {None} /\ clicked \in BOOLEAN
  /\ status \in Statuses

\* A label says what is so, as far as the runner can know: an OpenVPN tunnel has a
\* child if, and only if, it is starting or running, and a running WireGuard tunnel
\* has its own service installed, not another's of the same name (the header of
\* pmx_vpn_run.c).  Of a WireGuard tunnel labelled down or failed nothing is said:
\* see DownMeansRemoved.
LabelsAreTrue ==
  \A s \in Slots :
    LET e == entries[s] IN
    e.used =>
      IF Kind(e.id) = "openvpn"
        THEN (e.proc # None <=> e.state \in Up) /\ (e.proc # None => procs[e.proc] # None)
        ELSE e.proc = None /\ (e.state = "running" => services[e.name] = config[e.id])

\* Every client process that lives is in the hands of exactly one entry, that of the
\* tunnel it was started for, and no two of them share a management port: nothing
\* is started twice, forgotten in a slot that is handed on, or left unkillable.
ClientsAreTracked ==
  /\ \A p \in Pids : procs[p] # None =>
       \E s \in Slots :
         /\ entries[s].used /\ entries[s].proc = p /\ entries[s].port = procs[p].port
         /\ config[entries[s].id] = procs[p].config
         /\ \A t \in Slots \ {s} : entries[t].proc # p
  /\ \A p, q \in Pids :
       (p # q /\ procs[p] # None /\ procs[q] # None) => procs[p].port # procs[q].port

\* "Handshake verified" is said of a running tunnel on the word of a client of its own
\* configuration, and never on that of another client that is there: the one that gave
\* the cached answer is the tunnel's own, or was stopped or ended since, whatever was
\* selected, stopped, restarted or recycled.  That it may be one of before a restart
\* is AnswerIsCurrent.
StatusIsOwn ==
  \A id \in Ids : (Label(id) = "running" /\ ~Stale(id)) =>
    status.from \in {None, config[id]} /\ status.by \in {None, Client(id)}

\* A command is killed at its time limit only when it hangs: one that merely writes
\* more than a pipe holds is not cut off in the middle of an installation.
CommandsAreNotCutShort == (run # None /\ "killed" \in Endings) => run.hangs

\* A client that ends on its own is noticed: its tunnel does not stay starting or
\* running.
EndsAreNoticed ==
  \A p \in Pids : (procs[p] # None /\ ~procs[p].alive) ~> (procs[p] = None \/ procs[p].alive)

-----------------------------------------------------------------------------
(* What does not hold; see the README.                                     *)

\* "tunnel service removed" (pmx_vpn_down's message): a WireGuard tunnel that was
\* disconnected has no service of its configuration left.
DownMeansRemoved ==
  \A s \in Slots : (entries[s].used /\ entries[s].state = "down" /\ entries[s].name # None)
                     => services[entries[s].name] # config[entries[s].id]

\* "Handshake verified" of a running tunnel is the word of the client it has now: the
\* panel keeps an answer for five seconds, across a stop and a start of the tunnel.
AnswerIsCurrent ==
  \A id \in Ids : (Label(id) = "running" /\ ~Stale(id) /\ status.from # None) => status.by = Client(id)

\* The panel shows "exactly what Connect runs": a child listens on the port of the
\* command that is shown, 25340.
CommandShownIsRun == \A p \in Pids : procs[p] # None => procs[p].port = PortBase

\* A tunnel that is up can be brought down from the panel.
UpIsListed == \A s \in Slots : (entries[s].used /\ entries[s].state \in Up) => entries[s].id \in profile

\* An identifier of an import that was never saved names another configuration after
\* the profile is reloaded.
Reimport(id) ==
  /\ Click
  /\ \E c \in Configs \ {config[i] : i \in Ids} : config' = [config EXCEPT ![id] = c]
  /\ UNCHANGED <<profile, elevated, found, runnerVars, services, status>>
ReloadVpnSpec == VpnInit /\ [][VpnNext \/ \E id \in Ids : Reimport(id)]_vpnVars
=============================================================================

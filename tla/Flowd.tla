------------------------------- MODULE Flowd -------------------------------
(***************************************************************************)
(* The flowd worker process (src/flowd.c): the signal handlers and their  *)
(* four flags, flowd_mainloop with its poll() over the monitor descriptor *)
(* and the listening sockets, start_log, process_input with the decoders  *)
(* and process_flow, and main() as the restart of the process.  Around it *)
(* the environment: exporters sending datagrams, signals, the privileged  *)
(* monitor (which may exit), the administrator who edits the              *)
(* configuration and rotates the log file, and the log files themselves,  *)
(* which survive the process.                                              *)
(*                                                                         *)
(* The loop is single-threaded; each action below is one stretch of it    *)
(* between two points at which a signal handler may run.  A handler runs  *)
(* to completion, so a signal is one atomic action that may fall between  *)
(* any two loop steps.                                                     *)
(***************************************************************************)
EXTENDS PeerRegistry, NetflowDecode

CONSTANTS
    Socks,        \* listening sockets, numbered in listen_addrs order
    Dgrams,       \* datagrams exporters send: [src, version, nflows, size]
    MaxQueue,     \* datagrams a socket buffer holds (kernel drops beyond)
    MaxSent,      \* bound on datagrams sent in a behaviour
    MaxSignals,   \* bound on signals delivered in a behaviour
    MaxGen,       \* bound on log files created by rotation
    MaxCfg,       \* bound on configuration edits
    MaxRestarts   \* bound on restarts of the daemon

ASSUME FlowdAssumption ==
    /\ Socks \subseteq Nat \ {0} /\ Socks # {}
    /\ Dgrams \subseteq [src : Addr, version : Nat, nflows : Nat, size : Nat]
    /\ \A d \in Dgrams : d.nflows <= MaxFlows(5)
    /\ MaxQueue \in Nat \ {0}
    /\ {MaxSent, MaxSignals, MaxRestarts} \subseteq Nat
    /\ {MaxGen, MaxCfg} \subseteq Nat \ {0}

(* Signals and the signal numbers exit_flag records.                      *)
Signals == {"INT", "TERM", "HUP", "USR1", "USR2"}
SigNo == [s \in {"INT", "TERM"} |-> IF s = "INT" THEN 2 ELSE 15]

(* The log file as bytes, abstracted to what start_log and a reader tell  *)
(* apart: a complete header "H", a header cut short "h", a complete flow  *)
(* record "R" and a record cut short "r".                                  *)
Items == {"H", "h", "R", "r"}

(* Locations of the main loop.  "dead" is an exit through logerr/logerrx, *)
(* "done" the clean return from flowd_mainloop.                            *)
Locs == {"top", "reopen", "reconf", "reconf_clr", "startlog", "info", "poll",
         "inpoll", "sock", "done", "dead"}

VARIABLES
    pc,            \* where the worker is in flowd_mainloop
    exit_flag,     \* the four sig_atomic_t flags
    reconf_flag,
    reopen_flag,
    info_flag,
    logGen,        \* log_fd: 0 for -1, else the log file it refers to
    files,         \* contents of every log file ever created
    cur,           \* the file currently at the configured log path
    net,           \* datagrams queued on each listening socket
    revents,       \* sockets poll() reported readable, not yet processed
    monitorAlive,  \* the privileged monitor and monitor_fd are alive
    cfgFile,       \* the configuration file on disk: version and validity
    conf,          \* the version of the configuration the worker runs
    nsent, nsignals, restarts,  \* environment counters (bounds only)
    reopenWant,    \* history: the file at the log path at the last USR1/HUP
    reconfWant     \* history: the config version at the last HUP

loopVars == <<pc, exit_flag, reconf_flag, reopen_flag, info_flag, logGen,
              revents, conf, peers>>
envVars == <<files, cur, net, monitorAlive, cfgFile, nsent, nsignals,
             restarts, reopenWant, reconfWant>>
vars == <<loopVars, envVars>>

(* Fault model of init_pfd: the last listen address left out of pfd.     *)
PolledMissingLast == {s \in Socks : \E r \in Socks : s < r}

(* poll() set built by init_pfd: pfd[0] is monitor_fd, pfd[1..] one per    *)
(* listen address.                                                         *)
Polled == Socks

(* The process state main() sets up before flowd_mainloop: zeroed flags,   *)
(* empty registry, log_fd = -1, the configuration read from disk.          *)
ProcessStart ==
    /\ pc = "top"
    /\ exit_flag = 0 /\ reconf_flag = 0 /\ reopen_flag = 0 /\ info_flag = 0
    /\ logGen = 0
    /\ revents = {}
    /\ peers = EmptyRegistry

Init ==
    /\ ProcessStart
    /\ files = [g \in 1..MaxGen |-> <<>>]
    /\ cur = 1
    /\ net = [s \in Socks |-> <<>>]
    /\ monitorAlive = TRUE
    /\ cfgFile = [ver |-> 1, ok |-> TRUE]
    /\ conf = 1
    /\ nsent = 0 /\ nsignals = 0 /\ restarts = 0
    /\ reopenWant = 1 /\ reconfWant = 1

-----------------------------------------------------------------------------
(* The main loop, one action per stretch between signal points.           *)

(* for (; exit_flag == 0;)                                                 *)
LoopTest ==
    /\ pc = "top"
    /\ pc' = IF exit_flag = 0 THEN "reopen" ELSE "done"
    /\ UNCHANGED <<exit_flag, reconf_flag, reopen_flag, info_flag, logGen,
                   revents, conf, peers, envVars>>

(* Fault model of the reopen check: the flag cleared, the fd not closed.  *)
ReopenCheckNoClose ==
    /\ pc = "reopen"
    /\ pc' = "reconf"
    /\ reopen_flag' = IF logGen # 0 THEN 0 ELSE reopen_flag
    /\ UNCHANGED <<exit_flag, reconf_flag, info_flag, logGen, revents, conf,
                   peers, envVars>>

(* if (reopen_flag && log_fd != -1) { close(log_fd); log_fd = -1;         *)
(* reopen_flag = 0; }                                                      *)
ReopenCheck ==
    /\ pc = "reopen"
    /\ pc' = "reconf"
    /\ IF reopen_flag = 1 /\ logGen # 0
       THEN logGen' = 0 /\ reopen_flag' = 0
       ELSE UNCHANGED <<logGen, reopen_flag>>
    /\ UNCHANGED <<exit_flag, reconf_flag, info_flag, revents, conf, peers,
                   envVars>>

(* if (reconf_flag): client_reconfigure, which has the monitor re-read the *)
(* configuration file and fails (logerrx) when the monitor is gone or the  *)
(* file has errors; then init_pfd.  reconf_flag = 0 is the next step.      *)
ReconfCheck ==
    /\ pc = "reconf"
    /\ IF reconf_flag = 0
       THEN pc' = "startlog" /\ UNCHANGED conf
       ELSE IF monitorAlive /\ cfgFile.ok
            THEN pc' = "reconf_clr" /\ conf' = cfgFile.ver
            ELSE pc' = "dead" /\ UNCHANGED conf
    /\ UNCHANGED <<exit_flag, reconf_flag, reopen_flag, info_flag, logGen,
                   revents, peers, envVars>>

(* reconf_flag = 0, after client_reconfigure and init_pfd returned.       *)
ReconfClear ==
    /\ pc = "reconf_clr"
    /\ pc' = "startlog"
    /\ reconf_flag' = 0
    /\ UNCHANGED <<exit_flag, reopen_flag, info_flag, logGen, revents, conf,
                   peers, envVars>>

(* Fault model of start_log: every opened file taken for a new one.       *)
LogIsNewAlways(f) == TRUE

(* Fault model of start_log: the result of store_check_header ignored.    *)
HeaderValidUnchecked(f) == TRUE

(* start_log: lseek(fd, 0, SEEK_END) == 0, the file is new.               *)
LogIsNew(f) == Len(f) = 0

(* store_check_header: the file starts with a complete, valid header.    *)
HeaderValid(f) == f[1] = "H"

(* if (log_fd == -1) log_fd = start_log(monitor_fd): the monitor opens the *)
(* file at the log path (client_open_log, fatal if the monitor is gone);  *)
(* a new file gets the header at its end (store_put_header, fatal on a    *)
(* short write, which leaves a torn header), an existing one must start   *)
(* with a valid header (fatal otherwise) and is appended to.              *)
StartLog ==
    /\ pc = "startlog"
    /\ \/ /\ logGen # 0
          /\ pc' = "info" /\ UNCHANGED <<logGen, files>>
       \/ /\ logGen = 0 /\ ~monitorAlive
          /\ pc' = "dead" /\ UNCHANGED <<logGen, files>>
       \/ /\ logGen = 0 /\ monitorAlive /\ LogIsNew(files[cur])
          /\ \/ /\ files' = [files EXCEPT ![cur] = @ \o <<"H">>]
                /\ logGen' = cur /\ pc' = "info"
             \/ /\ files' = [files EXCEPT ![cur] = @ \o <<"h">>]
                /\ pc' = "dead" /\ UNCHANGED logGen
       \/ /\ logGen = 0 /\ monitorAlive /\ ~LogIsNew(files[cur])
          /\ UNCHANGED files
          /\ IF HeaderValid(files[cur])
             THEN logGen' = cur /\ pc' = "info"
             ELSE pc' = "dead" /\ UNCHANGED logGen
    /\ UNCHANGED <<exit_flag, reconf_flag, reopen_flag, info_flag, revents,
                   conf, peers, cur, net, monitorAlive, cfgFile, nsent,
                   nsignals, restarts, reopenWant, reconfWant>>

(* if (info_flag) { info_flag = 0; format_rule ...; dump_peers(peers); }  *)
(* The dump only writes to the log sink.                                   *)
InfoCheck ==
    /\ pc = "info"
    /\ pc' = "poll"
    /\ info_flag' = 0
    /\ UNCHANGED <<exit_flag, reconf_flag, reopen_flag, logGen, revents, conf,
                   peers, envVars>>

(* The call of poll(pfd, num_fds, INFTIM): from here on a signal makes it *)
(* return EINTR; a signal that came before this step does not.             *)
EnterPoll ==
    /\ pc = "poll"
    /\ pc' = "inpoll"
    /\ UNCHANGED <<exit_flag, reconf_flag, reopen_flag, info_flag, logGen,
                   revents, conf, peers, envVars>>

(* poll returns > 0: if pfd[0] (the monitor) has an event the loop breaks; *)
(* otherwise every listen socket with POLLIN is handled in order.         *)
PollReturn ==
    /\ pc = "inpoll"
    /\ \/ ~monitorAlive
       \/ \E s \in Polled : net[s] # <<>>
    /\ IF ~monitorAlive
       THEN pc' = "done" /\ UNCHANGED revents
       ELSE pc' = "sock" /\ revents' = {s \in Polled : net[s] # <<>>}
    /\ UNCHANGED <<exit_flag, reconf_flag, reopen_flag, info_flag, logGen,
                   conf, peers, envVars>>

(* The records process_flow appends for a valid packet: the filter accepts *)
(* some number acc of its flows (mixed address families cannot occur: the *)
(* v1, v5 and v7 decoders set both to AF_INET), store_put_flow writes one  *)
(* record each; a failed write leaves a torn record and exits (logerrx).   *)
Records(k) == [i \in 1..k |-> "R"]

(* process_input on socket s: recvfrom one datagram, find_peer or          *)
(* new_peer for its source, then the version switch and decoder: a short  *)
(* or malformed packet counts invalid, an unsupported version is only     *)
(* logged, a valid one is update_peer followed by process_flow for each    *)
(* record, into the current log_fd.                                        *)
ProcessInput(s) ==
    LET d   == Head(net[s])
        len == Received(d.size)
        v   == Verdict(len, d.version, d.nflows)
        rest == revents \ {s}
    IN
    /\ pc = "sock"
    /\ s \in revents
    /\ \A r \in revents : s <= r
    /\ net' = [net EXCEPT ![s] = Tail(@)]
    /\ revents' = rest
    /\ \E t1, t2 \in Times :
         LET P1 == IF FindPeer(peers, d.src) THEN peers
                   ELSE NewPeer(peers, d.src, t1)
         IN
         \/ /\ v \in {"short", "invalid"}
            /\ peers' = CountInvalid(P1, d.src)
            /\ UNCHANGED files
            /\ pc' = IF rest = {} THEN "top" ELSE "sock"
         \/ /\ v = "unsupported"
            /\ peers' = P1
            /\ UNCHANGED files
            /\ pc' = IF rest = {} THEN "top" ELSE "sock"
         \/ /\ v = "valid"
            /\ peers' = UpdatePeer(P1, d.src, d.nflows, d.version, t2)
            /\ \E acc \in 0..Len(FlowOffsets(d.version, d.nflows)) :
                 \/ /\ files' = [files EXCEPT ![logGen] = @ \o Records(acc)]
                    /\ pc' = IF rest = {} THEN "top" ELSE "sock"
                 \/ \E j \in 1..acc :
                    /\ files' = [files EXCEPT ![logGen] = @ \o Records(j - 1) \o <<"r">>]
                    /\ pc' = "dead"
    /\ UNCHANGED <<exit_flag, reconf_flag, reopen_flag, info_flag, logGen, conf,
                   cur, monitorAlive, cfgFile, nsent, nsignals, restarts,
                   reopenWant, reconfWant>>

Loop ==
    \/ LoopTest \/ ReopenCheck \/ ReconfCheck \/ ReconfClear \/ StartLog
    \/ InfoCheck \/ EnterPoll \/ PollReturn \/ \E s \in Socks : ProcessInput(s)

-----------------------------------------------------------------------------
(* The environment.                                                        *)

(* A signal handler: sighand_exit, sighand_reconf, sighand_reopen or       *)
(* sighand_info sets its flags.  Delivered while the worker sleeps in     *)
(* poll, it makes poll fail with EINTR and the loop `continue`s.           *)
Signal(sig) ==
    /\ nsignals < MaxSignals
    /\ pc \notin {"done", "dead"}
    /\ nsignals' = nsignals + 1
    /\ exit_flag' = IF sig \in {"INT", "TERM"} THEN SigNo[sig] ELSE exit_flag
    /\ reconf_flag' = IF sig = "HUP" THEN 1 ELSE reconf_flag
    /\ reopen_flag' = IF sig \in {"HUP", "USR1"} THEN 1 ELSE reopen_flag
    /\ info_flag' = IF sig = "USR2" THEN 1 ELSE info_flag
    /\ reopenWant' = IF sig \in {"HUP", "USR1"} THEN cur ELSE reopenWant
    /\ reconfWant' = IF sig = "HUP" THEN cfgFile.ver ELSE reconfWant
    /\ pc' = IF pc = "inpoll" THEN "top" ELSE pc
    /\ UNCHANGED <<logGen, revents, conf, peers, files, cur, net, monitorAlive,
                   cfgFile, nsent, restarts>>

(* An exporter's datagram arrives on socket s (the kernel drops it when   *)
(* the socket buffer is full, which is the guard on MaxQueue).            *)
Send(s, d) ==
    /\ nsent < MaxSent
    /\ Len(net[s]) < MaxQueue
    /\ net' = [net EXCEPT ![s] = Append(@, d)]
    /\ nsent' = nsent + 1
    /\ UNCHANGED <<loopVars, files, cur, monitorAlive, cfgFile, nsignals,
                   restarts, reopenWant, reconfWant>>

(* The log file is renamed away; the next open creates a new one.         *)
Rotate ==
    /\ cur < MaxGen
    /\ cur' = cur + 1
    /\ UNCHANGED <<loopVars, files, net, monitorAlive, cfgFile, nsent,
                   nsignals, restarts, reopenWant, reconfWant>>

(* The configuration file is edited; the result may not parse.           *)
EditConfig ==
    /\ cfgFile.ver < MaxCfg
    /\ \E ok \in BOOLEAN : cfgFile' = [ver |-> cfgFile.ver + 1, ok |-> ok]
    /\ UNCHANGED <<loopVars, files, cur, net, monitorAlive, nsent, nsignals,
                   restarts, reopenWant, reconfWant>>

(* The privileged monitor exits: monitor_fd becomes readable (closed).    *)
MonitorExit ==
    /\ monitorAlive
    /\ pc \notin {"done", "dead"}
    /\ monitorAlive' = FALSE
    /\ UNCHANGED <<loopVars, files, cur, net, cfgFile, nsent, nsignals,
                   restarts, reopenWant, reconfWant>>

(* The daemon is started again after it exited: main() reads the          *)
(* configuration (fatal if it has errors), binds the listeners, starts    *)
(* the monitor and enters flowd_mainloop with fresh state.  Datagrams     *)
(* queued on the old sockets are lost with them.                           *)
Restart ==
    /\ pc \in {"done", "dead"}
    /\ restarts < MaxRestarts
    /\ restarts' = restarts + 1
    /\ net' = [s \in Socks |-> <<>>]
    /\ monitorAlive' = cfgFile.ok
    /\ IF cfgFile.ok
       THEN /\ pc' = "top" /\ revents' = {} /\ logGen' = 0
            /\ exit_flag' = 0 /\ reconf_flag' = 0 /\ reopen_flag' = 0
            /\ info_flag' = 0 /\ peers' = EmptyRegistry /\ conf' = cfgFile.ver
       ELSE pc' = "dead" /\ UNCHANGED <<exit_flag, reconf_flag, reopen_flag,
                                       info_flag, logGen, revents, conf, peers>>
    /\ UNCHANGED <<files, cur, cfgFile, nsent, nsignals, reopenWant, reconfWant>>

Env ==
    \/ \E sig \in Signals : Signal(sig)
    \/ \E s \in Socks, d \in Dgrams : Send(s, d)
    \/ Rotate \/ EditConfig \/ MonitorExit \/ Restart

Next == Loop \/ Env

(* The worker runs whenever it can: it is the only thread of the process. *)
(* Nothing obliges exporters, signals or the administrator to act.         *)
Spec == Init /\ [][Next]_vars /\ WF_vars(Loop)

-----------------------------------------------------------------------------
TypeOK ==
    /\ pc \in Locs
    /\ exit_flag \in {0, 2, 15}
    /\ {reconf_flag, reopen_flag, info_flag} \subseteq {0, 1}
    /\ logGen \in 0..MaxGen
    /\ files \in [1..MaxGen -> Seq(Items)]
    /\ cur \in 1..MaxGen
    /\ net \in [Socks -> Seq(Dgrams)]
    /\ revents \subseteq Socks
    /\ monitorAlive \in BOOLEAN
    /\ cfgFile \in [ver : 1..MaxCfg, ok : BOOLEAN]
    /\ conf \in 1..MaxCfg
    /\ peers \in Registry
    /\ {nsent, nsignals, restarts} \subseteq Nat
    /\ reopenWant \in 1..MaxGen /\ reconfWant \in 1..MaxCfg

(* Every log file, whatever reopens, reconfigurations, rotations and      *)
(* restarts happened, is empty or holds exactly one header, at its start, *)
(* followed by flow records only: start_log never writes a second header  *)
(* into a file it reopens (spec: two reopens give one header verification *)
(* and no second header write).  A header cut short by a failed           *)
(* store_put_header is the last thing in its file: store_check_header     *)
(* refuses that file on every later start, so no record is ever logged    *)
(* after a torn header.                                                    *)
HeaderOnlyAtStart ==
    \A g \in 1..MaxGen :
        files[g] # <<>> =>
            /\ files[g][1] \in {"H", "h"}
            /\ \A i \in 2..Len(files[g]) : files[g][i] \in {"R", "r"}
            /\ files[g][1] = "h" => Len(files[g]) = 1

(* While the worker handles datagrams, log_fd is open on a file that      *)
(* starts with a complete header: process_flow never writes to fd -1 nor  *)
(* into a file whose header start_log did not write or verify.            *)
LogReadyWhileReceiving ==
    pc = "sock" => logGen # 0 /\ files[logGen] # <<>> /\ files[logGen][1] = "H"

(* A reopen request (USR1 or HUP) is never forgotten: once reopen_flag is *)
(* clear and the worker is past start_log, log_fd refers to the file that *)
(* was at the log path when the last request was made, or a newer one.    *)
(* This is what makes log rotation (rename, then USR1) safe.               *)
ReopenHonoured ==
    (reopen_flag = 0 /\ pc \in {"info", "poll", "inpoll", "sock"})
        => logGen >= reopenWant

(* A reconfiguration request (HUP) is never forgotten: once reconf_flag is *)
(* clear and the worker is past the reconfiguration, it runs a            *)
(* configuration at least as new as the file was at the last HUP.         *)
ReconfHonoured ==
    (reconf_flag = 0 /\ pc \in {"startlog", "info", "poll", "inpoll", "sock"})
        => conf >= reconfWant

(* A record cut short by a failed write is the last thing in its file:    *)
(* nothing is ever appended after a torn header or torn record, so a     *)
(* reader of the log meets only whole records (the log layout is stable   *)
(* across restarts).                                                       *)
TornTailNeverExtended ==
    \A g \in 1..MaxGen : \A i \in 1..Len(files[g]) - 1 : files[g][i] \notin {"h", "r"}

(* A datagram waiting on a listening socket is eventually received, unless *)
(* the worker exits: poll watches every listen socket and the loop reads  *)
(* one datagram from each readable socket per wake-up.                     *)
DatagramEventuallyHandled ==
    \A s \in Socks : \A k \in 1..MaxQueue :
        (Len(net[s]) = k) ~> (Len(net[s]) < k \/ pc \in {"done", "dead"})

(* An exit signal (INT or TERM) makes the worker leave its loop: the spec *)
(* says exit terminates the loop after the current iteration.             *)
ExitHonoured == (exit_flag # 0) ~> (pc \in {"done", "dead"})
=============================================================================

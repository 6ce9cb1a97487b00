------------------------------ MODULE Instances ------------------------------
(***************************************************************************)
(* Several IDA processes on one machine: the plugin's run and term         *)
(* (ida_mcp_loader.py), start_server, stop_server and close_instance       *)
(* (server.py), McpServer.serve and stop (mcp.py) and the registration     *)
(* files of discovery.py.  A file is named after the port and tells the    *)
(* process that wrote it last and, here, at which of its starts.  Writing  *)
(* and removing one may fail, which the code swallows.  A process is       *)
(* started once; one that crashes leaves its file behind.                  *)
(***************************************************************************)
EXTENDS Naturals, FiniteSets

CONSTANTS
    Procs,      \* IDA processes
    Ports,
    MaxStarts,  \* bound: how often one process starts its server
    None

ASSUME InstancesAssumption ==
    /\ MaxStarts \in Nat
    /\ None \notin Procs \union Ports

VARIABLES
    port,       \* each plugin's port
    alive,      \* processes that exist
    running,    \* those whose MCP_SERVER._running is set
    own,        \* each process's _OWN_PORT
    listener,   \* the process that has a port bound, or None
    file,       \* what is in instance_<port>.json: pid and start
    at,         \* where each IDA main thread is
    todo,       \* ports whose files a scan has still to read
    seen,       \* the port and the registration a scan has just read
    starts,     \* how often each process has started its server
    cut,        \* processes whose stop was interrupted half-way, or whose
                \* serving ended by itself
    failed,     \* those whose file was not written or not removed
    robbed      \* those whose registration another process removed

vars == <<port, alive, running, own, listener, file, at, todo, seen, starts, cut, failed, robbed>>

(* No registration, or none that could be read. *)
NoFile == [pid |-> None, start |-> 0]

Init ==
    /\ port \in [Procs -> Ports]
    /\ alive = Procs /\ running = {}
    /\ own = [p \in Procs |-> None]
    /\ listener = [n \in Ports |-> None]
    /\ file = [n \in Ports |-> NoFile]
    /\ at = [p \in Procs |-> "idle"]
    /\ todo = [p \in Procs |-> {}]
    /\ seen = [p \in Procs |-> [port |-> None, reg |-> NoFile]]
    /\ starts = [p \in Procs |-> 0]
    /\ cut = {} /\ failed = {} /\ robbed = {}

Goto(p, where) == at' = [at EXCEPT ![p] = where]

AtIdle(p) == p \in alive /\ at[p] = "idle"

scan == <<todo, seen>>

(* A registration that a running server wrote at its last start. *)
Current(reg) == reg.pid \in running /\ reg.start = starts[reg.pid]

(***************************************************************************)
(* run: the server is started when it is not running.  The bind fails when *)
(* somebody has the port; nothing is left behind then.                     *)
(***************************************************************************)
Serve(p) ==
    /\ AtIdle(p) /\ p \notin running
    /\ starts[p] < MaxStarts
    /\ listener[port[p]] = None
    /\ listener' = [listener EXCEPT ![port[p]] = p]
    /\ running' = running \union {p}
    /\ own' = [own EXCEPT ![p] = port[p]]
    /\ starts' = [starts EXCEPT ![p] = @ + 1]
    /\ cut' = cut \ {p} /\ failed' = failed \ {p} /\ robbed' = robbed \ {p}
    /\ Goto(p, "register")
    /\ UNCHANGED <<port, alive, file, scan>>

(* A registration that fails is reported in IDA, and the server goes on.   *)
Register(p) ==
    /\ p \in alive /\ at[p] = "register"
    /\ \/ /\ file' = [file EXCEPT ![port[p]] = [pid |-> p, start |-> starts[p]]]
          /\ UNCHANGED failed
       \/ failed' = failed \union {p} /\ UNCHANGED file
    /\ Goto(p, "idle")
    /\ UNCHANGED <<port, alive, running, own, listener, scan, starts, cut, robbed>>

(* serve_forever ends by an exception: `_running` is cleared, the socket   *)
(* stays bound, and `stop` will not close it any more.                     *)
ServingEnds(p) ==
    /\ p \in running
    /\ running' = running \ {p}
    /\ cut' = cut \union {p}
    /\ UNCHANGED <<port, alive, own, listener, file, at, scan, starts, failed, robbed>>

(***************************************************************************)
(* stop_server: `stop` closes the socket of a running server, and the file *)
(* of the port is removed in any case.  run calls it while `_running` is   *)
(* set, close_instance for its own port, term always.                      *)
(***************************************************************************)
(* Mutant: the socket is not closed. *)
ClosedNever(p) == listener

Closed(p) == [n \in Ports |-> IF listener[n] = p /\ p \in running THEN None ELSE listener[n]]

StopWith(p, next, left, ownPort) ==
    /\ AtIdle(p)
    /\ next = "unregister" => p \in running \/ own[p] # None
    /\ listener' = Closed(p)
    /\ running' = left
    /\ own' = [own EXCEPT ![p] = ownPort]
    /\ Goto(p, next)
    /\ UNCHANGED <<port, alive, file, scan, starts, cut, failed, robbed>>

(* Mutants: `_running`, or `_OWN_PORT`, is not reset. *)
StopKeepsRunning(p, next) == StopWith(p, next, running, None)
StopKeepsOwn(p, next) == StopWith(p, next, running \ {p}, own[p])

Stop(p, next) == StopWith(p, next, running \ {p}, None)

(* The file of port n goes, whoever wrote it, unless that fails.  The       *)
(* operating system closes what an exiting process left open.              *)
UnregisterPort(p, n) ==
    /\ p \in alive /\ at[p] \in {"unregister", "exit"}
    /\ \/ /\ file' = [file EXCEPT ![n] = NoFile]
          /\ failed' = failed \ {p}
          /\ robbed' = IF n = port[p] /\ Current(file[n]) THEN robbed \union {file[n].pid} ELSE robbed
       \/ failed' = failed \union {p} /\ UNCHANGED <<file, robbed>>
    /\ IF at[p] = "unregister" THEN UNCHANGED <<alive, listener>>
       ELSE /\ alive' = alive \ {p}
            /\ listener' = [m \in Ports |-> IF listener[m] = p THEN None ELSE listener[m]]
    /\ Goto(p, "idle")
    /\ UNCHANGED <<port, running, own, scan, starts, cut>>

(* Mutant: the file of the default port is removed. *)
UnregisterDefault(p) == UnregisterPort(p, CHOOSE n \in Ports : TRUE)

Unregister(p) == UnregisterPort(p, port[p])

(* close_instance is a tool: its time limit may strike inside `stop`, when *)
(* `_running` is cleared, before or after the socket is closed, or in      *)
(* `stop_server` after that, before the file is removed.                   *)
CloseInterrupted(p) ==
    /\ AtIdle(p) /\ p \in running
    /\ running' = running \ {p}
    /\ cut' = cut \union {p}
    /\ \/ UNCHANGED <<listener, own>>
       \/ listener' = Closed(p) /\ own' \in {own, [own EXCEPT ![p] = None]}
    /\ UNCHANGED <<port, alive, file, at, scan, starts, failed, robbed>>

Crash(p) ==
    /\ p \in alive
    /\ alive' = alive \ {p}
    /\ running' = running \ {p}
    /\ listener' = [n \in Ports |-> IF listener[n] = p THEN None ELSE listener[n]]
    /\ UNCHANGED <<port, own, file, at, scan, starts, cut, failed, robbed>>

(***************************************************************************)
(* discover_instances, for list_instances and get_instance_info: file by   *)
(* file, read it, look whether the process is alive and the port answers,  *)
(* and remove the file when not, or when it could not be read.  Removing   *)
(* may fail; and as the tools have a time limit, a scan may end anywhere.   *)
(***************************************************************************)
ScanBegin(p) ==
    /\ AtIdle(p) /\ p \in running
    /\ todo' = [todo EXCEPT ![p] = {n \in Ports : file[n] # NoFile}]
    /\ Goto(p, "scan")
    /\ UNCHANGED <<port, alive, running, own, listener, file, seen, starts, cut, failed, robbed>>

ScanRead(p, n) ==
    /\ p \in alive /\ at[p] = "scan" /\ n \in todo[p]
    /\ todo' = [todo EXCEPT ![p] = @ \ {n}]
    /\ \E reg \in {file[n], NoFile} :
         /\ seen' = [seen EXCEPT ![p] = [port |-> n, reg |-> reg]]
         /\ Goto(p, IF reg = NoFile THEN "unlink" ELSE "probe")
    /\ UNCHANGED <<port, alive, running, own, listener, file, starts, cut, failed, robbed>>

(* Mutant: the probe waits for the main thread of the process it asks. *)
AnswersWhenIdle(s) ==
    s.reg.pid \in alive /\ listener[s.port] # None /\ at[listener[s.port]] = "idle"

Answers(s) == s.reg.pid \in alive /\ listener[s.port] # None

ScanProbe(p) ==
    /\ p \in alive /\ at[p] = "probe"
    /\ Goto(p, IF Answers(seen[p]) THEN "scan" ELSE "unlink")
    /\ UNCHANGED <<port, alive, running, own, listener, file, scan, starts, cut, failed, robbed>>

(* What has the name now is removed, which may not be what was read. *)
ScanUnlink(p) ==
    /\ p \in alive /\ at[p] = "unlink"
    /\ LET n == seen[p].port IN
         \/ /\ file' = [file EXCEPT ![n] = NoFile]
            /\ robbed' = IF Current(file[n]) /\ file[n] # seen[p].reg
                         THEN robbed \union {file[n].pid} ELSE robbed
         \/ UNCHANGED <<file, robbed>>
    /\ Goto(p, "scan")
    /\ UNCHANGED <<port, alive, running, own, listener, scan, starts, cut, failed>>

ScanEnd(p) ==
    /\ p \in alive /\ at[p] \in {"scan", "probe", "unlink"}
    /\ todo' = [todo EXCEPT ![p] = {}]
    /\ seen' = [seen EXCEPT ![p] = [port |-> None, reg |-> NoFile]]
    /\ Goto(p, "idle")
    /\ UNCHANGED <<port, alive, running, own, listener, file, starts, cut, failed, robbed>>

Next == \E p \in Procs :
    \/ Serve(p) \/ Register(p) \/ ServingEnds(p)
    \/ Stop(p, "unregister") \/ Stop(p, "exit") \/ Unregister(p)
    \/ CloseInterrupted(p) \/ Crash(p)
    \/ ScanBegin(p) \/ (\E n \in Ports : ScanRead(p, n))
    \/ ScanProbe(p) \/ ScanUnlink(p) \/ ScanEnd(p)

Spec == Init /\ [][Next]_vars

(***************************************************************************)
(* Properties.                                                             *)
(***************************************************************************)
Registration == [pid : Procs \union {None}, start : 0..MaxStarts]

TypeOK ==
    /\ port \in [Procs -> Ports] /\ starts \in [Procs -> 0..MaxStarts]
    /\ alive \subseteq Procs /\ running \subseteq alive
    /\ own \in [Procs -> Ports \union {None}]
    /\ listener \in [Ports -> alive \union {None}]
    /\ file \in [Ports -> Registration]
    /\ at \in [Procs -> {"idle", "register", "unregister", "exit",
                         "scan", "probe", "unlink"}]
    /\ todo \in [Procs -> SUBSET Ports]
    /\ seen \in [Procs -> [port : Ports \union {None}, reg : Registration]]
    /\ cut \subseteq Procs /\ failed \subseteq Procs /\ robbed \subseteq Procs

(* A scan is about to remove the registration of a running server only if  *)
(* that is not the one it read: what it read and found stale is stale, and *)
(* stays so, whoever else starts again, stops, crashes, shares the port or *)
(* scans meanwhile (discover_instances: cleaning up stale entries).        *)
OnlyStaleUnlinked ==
    \A p \in alive :
        at[p] = "unlink" /\ Current(file[seen[p].port]) => file[seen[p].port] # seen[p].reg

(* Every running server whose start is over can be found by its file       *)
(* (README: running instances register themselves on disk), unless the     *)
(* registration failed, or was removed by a process that stopped a server  *)
(* on the same port or by a scan that had not read it.                     *)
RunningIsListed ==
    \A p \in running \ (failed \union robbed) :
        at[p] # "register" => file[port[p]] = [pid |-> p, start |-> starts[p]]

(* A server that is stopped has given its port back, whoever stopped it    *)
(* and whoever has the port now, unless its stop was cut short or its       *)
(* serving had ended before.                                               *)
StoppedGivesPortBack ==
    \A p \in alive \ (running \union cut) : listener[port[p]] # p

(* A server that was stopped in order is not listed any more, unless its   *)
(* file could not be removed.                                              *)
StoppedIsUnlisted ==
    \A p \in alive \ (running \union cut \union failed) : at[p] = "idle" => file[port[p]].pid # p

(* Both: a server stopped in order leaves neither its socket nor its file.  *)
StoppedIsGone == StoppedGivesPortBack /\ StoppedIsUnlisted

(* close_instance refuses a port that is not the own one: a process that   *)
(* believes to own a port is the one that serves it, also after it stopped *)
(* and started again, unless its last stop was cut short or its serving     *)
(* ended by itself.                                                        *)
OwnsWhatItServes ==
    \A p \in alive \ cut : own[p] # None => p \in running /\ listener[own[p]] = p
=============================================================================

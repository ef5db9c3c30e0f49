-------------------------------- MODULE Node --------------------------------
(***************************************************************************)
(* The life of the process (main.rs, run): the start sequence over what is *)
(* on disk, the running node with its settings API, the stop on a signal,  *)
(* and any number of crashes, losses of power and restarts in between.     *)
(* Between starts the user may damage the data directory.                  *)
(***************************************************************************)
EXTENDS Settings, Keystore, FiniteSets

CONSTANTS
  Handler,      \* requests to PUT /settings served at the same time
  Updates,      \* what they may ask for
  CommandLines, \* the overrides of a start
  MaxStarts,    \* bound on the number of starts
  MaxPuts       \* bound on the number of PUT requests

\* Absent also stands for a listener that is not there.
ASSUME NodeAssumption == Absent \notin {"loopback", "mapped", "lan"}

VARIABLES
  table,        \* the settings table
  perm,         \* mode of the data directory and its files: "strict",
                \* "loose", or "stuck" when it cannot be corrected
  pc,           \* the step of run(), or "down"
  proc,         \* what the process holds in memory
  puts,         \* the PUT requests: what each still has to save
  starts, requests,
  tampered,     \* whether the user damaged the key file or its permissions
  cut           \* whether a process ended between writing and syncing the key

stored == <<table, perm>>
bounds == <<starts, requests, tampered, cut>>
vars == <<keystoreVars, stored, pc, proc, puts, bounds>>

\* left: the keys still to save; next: the settings to save.
Idle == [left |-> <<>>, next |-> Default]

\* effective: the settings in force; health: KeystoreHealth; http and index:
\* the class of the address of the admin and the index.txt listener; audited:
\* whether this start has recorded the exposure to the LAN; reachable:
\* InboundReachable; tasks: what run() waits for in the end, the two servers,
\* the UPnP task and all the "loops" that only select and work without waiting;
\* mapping: whether the UPnP task is inside try_map; clients: the servers told
\* to stop that still have a client in the middle of a request.
Server == {"http", "index"}
Task == {"loops", "upnp"} \cup Server

NoProcess ==
  [effective |-> Default, health |-> "Ok", http |-> Absent, index |-> Absent,
   audited |-> FALSE, reachable |-> FALSE, tasks |-> {}, mapping |-> FALSE,
   clients |-> {}]

Init ==
  /\ KeystoreInitial
  /\ table = [k \in SettingKey |-> Unset] /\ perm = "loose"
  /\ pc = "down" /\ proc = NoProcess
  /\ puts = [h \in Handler |-> Idle]
  /\ starts = 0 /\ requests = 0 /\ tampered = FALSE /\ cut = FALSE

\* The process is gone, and with it everything in memory; the exit code only
\* tells the caller why.
Gone ==
  /\ pc' = "down" /\ proc' = NoProcess
  /\ puts' = [h \in Handler |-> Idle]
  /\ cut' = (cut \/ pc = "keySync")
  /\ UNCHANGED <<stored, starts, requests, tampered>>
Exit(code) == Gone /\ Die

\* One step of the start sequence that touches neither keystore nor disk.
Step(from, to) ==
  /\ pc = from /\ pc' = to
  /\ UNCHANGED <<keystoreVars, stored, puts, bounds>>

-----------------------------------------------------------------------------
(* The start sequence. *)

\* The command line is parsed first; the data directory is made and the store
\* opened before the settings are read.
Start(overrides) ==
  /\ pc = "down" /\ starts < MaxStarts
  /\ starts' = starts + 1
  /\ pc' = "config"
  /\ proc' = [proc EXCEPT !.effective = ApplyOverrides(Load(table), overrides)]
  /\ UNCHANGED <<keystoreVars, stored, puts, requests, tampered, cut>>

\* Mutant: what is stored is checked, what the command line adds is not.
MutAdmitted == Validate(Load(table))
Admitted == Validate(proc.effective)

CheckSettings ==
  \/ Admitted /\ Step("config", "keystore") /\ UNCHANGED proc
  \/ pc = "config" /\ ~Admitted /\ Exit("2")

\* The key file is created, written and synced, or the existing one is read.
\* An I/O error on the way ends the start and leaves the file as it is.
OpenKeystore ==
  \/ /\ \/ pc = "keystore" /\ CreateKey /\ pc' = "keyWrite"
        \/ pc = "keystore" /\ LoadExisting /\ pc' = "permissions"
        \/ pc = "keyWrite" /\ WriteKey /\ pc' = "keySync"
        \/ pc = "keySync" /\ SyncKey /\ pc' = "permissions"
     /\ UNCHANGED <<stored, proc, puts, bounds>>
  \/ pc \in {"keystore", "keyWrite", "keySync"} /\ Exit("1")

Evaluate(permissions) ==
  IF permissions = "strict" /\ init \notin {"Corrupt", "Unreadable"}
  THEN "Ok" ELSE "Unavailable"

\* enforce_permissions corrects what it can.
EnforcePermissions ==
  /\ pc = "permissions" /\ pc' = "p2p"
  /\ perm' = IF perm = "loose" THEN "strict" ELSE perm
  /\ proc' = [proc EXCEPT !.health = Evaluate(perm')]
  /\ UNCHANGED <<keystoreVars, table, puts, bounds>>

\* Every address of p2p_bind is tried, and there may be none; only all of them
\* failing is fatal.  UPnP is used when an IPv4 address is among the bound
\* ones, and then the node counts as reachable only after a mapping.
BindP2p ==
  \/ /\ Step("p2p", "pcp")
     /\ \E bound \in SUBSET {"v4", "v6"} :
          proc' = [proc EXCEPT
               !.reachable = bound = {"v6"},
               !.tasks = {"loops"} \cup (IF "v4" \in bound THEN {"upnp"} ELSE {})]
  \/ pc = "p2p" /\ Exit("1")

\* PCP listener, identity, engine, bridge and the periodic tasks, which leave
\* their select loops like the runtime's.
BindPcp ==
  \/ Step("pcp", "http") /\ UNCHANGED proc
  \/ pc = "pcp" /\ Exit("1")

BindHttp ==
  \/ Step("http", "index") /\ proc' = [proc EXCEPT !.http = proc.effective.http]
  \/ pc = "http" /\ Exit("1")

\* The listener for the LAN is optional and its failure is tolerated.
BindIndex ==
  /\ Step("index", "audit")
  /\ \E listener \in {Absent} \cup ({proc.effective.index} \ {""}) :
       proc' = [proc EXCEPT !.index = listener]

\* Exposure is judged on the canonical address; then everything is served and
\* READY=1 is sent.
Audit ==
  /\ Step("audit", "running")
  /\ proc' = [proc EXCEPT
       !.audited = proc.index # Absent /\ ~IsLoopback(Canonical(proc.index)),
       !.tasks = @ \cup (IF proc.index = Absent THEN {"http"} ELSE Server)]

-----------------------------------------------------------------------------
(* The running node. *)

Serving == pc \in {"running", "stopping"}

CreatePersona(p) ==
  /\ pc = "running" /\ proc.health = "Ok"
  /\ Protect(p)
  /\ UNCHANGED <<stored, pc, proc, puts, bounds>>

\* Mutant: a bind address is taken without a check.
MutAcceptable(settings) == Validate([settings EXCEPT !.http = "loopback"])
Acceptable(settings) == Validate(settings)

\* PUT /settings: load, apply, validate; what passes is saved key by key.
PutSettings(h, update) ==
  /\ pc = "running" /\ puts[h] = Idle /\ requests < MaxPuts
  /\ requests' = requests + 1
  /\ LET next == ApplyTo(Load(table), update)
     IN  puts' = [puts EXCEPT ![h] =
           IF Acceptable(next)
           THEN [left |-> SaveOrder, next |-> next] ELSE Idle]
  /\ UNCHANGED <<keystoreVars, stored, pc, proc, starts, tampered, cut>>

SaveKey(h) ==
  /\ Serving /\ puts[h] # Idle
  /\ LET k == Head(puts[h].left)
         rest == Tail(puts[h].left)
     IN  /\ table' = [table EXCEPT ![k] = puts[h].next[k]]
         /\ puts' = [puts EXCEPT ![h] = IF rest = <<>> THEN Idle ELSE [@ EXCEPT !.left = rest]]
  /\ UNCHANGED <<keystoreVars, perm, pc, proc, bounds>>

\* A failing write leaves the keys before it saved and answers 500.
SaveFails(h) ==
  /\ Serving /\ puts[h] # Idle
  /\ puts' = [puts EXCEPT ![h] = Idle]
  /\ UNCHANGED <<keystoreVars, stored, pc, proc, bounds>>

\* upnp::run: a tick starts an attempt unless the shutdown is seen first.  An
\* attempt that is under way is finished, and its result sets the flag.
TryMap ==
  /\ "upnp" \in proc.tasks
  /\ \/ ~proc.mapping /\ pc # "stopping" /\ proc' = [proc EXCEPT !.mapping = TRUE]
     \/ proc.mapping /\ \E ok \in BOOLEAN :
          proc' = [proc EXCEPT !.mapping = FALSE, !.reachable = ok]
  /\ UNCHANGED <<keystoreVars, stored, pc, puts, bounds>>

-----------------------------------------------------------------------------
(* Stopping, crashing, and the user. *)

\* SIGTERM or SIGINT: STOPPING=1, then the watch channel.  Before the node is
\* running the default action of the signal kills the process (Crash).  The
\* servers accept nobody else, but some clients may be in the middle of a
\* request or of its answer.
Signal ==
  /\ Step("running", "stopping")
  /\ \E busy \in SUBSET (proc.tasks \cap Server) : proc' = [proc EXCEPT !.clients = busy]

\* They may finish or go away; nothing makes them, no request has a timeout.
ClientsLeave(s) ==
  /\ s \in proc.clients
  /\ Step("stopping", "stopping")
  /\ proc' = [proc EXCEPT !.clients = @ \ {s}]

\* Mutant: the UPnP loop only looks at its ticker.
MutObeys(t) == t # "upnp"

\* A task that was told to stop can: the UPnP task when an attempt is over, a
\* server, whose shutdown is graceful, when its clients have left and the
\* requests in progress are served; the loops see the shutdown at once.
Obeys(t) ==
  /\ t = "upnp" => ~proc.mapping
  /\ t \notin proc.clients
  /\ t = "http" => \A h \in Handler : puts[h] = Idle

TaskEnds(t) ==
  /\ t \in proc.tasks /\ Obeys(t)
  /\ Step("stopping", "stopping")
  /\ proc' = [proc EXCEPT !.tasks = @ \ {t}]

\* run() has joined every task.
Stopped == pc = "stopping" /\ proc.tasks = {} /\ Exit("0")

\* The process is killed, by systemd too when it takes too long to stop, or
\* the power fails.
Crash ==
  /\ pc # "down"
  /\ Gone
  /\ Die \/ LosePower

\* The user removes, truncates or locks the key file, or gives the directory
\* a mode the node cannot correct.
Tamper ==
  /\ pc = "down" /\ ~tampered
  /\ tampered' = TRUE
  /\ \/ file' = Absent /\ UNCHANGED <<readable, perm>>
     \/ file # Absent /\ file' = Short /\ UNCHANGED <<readable, perm>>
     \/ readable' = FALSE /\ UNCHANGED <<file, perm>>
     \/ perm' = "stuck" /\ UNCHANGED <<file, readable>>
  /\ UNCHANGED <<synced, secret, lastKey, master, init, table, pc, proc, puts,
                 starts, requests, cut>>

Next ==
  \/ \E c \in CommandLines : Start(c)
  \/ CheckSettings \/ OpenKeystore \/ EnforcePermissions
  \/ BindP2p \/ BindPcp \/ BindHttp \/ BindIndex \/ Audit
  \/ \E p \in Persona : CreatePersona(p)
  \/ \E h \in Handler : (\E u \in Updates : PutSettings(h, u)) \/ SaveKey(h) \/ SaveFails(h)
  \/ TryMap \/ Signal \/ Stopped \/ Crash \/ Tamper
  \/ \E t \in proc.tasks : TaskEnds(t)
  \/ \E s \in proc.clients : ClientsLeave(s)

\* The tasks are polled by the runtime, and a request that was received is a
\* few local writes.  Nothing is assumed of clients and of the gateway.
Fairness ==
  /\ WF_vars(Stopped)
  /\ \A t \in Task : WF_vars(TaskEnds(t))
  /\ \A h \in Handler : WF_vars(SaveKey(h))

Spec == Init /\ [][Next]_vars /\ Fairness

-----------------------------------------------------------------------------
\* Whenever the process dies and however often it is started again, a persona
\* that was stored keeps the key it was encrypted under: the key is on disk
\* for good before the first persona can be, a file that exists is never
\* replaced, and the running node can decrypt it.  Only the user's own
\* damage to the key file changes that, or a process that ended between
\* writing and syncing it: the next start takes over a file that is whole but
\* not yet safe, and does not sync it.  (That syncing the file keeps its name
\* in the directory too is an assumption on the file system: SyncKey.)
KeyOutlivesPersonas ==
  ~tampered /\ ~cut =>
    \A p \in Persona : secret[p] \in Key =>
      /\ file = secret[p] /\ synced
      /\ Serving => proc.health = "Ok" /\ Usable(p)

\* However PUT requests interleave key by key, and wherever a failing write
\* or a crash cuts a save, what is in the table passes the gate of the next
\* start.  (Whether its addresses can then be bound the gate does not ask.)
CanRestart == Validate(Load(table))

\* The admin listener is only ever on a loopback address, the index.txt
\* listener on loopback or in the LAN, whatever the table and the command
\* line say; and a running node has recorded its exposure exactly when the
\* LAN can reach the listener.
ExposureControlled ==
  /\ proc.http \in {Absent, "loopback"}
  /\ proc.index \in {Absent, "loopback", "mapped", "lan"}
  /\ Serving => (proc.audited <=> proc.index = "lan")

\* Somebody outside lets the node wait: a client in the middle of a request, or
\* the gateway that was asked for a mapping.
Held == proc.clients # {} \/ proc.mapping

\* A stopping node does stop as soon as nobody outside holds it: whatever the
\* UPnP task, the loops and the requests in progress were doing, none of them
\* waits for something that never comes.  A client or a gateway that stalls can
\* hold the node for ever, and is left to the kill of the service manager.
Stops == pc = "stopping" /\ ~Held ~> pc = "down"

=============================================================================

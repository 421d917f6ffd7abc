----------------------------- MODULE ConfigStore -----------------------------
(* config.Manager (internal/config/config.go): one configuration in memory,  *)
(* guarded by a mutex, and config.json on disk. LoadManager reads and        *)
(* normalizes the file, writes it back and applies the environment's port;   *)
(* Update changes memory, validates and saves, and restores memory when the  *)
(* save fails. A save prefers temp file + rename and falls back to writing   *)
(* in place. A payload that Prepare rejects changes nothing and is left out. *)
EXTENDS TimeRanges, TaskIds

CONSTANTS
    Settings,     \* what the panel edits: upstreams, tasks, strategies...
    DefaultSettings,
    Ports,        \* values of server.port that the environment may force
    FilePort,     \* the port of the user's file
    MaxUpdates    \* bound: updates

NoPort == 0  \* WSORDER_PORT is not set

ASSUME ConfigAssumption ==
    /\ DefaultSettings \in Settings
    /\ NoPort \notin Ports /\ FilePort \notin Ports
    /\ MaxUpdates \in Nat

Config == [port : Ports \cup {FilePort}, settings : Settings]
Torn == [torn |-> TRUE]  \* a file that json.Unmarshal rejects

Hosts == [mount : BOOLEAN, writeErrors : BOOLEAN]

VARIABLES
    host,     \* the host's disk, which never changes: config.json is a mount
              \*   point (rename always fails), writing may fail (disk full)
    file,     \* config.json
    mem,      \* Manager.cfg
    prev,     \* Update's copy to restore
    env,      \* WSORDER_PORT of this process
    pc,       \* down, up, or the save in progress
    job,      \* what is being saved for: load or update
    updates,
    acked     \* history: the settings last reported as saved, or found by a start

vars == <<host, file, mem, prev, env, pc, job, updates, acked>>

TypeOK ==
    /\ host \in Hosts
    /\ file \in Config \cup {Torn}
    /\ mem \in Config /\ prev \in Config
    /\ env \in Ports \cup {NoPort}
    /\ pc \in {"down", "up", "save", "in-place", "saved"}
    /\ job \in {"load", "update"}
    /\ updates \in 0..MaxUpdates
    /\ acked \in Settings

Fresh == [port |-> FilePort, settings |-> DefaultSettings]

Init ==
    /\ host \in Hosts
    /\ file = Fresh /\ mem = Fresh /\ prev = Fresh
    /\ env = NoPort
    /\ pc = "down" /\ job = "load"
    /\ updates = 0
    /\ acked = DefaultSettings

-----------------------------------------------------------------------------

\* Mutant of Load: applies the override before the save.
LoadOverridden(port) ==
    /\ pc = "down" /\ file # Torn
    /\ env' = port
    /\ mem' = IF port = NoPort THEN file ELSE [file EXCEPT !.port = port]
    /\ prev' = file /\ acked' = file.settings
    /\ pc' = "save" /\ job' = "load"
    /\ UNCHANGED <<host, file, updates>>

\* LoadManager up to its save; a torn file stops the process instead.
Load(port) ==
    /\ pc = "down" /\ file # Torn
    /\ env' = port
    /\ mem' = file /\ prev' = file /\ acked' = file.settings
    /\ pc' = "save" /\ job' = "load"
    /\ UNCHANGED <<host, file, updates>>

\* Update: the mutex is held from here to the end of the save.
Update(settings) ==
    /\ pc = "up" /\ updates < MaxUpdates
    /\ prev' = mem
    /\ mem' = [mem EXCEPT !.settings = settings]
    /\ updates' = updates + 1
    /\ pc' = "save" /\ job' = "update"
    /\ UNCHANGED <<host, file, env, acked>>

Written(from) ==
    /\ pc = from
    /\ file' = mem
    /\ pc' = "saved"
    /\ UNCHANGED <<host, mem, prev, env, job, updates, acked>>

\* writeFileAtomic.
WriteRename == ~host.mount /\ Written("save")

\* Mutant of FallBack: writes in place wherever the file is.
InPlaceAnywhere ==
    /\ pc = "save"
    /\ file' = Torn
    /\ pc' = "in-place"
    /\ UNCHANGED <<host, mem, prev, env, job, updates, acked>>

\* It failed, at any of its steps: os.WriteFile truncates the file first.
FallBack ==
    /\ pc = "save" /\ (host.mount \/ host.writeErrors)
    /\ file' = Torn
    /\ pc' = "in-place"
    /\ UNCHANGED <<host, mem, prev, env, job, updates, acked>>

WriteInPlace == Written("in-place")

\* applyEnvOverrides, the last thing that LoadManager does.
Overridden(cfg) == IF job = "load" /\ env # NoPort THEN [cfg EXCEPT !.port = env] ELSE cfg

\* The save succeeded, and LoadManager or Update returns.
Saved ==
    /\ pc = "saved"
    /\ mem' = Overridden(mem)
    /\ acked' = mem.settings
    /\ pc' = "up"
    /\ UNCHANGED <<host, file, prev, env, job, updates>>

\* Mutant of WriteInPlaceFails: Update reports the error and restores nothing.
NotRestored ==
    /\ pc \in {"save", "in-place"} /\ host.writeErrors
    /\ mem' = Overridden(mem)
    /\ pc' = "up"
    /\ UNCHANGED <<host, file, prev, env, job, updates, acked>>

\* The file cannot be opened, or not be written once it has been truncated.
\* Update restores memory and reports the error; LoadManager only warns.
WriteInPlaceFails ==
    /\ pc \in {"save", "in-place"} /\ host.writeErrors
    /\ mem' = IF job = "update" THEN prev ELSE Overridden(mem)
    /\ pc' = "up"
    /\ UNCHANGED <<host, file, prev, env, job, updates, acked>>

\* The process ends, at any point; config.json stays.
Crash ==
    /\ pc # "down"
    /\ pc' = "down"
    /\ UNCHANGED <<host, file, mem, prev, env, job, updates, acked>>

Next ==
    \/ \E port \in Ports \cup {NoPort} : Load(port)
    \/ \E settings \in Settings : Update(settings)
    \/ WriteRename \/ FallBack \/ WriteInPlace \/ WriteInPlaceFails \/ Saved
    \/ Crash

Spec == Init /\ [][Next]_vars

-----------------------------------------------------------------------------
(* Properties.                                                               *)

\* "An update can never leave memory and disk disagreeing": whenever no save is in
\* progress, also after failed writes, crashes and on a mount point, the settings in
\* force are those last reported as saved, and config.json holds them.  Against that
\* comment it is left torn when writing fails after the truncation, and its port is not
\* the one in force when the environment has set another.
MemoryAndDiskAgree ==
    pc = "up" =>
        /\ mem.settings = acked
        /\ file = Torn => host.writeErrors
        /\ file # Torn => /\ file.settings = acked
                          /\ mem.port = IF env = NoPort THEN file.port ELSE env

\* Whatever moment the process dies at, the next start finds the settings last reported
\* as saved, or those whose save the process died in; it finds a torn file only where a
\* rename cannot replace it or after a write error.  Memory is that of the dead process:
\* it differs from what was reported only while a save is running.
RestartKeepsSettings ==
    pc = "down" => IF file = Torn THEN host.mount \/ host.writeErrors
                   ELSE file.settings \in {acked, mem.settings}

\* "An override is never written into the user's file and cannot silently outlive the
\* environment it came from": no start writes it, however many there are, under whatever
\* environments and on whatever host.  Against that comment, the next update does.
OverrideStaysOut == (file # Torn /\ file.port # FilePort) => updates > 0

\* Whatever list of ranges the load or the panel accepts, in whatever form its clocks
\* are written, is read as it was entered, on both sides of midnight, and can be
\* saved again.
RangesAsEntered == pc = "up" => Misread = {}

\* Bindings, skip counters and balances stay those of their account while the service
\* is up: the generated ids collide with none, and every account keeps the id it was
\* given first when others are added before it, removed or moved, in the panel or in
\* the file that the load has written.
IdsAreKept == pc = "up" => Confused = {}
=============================================================================

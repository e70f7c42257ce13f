---------------------------- MODULE RuntimeStart ----------------------------
(***************************************************************************)
(* Starting and stopping the runtime (main.py lifespan, LifecycleManager,  *)
(* DatabaseService.start, migrations) and the settings overlay it loads    *)
(* and writes (app/settings.py).  Several processes may start against one  *)
(* Postgres server: they may all create the missing database and all       *)
(* upgrade its schema.  A start may fail, or be cancelled, at any await; a *)
(* process may be killed; the server may go away and come back.            *)
(*                                                                         *)
(* The nineteen components are three: one started before the database,     *)
(* the database, and one after it.  An overlay gives each field 0 (unset)  *)
(* or a value.  MaxStartFaults bounds failures, cancellations, kills and   *)
(* outages together, MaxStarts the starts of all processes, MaxUpdates the *)
(* settings changes.                                                       *)
(***************************************************************************)
EXTENDS Integers, Sequences, FiniteSets

CONSTANTS Processes, Clients, Fields, Values, MaxStarts, MaxStartFaults, MaxUpdates

VARIABLES
    server,  \* the Postgres server: up, schema of the database, lock (of
             \* the upgrade), row (settings)
    proc,    \* p -> the process
    patch,   \* c -> a PATCH /settings in flight
    told,    \* p -> overlay built from the changes acknowledged to callers
    history  \* what happened so far, for the bounds and the properties

runtimeVars == <<server, proc, patch, told, history>>

Components == <<"access", "database", "services">>
(* Who holds a lock that is free: the name of no process and no caller.    *)
Nobody == "nobody"
ASSUME RuntimeAssumption == Nobody \notin Processes \union Clients

Unset == [f \in Fields |-> 0]
NoPatch == [at |-> "none"]

Off(config) == [config |-> config, pc |-> "off", next |-> 1, started |-> <<>>,
                owes |-> {}, healthy |-> FALSE, upgrade |-> "none",
                overlay |-> Unset, lock |-> Nobody]

RuntimeInit ==
    /\ server \in [up : {TRUE}, schema : {"missing", "old"},
                   lock : {Nobody}, row : {Unset}]
    /\ proc \in [Processes -> {Off(c) : c \in [required : BOOLEAN, migrate : BOOLEAN]}]
    /\ patch = [c \in Clients |-> NoPatch]
    /\ told = [p \in Processes |-> Unset]
    /\ history = [starts |-> 0, faults |-> 0, updates |-> 0, upgrades |-> 0,
                  writer |-> Nobody, doubt |-> FALSE]

MayFault == history.faults < MaxStartFaults
Faulted == history' = [history EXCEPT !.faults = @ + 1]
Becomes(p, new) == proc' = [proc EXCEPT ![p] = new]
Goes(p, pc) == Becomes(p, [proc[p] EXCEPT !.pc = pc])
Config(p) == proc[p].config

----------------------------------------------------------------------------
(* Start and stop *)

(* The lifespan registers every component, then starts them in that order. *)
Boot(p) ==
    /\ proc[p].pc = "off"
    /\ history.starts < MaxStarts
    /\ history' = [history EXCEPT !.starts = @ + 1]
    /\ Becomes(p, [Off(Config(p)) EXCEPT !.pc = "starting",
                                         !.upgrade = proc[p].upgrade])
    /\ UNCHANGED <<server, patch, told>>

(* A component is recorded before its start is awaited, so what a failed   *)
(* start acquired is released too.                                         *)
BugRecorded(p, component) == SubSeq(Components, 1, proc[p].next - 1)
Recorded(p, component) == Append(proc[p].started, component)

StartNext(p) ==
    /\ proc[p].pc = "starting"
    /\ proc[p].next <= Len(Components)
    /\ LET component == Components[proc[p].next]
       IN Becomes(p, [proc[p] EXCEPT
            !.started = Recorded(p, component), !.owes = @ \union {component},
            !.next = @ + 1,
            !.pc = IF component = "database" THEN "probing" ELSE "acquiring"])
    /\ UNCHANGED <<server, patch, told, history>>

ComponentUp(p) ==
    /\ proc[p].pc = "acquiring"
    /\ Becomes(p, [proc[p] EXCEPT !.pc = "starting"])
    /\ UNCHANGED <<server, patch, told, history>>

(* Every await before the runtime serves, where it can be cancelled, and   *)
(* those whose own failure ends the start.                                 *)
Awaits == {"acquiring", "probing", "creating", "reprobing", "migrating",
           "loading", "cleaning"}

(* start_all, or the lifespan, rolls back: stop_all takes over.  A thread  *)
(* upgrading the schema goes on.                                           *)
StartBroken(p) ==
    /\ proc[p].pc \in Awaits
    /\ MayFault /\ Faulted
    /\ Goes(p, "stopping")
    /\ UNCHANGED <<server, patch, told>>

(* stop_all runs its work in a task of its own and waits for it through    *)
(* every cancellation.                                                     *)
BugStopCancelled(p) == [proc[p] EXCEPT !.pc = "off"]
StopCancelled(p) == proc[p]

CancelStop(p) ==
    /\ proc[p].pc = "stopping"
    /\ MayFault /\ Faulted
    /\ Becomes(p, StopCancelled(p))
    /\ UNCHANGED <<server, patch, told>>

(* Reverse order; a component whose stop raises is logged and passed.      *)
StopOne(p) ==
    /\ proc[p].pc = "stopping"
    /\ proc[p].started # <<>>
    /\ LET n == Len(proc[p].started)
           component == proc[p].started[n]
       IN Becomes(p, [proc[p] EXCEPT !.started = SubSeq(@, 1, n - 1),
                                     !.owes = @ \ {component},
                                     !.healthy = @ /\ component # "database"])
    /\ UNCHANGED <<server, patch, told, history>>

StartedNone(p) ==
    /\ proc[p].pc = "stopping"
    /\ proc[p].started = <<>>
    /\ Goes(p, "off")
    /\ UNCHANGED <<server, patch, told, history>>

(* The host ends the lifespan once its requests are answered.              *)
Shutdown(p) ==
    /\ proc[p].pc = "serving"
    /\ \A c \in Clients : patch[c].at # "none" => patch[c].p # p
    /\ Goes(p, "stopping")
    /\ UNCHANGED <<server, patch, told, history>>

(* A kill: nothing is stopped, the connections drop, and the server rolls  *)
(* an unfinished upgrade back with its lock.                               *)
Kill(p) ==
    /\ proc[p].pc # "off" \/ proc[p].upgrade # "none"
    /\ MayFault /\ Faulted
    /\ Becomes(p, Off(Config(p)))
    /\ patch' = [c \in Clients |-> IF patch[c].at # "none" /\ patch[c].p = p
                                   THEN NoPatch ELSE patch[c]]
    /\ server' = [server EXCEPT !.lock = IF @ = p THEN Nobody ELSE @]
    /\ UNCHANGED told

----------------------------------------------------------------------------
(* The database *)

Outage ==
    /\ server.up
    /\ MayFault /\ Faulted
    /\ server' = [server EXCEPT !.up = FALSE, !.lock = Nobody]
    /\ proc' = [p \in Processes |-> IF proc[p].upgrade = "upgrading"
                                    THEN [proc[p] EXCEPT !.upgrade = "failed"] ELSE proc[p]]
    /\ UNCHANGED <<patch, told>>

Back ==
    /\ ~server.up
    /\ server' = [server EXCEPT !.up = TRUE]
    /\ UNCHANGED <<proc, patch, told, history>>

(* SELECT 1, and why it failed.  A thread that an earlier start in this    *)
(* process left upgrading is let end first: upgrades of one process share  *)
(* a lock (_ALEMBIC_LOCK).                                                 *)
Cause == IF ~server.up THEN "unreachable"
         ELSE IF server.schema = "missing" THEN "database_missing" ELSE "none"

(* Only a required database that migrates on start is created here.        *)
CreatesMissing(p) ==
    Config(p).required /\ Config(p).migrate /\ Cause = "database_missing"

(* DatabaseService.stop, which start calls itself before it raises; the    *)
(* lifecycle stops the service again.                                      *)
Disposed(p) == [proc[p] EXCEPT !.owes = @ \ {"database"}, !.healthy = FALSE,
                               !.pc = "stopping"]

Found(p) ==
    IF Config(p).migrate
    THEN [proc[p] EXCEPT !.healthy = TRUE, !.pc = "migrating",
                         !.upgrade = "waiting"]
    ELSE [proc[p] EXCEPT !.healthy = TRUE, !.pc = "starting"]

Probe(p) ==
    /\ proc[p].pc \in {"probing", "reprobing"}
    /\ proc[p].upgrade = "none"
    /\ Becomes(p,
         IF Cause = "none" THEN Found(p)
         ELSE IF proc[p].pc = "probing" /\ CreatesMissing(p)
              THEN [proc[p] EXCEPT !.pc = "creating"]
         ELSE IF Config(p).required THEN Disposed(p)
         ELSE [proc[p] EXCEPT !.healthy = FALSE, !.pc = "starting"])
    /\ UNCHANGED <<server, patch, told, history>>

(* CREATE DATABASE; that another process made it meanwhile is no failure.  *)
CreateDatabase(p) ==
    /\ proc[p].pc = "creating"
    /\ \/ /\ server.up
          /\ server' = [server EXCEPT !.schema = IF @ = "missing" THEN "empty" ELSE @]
          /\ Goes(p, "reprobing")
       \/ /\ ~server.up
          /\ Becomes(p, Disposed(p))
          /\ UNCHANGED server
    /\ UNCHANGED <<patch, told, history>>

(* The upgrade runs in a thread, so it outlives a cancelled start.  Its    *)
(* transaction takes an advisory lock first: a second process waits, then  *)
(* finds nothing left to do.                                               *)
BugUpgradeFree == TRUE
UpgradeFree == server.lock = Nobody

BeginUpgrade(p) ==
    /\ proc[p].upgrade = "waiting"
    /\ \/ /\ server.up /\ UpgradeFree
          /\ server' = [server EXCEPT !.lock = p]
          /\ Becomes(p, [proc[p] EXCEPT !.upgrade =
                             IF server.schema = "head" THEN "current" ELSE "upgrading"])
       \/ /\ ~server.up
          /\ Becomes(p, [proc[p] EXCEPT !.upgrade = "failed"])
          /\ UNCHANGED server
    /\ UNCHANGED <<patch, told, history>>

EndUpgrade(p) ==
    /\ proc[p].upgrade \in {"current", "upgrading"}
    /\ server' = [server EXCEPT !.lock = IF @ = p THEN Nobody ELSE @,
                                !.schema = "head"]
    /\ history' = [history EXCEPT !.upgrades =
                       IF proc[p].upgrade = "upgrading" THEN @ + 1 ELSE @]
    /\ Becomes(p, [proc[p] EXCEPT !.upgrade = "done"])
    /\ UNCHANGED <<patch, told>>

(* start takes the thread's result; a cancelled start never does.          *)
Migrated(p) ==
    /\ proc[p].pc = "migrating"
    /\ proc[p].upgrade \in {"done", "failed"}
    /\ Becomes(p, [(IF proc[p].upgrade = "done"
                    THEN [proc[p] EXCEPT !.pc = "starting"] ELSE Disposed(p))
                   EXCEPT !.upgrade = "none"])
    /\ UNCHANGED <<server, patch, told, history>>

ThreadEnds(p) ==
    /\ proc[p].pc # "migrating"
    /\ proc[p].upgrade \in {"done", "failed"}
    /\ Becomes(p, [proc[p] EXCEPT !.upgrade = "none"])
    /\ UNCHANGED <<server, patch, told, history>>

----------------------------------------------------------------------------
(* The settings overlay *)

AllStarted(p) ==
    /\ proc[p].pc = "starting"
    /\ proc[p].next > Len(Components)
    /\ Goes(p, "loading")
    /\ UNCHANGED <<server, patch, told, history>>

(* load_from_db follows what the database service found at start.  An      *)
(* overlay it cannot read would be overwritten by the next change, so that *)
(* ends the start.                                                         *)
Load(p) ==
    /\ proc[p].pc = "loading"
    /\ LET readable == proc[p].healthy /\ server.up /\ server.schema # "empty"
           overlay == IF readable THEN server.row ELSE Unset
           refused == IF proc[p].healthy THEN ~readable ELSE Config(p).required
       IN /\ Becomes(p, [proc[p] EXCEPT !.pc = IF refused THEN "stopping" ELSE "cleaning",
                                        !.overlay = overlay])
          /\ told' = [told EXCEPT ![p] = overlay]
    /\ UNCHANGED <<server, patch, history>>

(* Expired sessions and old traces; a failure of either is only logged.    *)
CleanUp(p) ==
    /\ proc[p].pc = "cleaning"
    /\ Goes(p, "serving")
    /\ UNCHANGED <<server, patch, told, history>>

BeginPatch(c, p, f, v) ==
    /\ proc[p].pc = "serving"
    /\ patch[c] = NoPatch
    /\ history.updates < MaxUpdates
    /\ history' = [history EXCEPT !.updates = @ + 1]
    /\ patch' = [patch EXCEPT ![c] = [at |-> "waiting", p |-> p, f |-> f, v |-> v]]
    /\ UNCHANGED <<server, proc, told>>

(* One change at a time: the new overlay is built from the current one     *)
(* under the lock.                                                         *)
BugSettingsFree(p) == TRUE
SettingsFree(p) == proc[p].lock = Nobody

Take(c) ==
    /\ patch[c].at = "waiting"
    /\ LET p == patch[c].p IN
       /\ SettingsFree(p)
       /\ Becomes(p, [proc[p] EXCEPT !.lock = c])
       /\ patch' = [patch EXCEPT ![c] = [at |-> "saving", p |-> p, f |-> @.f, v |-> @.v,
                        new |-> [proc[p].overlay EXCEPT ![patch[c].f] = patch[c].v]]]
    /\ UNCHANGED <<server, told, history>>

Unlocked(p) == [proc[p] EXCEPT !.lock = Nobody]

(* The overlay in force while a change's row is being written.             *)
BugMeanwhile(c) == patch[c].new
Meanwhile(c) == proc[patch[c].p].overlay

(* The whole overlay is written.                                           *)
PersistOverlay(c) ==
    /\ patch[c].at = "saving"
    /\ proc[patch[c].p].healthy
    /\ server.up
    /\ server' = [server EXCEPT !.row = patch[c].new]
    /\ history' = [history EXCEPT !.writer = patch[c].p, !.doubt = FALSE]
    /\ patch' = [patch EXCEPT ![c].at = "saved"]
    /\ UNCHANGED <<proc, told>>

(* The write fails, or its commit does and nobody knows whether it was     *)
(* made: the change is refused.                                            *)
PersistFails(c) ==
    /\ patch[c].at = "saving"
    /\ proc[patch[c].p].healthy
    /\ \/ /\ ~server.up
          /\ UNCHANGED <<server, history>>
       \/ /\ server.up /\ MayFault
          /\ \/ UNCHANGED server
             \/ server' = [server EXCEPT !.row = patch[c].new]
          /\ history' = [history EXCEPT !.faults = @ + 1, !.doubt = TRUE]
    /\ patch' = [patch EXCEPT ![c] = NoPatch]
    /\ Becomes(patch[c].p, [Unlocked(patch[c].p) EXCEPT !.overlay = Meanwhile(c)])
    /\ UNCHANGED told

(* Saved, or without a database at all: the change is in force.  A         *)
(* required database leaves no overlay in memory alone.                    *)
Adopt(c) ==
    LET p == patch[c].p IN
    /\ \/ patch[c].at = "saved"
       \/ patch[c].at = "saving" /\ ~proc[p].healthy /\ ~Config(p).required
    /\ Becomes(p, [Unlocked(p) EXCEPT !.overlay = patch[c].new])
    /\ told' = [told EXCEPT ![p][patch[c].f] = patch[c].v]
    /\ patch' = [patch EXCEPT ![c] = NoPatch]
    /\ UNCHANGED <<server, history>>

RuntimeNext ==
    \/ Outage
    \/ Back
    \/ \E p \in Processes :
        \/ Boot(p)
        \/ StartNext(p)
        \/ ComponentUp(p)
        \/ StartBroken(p)
        \/ CancelStop(p)
        \/ StopOne(p)
        \/ StartedNone(p)
        \/ Shutdown(p)
        \/ Kill(p)
        \/ Probe(p)
        \/ CreateDatabase(p)
        \/ BeginUpgrade(p)
        \/ EndUpgrade(p)
        \/ Migrated(p)
        \/ ThreadEnds(p)
        \/ AllStarted(p)
        \/ Load(p)
        \/ CleanUp(p)
        \/ \E c \in Clients, f \in Fields, v \in Values \union {0} : BeginPatch(c, p, f, v)
    \/ \E c \in Clients : Take(c) \/ PersistOverlay(c) \/ PersistFails(c) \/ Adopt(c)

RuntimeSpec == RuntimeInit /\ [][RuntimeNext]_runtimeVars

----------------------------------------------------------------------------
(* Properties *)

(* Whatever fails or is cancelled, and whenever: a lifespan that is over   *)
(* has stopped every component whose start began, and until then whatever  *)
(* runs is on the list of what is to be stopped.                           *)
CleanStop ==
    \A p \in Processes :
        /\ proc[p].pc = "off" => proc[p].owes = {} /\ ~proc[p].healthy
        /\ proc[p].pc # "off" =>
             proc[p].owes \subseteq {proc[p].started[i] : i \in DOMAIN proc[p].started}

(* A process that serves is whole: a required database was found, is used  *)
(* and, where the process migrates, has the current schema; however many   *)
(* processes start at once, the upgrade is run once.                       *)
NeverHalf ==
    /\ history.upgrades <= 1
    /\ \A p \in Processes : proc[p].pc = "serving" =>
        /\ Config(p).required => proc[p].healthy
        /\ proc[p].healthy /\ Config(p).migrate => server.schema = "head"

(* The overlay in force is what its callers were told: no change of two    *)
(* made at once is lost, and a refused one is not in force.  What the last *)
(* writing process has in force is what the next start loads, except where *)
(* a write's outcome is unknown.                                           *)
SettingsStand ==
    \A p \in Processes : proc[p].pc = "serving" =>
        /\ proc[p].overlay = told[p]
        /\ history.writer = p /\ proc[p].healthy /\ ~history.doubt =>
             \/ server.row = proc[p].overlay
             \/ \E c \in Clients : patch[c].at = "saved" /\ patch[c].p = p
                                   /\ server.row = patch[c].new

RuntimeWhole == CleanStop /\ NeverHalf /\ SettingsStand
=============================================================================

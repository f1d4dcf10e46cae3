--------------------------- MODULE DaemonLifetime ---------------------------
(***************************************************************************)
(* How daemons begin and end: the discovery file a daemon claims when it   *)
(* starts (discovery.rs, server.rs run), the app that finds a daemon or    *)
(* spawns one (client.rs connect_or_spawn), the upgrade of an old daemon,  *)
(* the idle watchdog, the Shutdown request, and the exit of the app that   *)
(* closes the sessions first (terminalExitCleanup.ts).                     *)
(*                                                                         *)
(* The app is a single instance that may be started again and again; a     *)
(* daemon it spawned may come up after it is gone.  A daemon's number is   *)
(* its pid and its place in the order of spawning.  Sessions of a daemon   *)
(* are one flag: some session is alive.                                    *)
(***************************************************************************)
EXTENDS Naturals, FiniteSets

CONSTANTS
    MaxDaemons,   \* bound: daemons spawned, the one before the first app included
    MaxRuns,      \* bound: app starts
    MaxCrashes,   \* bound: daemons killed
    MaxSlow,      \* bound: handshakes that fail although the daemon serves
    MaxLost,      \* bound: requests of the exit that fail
    IdleRounds    \* quiet watchdog rounds that make IDLE_EXIT_AFTER

ASSUME LifetimeConstants ==
    /\ MaxDaemons \in Nat \ {0} /\ MaxRuns \in Nat /\ MaxCrashes \in Nat
    /\ MaxSlow \in Nat /\ MaxLost \in Nat /\ IdleRounds \in Nat \ {0}

VARIABLES
    file,      \* the discovery file: absent, or whose it is and whether it is complete
    daemon,    \* the daemon processes
    app,       \* the app: where it is and the daemon it knows of
    stopped,   \* history: the daemon the last exit reported as stopped, or None
    runs, crashes, slow, lost

vars == <<file, daemon, app, stopped, runs, crashes, slow, lost>>

Daemons == 1..MaxDaemons
None == 0
Absent == [of |-> None, whole |-> FALSE]

\* watch: what the watchdog has found empty in this round; calm: quiet rounds;
\* doomed: the thread of a Shutdown sleeps.
Daemon == [at: {"unborn", "starting", "writing", "serving", "dead"}, old: BOOLEAN,
           live: BOOLEAN, routing: BOOLEAN, doomed: BOOLEAN,
           watch: {"asleep", "noclients", "nosessions"}, calm: 0..IdleRounds]
Unborn == [at |-> "unborn", old |-> FALSE, live |-> FALSE, routing |-> FALSE,
           doomed |-> FALSE, watch |-> "asleep", calm |-> 0]

TypeOK ==
    /\ file \in [of: {None} \cup Daemons, whole: BOOLEAN]
    /\ daemon \in [Daemons -> Daemon]
    /\ app \in [at: {"off", "reading", "probing", "removing", "sleeping", "upgrading", "spawning", "polling",
                     "dialing", "connected", "closing", "asking", "failed", "unreadable"},
                d: {None} \cup Daemons]
    /\ stopped \in {None} \cup Daemons
    /\ runs \in Nat /\ crashes \in Nat /\ slow \in Nat /\ lost \in Nat

\* Before the first start: nothing, a file left by a dead daemon, or a daemon
\* of an older version which may have sessions or the routing service.
Init ==
    /\ app = [at |-> "off", d |-> None]
    /\ \/ file = Absent /\ daemon = [d \in Daemons |-> Unborn]
       \/ /\ file = [of |-> 1, whole |-> TRUE]
          /\ \E dead, live, routing \in BOOLEAN :
                daemon = [d \in Daemons |->
                    IF d # 1 THEN Unborn
                    ELSE IF dead THEN [Unborn EXCEPT !.at = "dead"]
                    ELSE [Unborn EXCEPT !.at = "serving", !.old = TRUE,
                                        !.live = live, !.routing = routing]]
    /\ stopped = None /\ runs = 0 /\ crashes = 0 /\ slow = 0 /\ lost = 0

Serves(d) == d # None /\ daemon[d].at = "serving"
\* Room for one more daemon: the bound of the model.
Spare == \E d \in Daemons : daemon[d].at = "unborn"
\* The app rests: a start takes seconds, being idle takes minutes.
Resting == app.at \in {"off", "connected", "failed", "unreadable"}
Starting == {d \in Daemons : daemon[d].at \in {"starting", "writing"}}
\* The app holds a connection to d, which the daemon counts as a client.
HasClient(d) == app.d = d /\ app.at \in {"connected", "closing", "asking"}
Goes(at, d) == app' = [at |-> at, d |-> d]

-----------------------------------------------------------------------------
(* A daemon *)

\* Mutant: an existing file is overwritten.
ClaimOver(d) ==
    /\ daemon[d].at = "starting"
    /\ file' = [of |-> d, whole |-> FALSE] /\ daemon' = [daemon EXCEPT ![d].at = "writing"]
    /\ UNCHANGED <<app, stopped, runs, crashes, slow, lost>>

\* write_daemon_info_exclusive: create_new, and later the content.
Claim(d) ==
    /\ daemon[d].at = "starting"
    /\ IF file = Absent
       THEN file' = [of |-> d, whole |-> FALSE] /\ daemon' = [daemon EXCEPT ![d].at = "writing"]
       ELSE file' = file /\ daemon' = [daemon EXCEPT ![d].at = "dead"]
    /\ UNCHANGED <<app, stopped, runs, crashes, slow, lost>>

\* Written to the open file, whether it still has its name or not.
Publish(d) ==
    /\ daemon[d].at = "writing"
    /\ daemon' = [daemon EXCEPT ![d].at = "serving"]
    /\ file' = IF file.of = d THEN [file EXCEPT !.whole = TRUE] ELSE file
    /\ UNCHANGED <<app, stopped, runs, crashes, slow, lost>>

\* The sessions of a daemon end with it.
Ended(d) == [daemon EXCEPT ![d] = [Unborn EXCEPT !.at = "dead", !.old = daemon[d].old]]

\* remove_daemon_info removes whatever file is there; exit(0) follows at once.
Exits(d) == file' = Absent /\ daemon' = Ended(d)

\* spawn_idle_watchdog: three tests, each under a lock of its own.  The tests and the exit
\* of the last round race with an app that connects or creates a session; only the
\* counting of quiet rounds waits for a start to be over.
Watch(d) ==
    LET busy == daemon' = [daemon EXCEPT ![d].watch = "asleep", ![d].calm = 0] /\ file' = file
        goOn(w) == daemon' = [daemon EXCEPT ![d].watch = w] /\ file' = file
    IN  /\ Serves(d)
        /\ CASE daemon[d].watch = "asleep" -> IF HasClient(d) THEN busy ELSE goOn("noclients")
             [] daemon[d].watch = "noclients" -> IF daemon[d].live THEN busy ELSE goOn("nosessions")
             [] daemon[d].watch = "nosessions" ->
                   IF daemon[d].routing THEN busy
                   ELSE IF daemon[d].calm = IdleRounds THEN Exits(d)
                   ELSE /\ Resting
                        /\ daemon' = [daemon EXCEPT ![d].watch = "asleep", ![d].calm = @ + 1]
                        /\ file' = file
        /\ UNCHANGED <<app, stopped, runs, crashes, slow, lost>>

\* Shutdown: retained, or the thread that exits 200 ms later; Ok either way.
Shutdown(d) ==
    [daemon EXCEPT ![d].doomed = @ \/ ~(daemon[d].live \/ daemon[d].routing)]

ShutdownFires(d) ==
    /\ Serves(d) /\ daemon[d].doomed
    /\ Exits(d)
    /\ UNCHANGED <<app, stopped, runs, crashes, slow, lost>>

Crash(d) ==
    /\ daemon[d].at \in {"writing", "serving"} /\ crashes < MaxCrashes
    /\ crashes' = crashes + 1
    /\ daemon' = Ended(d)
    /\ UNCHANGED <<file, app, stopped, runs, slow, lost>>

SessionEnds(d) ==
    /\ daemon[d].live
    /\ daemon' = [daemon EXCEPT ![d].live = FALSE]
    /\ UNCHANGED <<file, app, stopped, runs, crashes, slow, lost>>

-----------------------------------------------------------------------------
(* The app *)

Start ==
    /\ app.at \in {"off", "failed", "unreadable"} /\ runs < MaxRuns /\ Spare
    /\ runs' = runs + 1
    /\ Goes("reading", None)
    /\ stopped' = None
    /\ UNCHANGED <<file, daemon, crashes, slow, lost>>

\* Mutant: a file is waited for when there is none.
ReadWaits ==
    /\ app.at = "reading"
    /\ IF file.whole THEN Goes("probing", file.of) ELSE Goes("polling", None)
    /\ UNCHANGED <<file, daemon, stopped, runs, crashes, slow, lost>>

\* connect_or_spawn; a file that does not parse ends it.
Read ==
    /\ app.at = "reading"
    /\ IF file = Absent THEN Goes("spawning", None)
       ELSE IF file.whole THEN Goes("probing", file.of) ELSE Goes("unreadable", None)
    /\ UNCHANGED <<file, daemon, stopped, runs, crashes, slow, lost>>

\* The pid is alive and the handshake succeeds; an old daemon without live
\* sessions is asked to shut down.
Probe ==
    LET d == app.d
    IN  /\ app.at = "probing"
        /\ \/ /\ Serves(d)
              /\ IF daemon[d].old /\ ~daemon[d].live
                 THEN Goes("sleeping", d) /\ daemon' = Shutdown(d)
                 ELSE Goes("connected", d) /\ daemon' = daemon
              /\ slow' = slow
           \/ /\ Serves(d) => slow < MaxSlow
              /\ slow' = IF Serves(d) THEN slow + 1 ELSE slow
              /\ Goes("removing", d) /\ daemon' = daemon
        /\ UNCHANGED <<file, stopped, runs, crashes, lost>>

RemoveFile ==
    /\ app.at = "removing"
    /\ file' = Absent
    /\ Goes("spawning", None)
    /\ UNCHANGED <<daemon, stopped, runs, crashes, slow, lost>>

\* Half a second, in which a thread of 200 ms comes to its end.
Slept ==
    /\ app.at \in {"sleeping", "upgrading"} /\ ~daemon[app.d].doomed
    /\ Goes(IF app.at = "sleeping" THEN "spawning" ELSE "reading", None)
    /\ UNCHANGED <<file, daemon, stopped, runs, crashes, slow, lost>>

SpawnDaemon ==
    /\ app.at = "spawning"
    /\ \E d \in Daemons :
          /\ daemon[d].at = "unborn" /\ \A e \in 1..d - 1 : daemon[e].at # "unborn"
          /\ daemon' = [daemon EXCEPT ![d].at = "starting"]
    /\ Goes("polling", None)
    /\ UNCHANGED <<file, stopped, runs, crashes, slow, lost>>

\* spawn_and_connect reads and connects until it succeeds.
Poll ==
    /\ app.at = "polling" /\ file # Absent
    /\ IF file.whole THEN Goes("dialing", file.of) ELSE Goes("unreadable", None)
    /\ UNCHANGED <<file, daemon, stopped, runs, crashes, slow, lost>>

Dial ==
    LET d == app.d
    IN  /\ app.at = "dialing"
        /\ \/ Serves(d) /\ Goes("connected", d) /\ slow' = slow
           \/ /\ Serves(d) => slow < MaxSlow
              /\ slow' = IF Serves(d) THEN slow + 1 ELSE slow
              /\ Goes("polling", None)
        /\ UNCHANGED <<file, daemon, stopped, runs, crashes, lost>>

\* The tries last longer than a daemon takes to come up.
GiveUp ==
    /\ app.at = "polling" /\ Starting = {}
    /\ file = Absent \/ ~Serves(file.of)
    /\ Goes("failed", None)
    /\ UNCHANGED <<file, daemon, stopped, runs, crashes, slow, lost>>

CreateSession ==
    /\ app.at = "connected" /\ Serves(app.d)
    /\ daemon' = [daemon EXCEPT ![app.d].live = TRUE]
    /\ UNCHANGED <<file, app, stopped, runs, crashes, slow, lost>>

Route ==
    /\ app.at = "connected" /\ Serves(app.d)
    /\ daemon' = [daemon EXCEPT ![app.d].routing = ~@]
    /\ UNCHANGED <<file, app, stopped, runs, crashes, slow, lost>>

\* upgrade_daemon_if_idle, before a remote session is created.
Upgrade ==
    LET d == app.d
    IN  /\ app.at = "connected" /\ Serves(d) /\ daemon[d].old /\ ~daemon[d].live
        /\ Spare
        /\ daemon' = Shutdown(d)
        /\ Goes("upgrading", d)
        /\ UNCHANGED <<file, stopped, runs, crashes, slow, lost>>

\* The app goes to the background or dies, also while it starts.
Quit ==
    /\ app.at \notin {"off", "failed", "unreadable"}
    /\ Goes("off", None)
    /\ UNCHANGED <<file, daemon, stopped, runs, crashes, slow, lost>>

\* cleanupTerminalProcessesForExit: close_all, and whatever comes of it a shutdown.
Leave ==
    /\ app.at = "connected"
    /\ Goes("closing", app.d)
    /\ UNCHANGED <<file, daemon, stopped, runs, crashes, slow, lost>>

CloseAll ==
    LET d == app.d
        closed == [daemon EXCEPT ![d].live = FALSE]
    IN  /\ app.at = "closing"
        /\ \/ Serves(d) /\ daemon' = closed /\ lost' = lost
           \/ ~Serves(d) /\ daemon' = daemon /\ lost' = lost
           \/ lost < MaxLost /\ lost' = lost + 1 /\ daemon' \in {daemon, closed}
        /\ Goes("asking", d)
        /\ UNCHANGED <<file, stopped, runs, crashes, slow>>

\* pty_daemon_shutdown_if_idle: no daemon or a running route service let the
\* app go; a request that fails keeps it.
Ask ==
    LET d == app.d
    IN  /\ app.at = "asking"
        /\ \/ /\ Serves(d) => daemon[d].routing
              /\ Goes("off", None) /\ UNCHANGED <<daemon, stopped, lost>>
           \/ /\ Serves(d) /\ ~daemon[d].routing
              /\ daemon' = Shutdown(d) /\ stopped' = d
              /\ Goes("off", None) /\ lost' = lost
           \/ /\ Serves(d) /\ lost < MaxLost
              /\ lost' = lost + 1
              /\ Goes("connected", d) /\ UNCHANGED <<daemon, stopped>>
        /\ UNCHANGED <<file, runs, crashes, slow>>

AppStep ==
    \/ Read \/ Probe \/ RemoveFile \/ Slept \/ SpawnDaemon \/ Poll \/ Dial \/ GiveUp
    \/ CloseAll \/ Ask
DaemonStep(d) == Claim(d) \/ Publish(d) \/ ShutdownFires(d)

Next ==
    \/ Start \/ AppStep \/ CreateSession \/ Route \/ Upgrade \/ Quit \/ Leave
    \/ \E d \in Daemons : DaemonStep(d) \/ Watch(d) \/ Crash(d) \/ SessionEnds(d)

Spec == Init /\ [][Next]_vars

\* Programs run on; nothing is said of the user, of sessions and of crashes.
FairSpec ==
    Spec /\ WF_vars(AppStep) /\ \A d \in Daemons : WF_vars(DaemonStep(d)) /\ WF_vars(Watch(d))

-----------------------------------------------------------------------------
(* Properties *)

\* Every daemon that serves can be found: the discovery file names it.  Two
\* daemons never serve at the same time.
Found == \A d \in Daemons : Serves(d) => file = [of |-> d, whole |-> TRUE]

\* An app that starts ends up with a daemon, unless a daemon is killed meanwhile or
\* it reads the file while it is being written.
StartSettles ==
    app.at = "reading" ~> (app.at \in {"connected", "unreadable", "off"} \/ crashes > 0)


-----------------------------------------------------------------------------
(* What the documents say and the code does not do *)

\* discovery.rs: no two daemons beside each other.
OneDaemon == Cardinality({d \in Daemons : Serves(d)}) <= 1

\* pty-daemon-contracts.md: with sessions a daemon never ends itself; neither
\* the thread of a Shutdown nor the watchdog ends one with a live session.
EndsUnderSession(d) ==
    Serves(d) /\ daemon[d].live /\ daemon'[d].at = "dead" /\ crashes' = crashes
ShutdownSparesSessions == [][\A d \in Daemons : EndsUnderSession(d) => ~daemon[d].doomed]_vars

\* pty-daemon-contracts.md: a shutdown that succeeds means that the daemon has
\* confirmed that no session is alive.
StoppedMeansIdle == stopped # None => ~daemon[stopped].live

\* discovery.rs: a file left by a dead daemon is removed by the app; the app
\* gives up on an incomplete file only while its daemon is writing it.
LeftoverRemoved ==
    [][app.at # "unreadable" /\ app'.at = "unreadable" => daemon[file.of].at = "writing"]_vars
=============================================================================

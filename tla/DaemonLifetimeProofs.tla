------------------------ MODULE DaemonLifetimeProofs ------------------------
(***************************************************************************)
(* Proofs about DaemonLifetime, for any number of daemons, crashes, lost   *)
(* requests and idle rounds.                                               *)
(***************************************************************************)
EXTENDS DaemonLifetime, TLAPS

\* The app looks for a daemon, or waits for one to end.
Searching == app.at \in {"reading", "probing", "removing", "spawning"}
Waiting == app.at \in {"sleeping", "upgrading"}

\* Who has claimed the file still has it, and a complete file was published.
FileClaimed ==
    /\ \A d \in Daemons : daemon[d].at = "writing" => file = [of |-> d, whole |-> FALSE]
    /\ file.whole => file.of \in Daemons /\ daemon[file.of].at \in {"serving", "dead"}
    /\ file.of = None => file = Absent

\* A daemon that comes up is not an old one, and has neither routes nor quiet rounds.
Newborn ==
    \A d \in Daemons : daemon[d].at \in {"unborn", "starting", "writing"} =>
        ~daemon[d].old /\ ~daemon[d].routing /\ ~daemon[d].doomed /\ daemon[d].calm = 0

\* Only the daemon of before the first start is old.
OneOld == \A d, e \in Daemons : daemon[d].old /\ daemon[e].old => d = e

\* A daemon is only doomed while the app waits for its end, or has left after it asked.
DoomWaited ==
    \A d \in Daemons : daemon[d].doomed =>
        /\ Serves(d)
        /\ (Waiting /\ app.d = d) \/ (app.at = "off" /\ runs > 0)

\* Before the app was started for the first time nothing comes up.
Untouched == runs = 0 => app.at = "off" /\ Starting = {}

\* The daemon whose end the app waits for ends, or has routes to keep it alive; what
\* took its place has had no quiet round.
WaitsForOld ==
    Waiting => /\ app.d \in Daemons /\ daemon[app.d].old
               /\ Serves(app.d) => daemon[app.d].doomed \/ daemon[app.d].routing
               /\ \A e \in Daemons \ {app.d} : Serves(e) => daemon[e].calm = 0

\* While the app looks for a daemon and another one is coming up, none that serves
\* goes idle: else the new one could claim the file the app is about to remove.
NoneLeaves ==
    Searching /\ Starting # {} =>
        \A e \in Daemons : Serves(e) => daemon[e].routing \/ daemon[e].calm = 0

\* What the app has read is still there, or nobody can claim a file meanwhile.
ReadStands ==
    app.at \in {"probing", "removing"} =>
        /\ app.d \in Daemons
        /\ daemon[app.d].at \in {"serving", "dead"}
        /\ app.at = "removing" => daemon[app.d].at = "dead"
        /\ file = [of |-> app.d, whole |-> TRUE] \/ (file = Absent /\ Starting = {})

\* Found strengthened: it holds until the app is started again or a daemon that serves
\* fails a handshake.
Trusted == runs <= 1 /\ slow = 0
Strong ==
    /\ FileClaimed /\ Newborn /\ OneOld /\ DoomWaited /\ Untouched
    /\ WaitsForOld /\ NoneLeaves /\ ReadStands /\ Found
FoundInv == TypeOK /\ (Trusted => Strong)

-----------------------------------------------------------------------------
(* Type correctness *)

\* An assignment to a field of a daemon keeps the type of the daemons.
LEMMA RecordTypes ==
    ASSUME NEW x \in Daemon
    PROVE  /\ \A a \in {"unborn", "starting", "writing", "serving", "dead"} :
                 [x EXCEPT !.at = a] \in Daemon
           /\ \A b \in BOOLEAN : /\ [x EXCEPT !.at = "dead", !.old = b] \in Daemon
                                 /\ [x EXCEPT !.live = b] \in Daemon
                                 /\ [x EXCEPT !.routing = b] \in Daemon
                                 /\ [x EXCEPT !.doomed = b] \in Daemon
           /\ \A w \in {"asleep", "noclients", "nosessions"} :
                 /\ [x EXCEPT !.watch = w] \in Daemon
                 /\ \A c \in 0..IdleRounds : [x EXCEPT !.watch = w, !.calm = c] \in Daemon
<1>1. \A a \in {"unborn", "starting", "writing", "serving", "dead"} : [x EXCEPT !.at = a] \in Daemon
  BY Zenon DEF Daemon
<1>2. \A b \in BOOLEAN : [x EXCEPT !.at = "dead", !.old = b] \in Daemon
  BY Zenon DEF Daemon
<1>3. \A b \in BOOLEAN : [x EXCEPT !.live = b] \in Daemon
  BY Zenon DEF Daemon
<1>4. \A b \in BOOLEAN : [x EXCEPT !.routing = b] \in Daemon
  BY Zenon DEF Daemon
<1>5. \A b \in BOOLEAN : [x EXCEPT !.doomed = b] \in Daemon
  BY Zenon DEF Daemon
<1>6. \A w \in {"asleep", "noclients", "nosessions"} : [x EXCEPT !.watch = w] \in Daemon
  BY Zenon DEF Daemon
<1>7. \A w \in {"asleep", "noclients", "nosessions"} : \A c \in 0..IdleRounds :
         [x EXCEPT !.watch = w, !.calm = c] \in Daemon
  BY Zenon DEF Daemon
<1> QED
  BY <1>1, <1>2, <1>3, <1>4, <1>5, <1>6, <1>7, Zenon

LEMMA UnbornType == Unborn \in Daemon
BY LifetimeConstants DEF Unborn, Daemon

Typed(f) == f \in [Daemons -> Daemon]

LEMMA DaemonTypes ==
    ASSUME Typed(daemon), NEW d \in Daemons
    PROVE  /\ \A a \in {"unborn", "starting", "writing", "serving", "dead"} :
                 Typed([daemon EXCEPT ![d].at = a])
           /\ Typed([daemon EXCEPT ![d].live = TRUE])
           /\ Typed([daemon EXCEPT ![d].live = FALSE])
           /\ Typed([daemon EXCEPT ![d].routing = ~@])
           /\ Typed(Shutdown(d))
           /\ Typed(Ended(d))
           /\ \A w \in {"asleep", "noclients", "nosessions"} :
                 /\ Typed([daemon EXCEPT ![d].watch = w])
                 /\ \A c \in 0..IdleRounds :
                       Typed([daemon EXCEPT ![d].watch = w, ![d].calm = c])
<1> USE DEF Typed
<1>0. /\ daemon[d] \in Daemon
      /\ daemon[d].old \in BOOLEAN
  BY DEF Daemon
<1>1. \A x \in Daemon : [daemon EXCEPT ![d] = x] \in [Daemons -> Daemon]
  OBVIOUS
<1>2. \A a \in {"unborn", "starting", "writing", "serving", "dead"} :
         [daemon EXCEPT ![d].at = a] \in [Daemons -> Daemon]
  BY <1>0, <1>1, RecordTypes, Zenon
<1>3. /\ [daemon EXCEPT ![d].live = TRUE] \in [Daemons -> Daemon]
      /\ [daemon EXCEPT ![d].live = FALSE] \in [Daemons -> Daemon]
  <2>1. \A b \in BOOLEAN : [daemon EXCEPT ![d].live = b] \in [Daemons -> Daemon]
    BY <1>0, <1>1, RecordTypes, Zenon
  <2> QED
    BY <2>1, Zenon
<1>4. [daemon EXCEPT ![d].routing = ~@] \in [Daemons -> Daemon]
  <2>1. \A b \in BOOLEAN : [daemon EXCEPT ![d].routing = b] \in [Daemons -> Daemon]
    BY <1>0, <1>1, RecordTypes, Zenon
  <2>2. (~daemon[d].routing) \in BOOLEAN
    OBVIOUS
  <2> QED
    BY <2>1, <2>2, Zenon
<1>5. Shutdown(d) \in [Daemons -> Daemon]
  <2>1. \A b \in BOOLEAN : [daemon EXCEPT ![d].doomed = b] \in [Daemons -> Daemon]
    BY <1>0, <1>1, RecordTypes, Zenon
  <2>2. (daemon[d].doomed \/ ~(daemon[d].live \/ daemon[d].routing)) \in BOOLEAN
    OBVIOUS
  <2> QED
    BY <2>1, <2>2, Zenon DEF Shutdown
<1>6. Ended(d) \in [Daemons -> Daemon]
  BY <1>0, <1>1, RecordTypes, UnbornType, Zenon DEF Ended
<1>7. \A w \in {"asleep", "noclients", "nosessions"} :
         [daemon EXCEPT ![d].watch = w] \in [Daemons -> Daemon]
  BY <1>0, <1>1, RecordTypes, Zenon
<1>8. \A w \in {"asleep", "noclients", "nosessions"} : \A c \in 0..IdleRounds :
         [daemon EXCEPT ![d].watch = w, ![d].calm = c] \in [Daemons -> Daemon]
  BY <1>0, <1>1, RecordTypes, Zenon
<1> QED
  BY <1>2, <1>3, <1>4, <1>5, <1>6, <1>7, <1>8, Zenon

FileTyped(f) == f \in [of: {None} \cup Daemons, whole: BOOLEAN]

LEMMA FileTypes ==
    /\ FileTyped(Absent)
    /\ \A d \in Daemons : FileTyped([of |-> d, whole |-> TRUE]) /\ FileTyped([of |-> d, whole |-> FALSE])
    /\ FileTyped(file) => FileTyped([file EXCEPT !.whole = TRUE])
<1>1. \A d \in {None} \cup Daemons : \A b \in BOOLEAN : FileTyped([of |-> d, whole |-> b])
  BY Zenon DEF FileTyped
<1>2. FileTyped(file) => \A b \in BOOLEAN : FileTyped([file EXCEPT !.whole = b])
  BY Zenon DEF FileTyped
<1> QED
  BY <1>1, <1>2, Zenon DEF Absent

LEMMA InitTypes == Init => TypeOK
<1> SUFFICES ASSUME Init PROVE TypeOK
  OBVIOUS
<1>1. 1 \in Daemons
  BY LifetimeConstants DEF Daemons
<1>2. ASSUME NEW u \in Daemon, NEW live \in BOOLEAN, NEW routing \in BOOLEAN
      PROVE  [u EXCEPT !.at = "serving", !.old = TRUE, !.live = live, !.routing = routing] \in Daemon
  <2>1. \A b \in BOOLEAN :
           [u EXCEPT !.at = "serving", !.old = b, !.live = live, !.routing = routing] \in Daemon
    BY Zenon DEF Daemon
  <2> QED
    BY <2>1, Zenon
<1>3. [Unborn EXCEPT !.at = "dead"] \in Daemon
  BY UnbornType, RecordTypes, Zenon
<1>4. daemon \in [Daemons -> Daemon]
  <2>1. ASSUME NEW x \in Daemon
        PROVE  [d \in Daemons |-> IF d # 1 THEN Unborn ELSE x] \in [Daemons -> Daemon]
    BY UnbornType
  <2>2. \/ daemon = [d \in Daemons |-> Unborn]
        \/ \E dead, live, routing \in BOOLEAN :
              daemon = [d \in Daemons |->
                    IF d # 1 THEN Unborn
                    ELSE IF dead THEN [Unborn EXCEPT !.at = "dead"]
                    ELSE [Unborn EXCEPT !.at = "serving", !.old = TRUE,
                                        !.live = live, !.routing = routing]]
    BY Zenon DEF Init
  <2>3. ASSUME NEW dead \in BOOLEAN, NEW live \in BOOLEAN, NEW routing \in BOOLEAN
        PROVE  (IF dead THEN [Unborn EXCEPT !.at = "dead"]
                ELSE [Unborn EXCEPT !.at = "serving", !.old = TRUE,
                                    !.live = live, !.routing = routing]) \in Daemon
    BY <1>2, <1>3, UnbornType, Zenon
  <2>4. [d \in Daemons |-> Unborn] \in [Daemons -> Daemon]
    BY UnbornType
  <2>5. ASSUME NEW dead \in BOOLEAN, NEW live \in BOOLEAN, NEW routing \in BOOLEAN
        PROVE  [d \in Daemons |->
                    IF d # 1 THEN Unborn
                    ELSE IF dead THEN [Unborn EXCEPT !.at = "dead"]
                    ELSE [Unborn EXCEPT !.at = "serving", !.old = TRUE,
                                        !.live = live, !.routing = routing]] \in [Daemons -> Daemon]
    BY <2>1, <2>3, Zenon
  <2> QED
    <3>1. SUFFICES ASSUME NEW dead \in BOOLEAN, NEW live \in BOOLEAN, NEW routing \in BOOLEAN,
                          daemon = [d \in Daemons |->
                              IF d # 1 THEN Unborn
                              ELSE IF dead THEN [Unborn EXCEPT !.at = "dead"]
                              ELSE [Unborn EXCEPT !.at = "serving", !.old = TRUE,
                                                  !.live = live, !.routing = routing]]
                   PROVE  daemon \in [Daemons -> Daemon]
      BY <2>2, <2>4
    <3> QED
      BY <3>1, <2>5, Zenon
<1>5. FileTyped(file)
  BY <1>1, FileTypes, Zenon DEF Init
<1> QED
  BY <1>4, <1>5 DEF Init, TypeOK, FileTyped, None

\* What the daemons become in any step.
LEMMA DaemonsStep == TypeOK /\ [Next]_vars => Typed(daemon')
<1> SUFFICES ASSUME TypeOK, [Next]_vars PROVE Typed(daemon')
  OBVIOUS
<1>t. Typed(daemon)
  BY DEF TypeOK, Typed
<1>c. \A d \in Daemons : daemon[d].calm \in 0..IdleRounds
  BY <1>t DEF Daemon, Typed
<1>a. Serves(app.d) => app.d \in Daemons
  BY DEF TypeOK, Serves
<1>1. ASSUME NEW d \in Daemons, Claim(d) \/ Publish(d) PROVE Typed(daemon')
  BY <1>t, <1>1, DaemonTypes, Zenon DEF Claim, Publish
<1>2. ASSUME NEW d \in Daemons, ShutdownFires(d) \/ Crash(d) PROVE Typed(daemon')
  BY <1>t, <1>2, DaemonTypes, Zenon DEF ShutdownFires, Crash, Exits
<1>3. ASSUME NEW d \in Daemons, Watch(d) PROVE Typed(daemon')
  <2>1. \/ daemon' = Ended(d)
        \/ \E w \in {"asleep", "noclients", "nosessions"} :
              \/ daemon' = [daemon EXCEPT ![d].watch = w]
              \/ \E c \in 0..IdleRounds : daemon' = [daemon EXCEPT ![d].watch = w, ![d].calm = c]
    <3>1. 0 \in 0..IdleRounds
          /\ (daemon[d].calm # IdleRounds => daemon[d].calm + 1 \in 0..IdleRounds)
      BY <1>c, LifetimeConstants
    <3>2. \/ daemon' = Ended(d)
          \/ daemon' = [daemon EXCEPT ![d].watch = "noclients"]
          \/ daemon' = [daemon EXCEPT ![d].watch = "nosessions"]
          \/ daemon' = [daemon EXCEPT ![d].watch = "asleep", ![d].calm = 0]
          \/ /\ daemon[d].calm # IdleRounds
             /\ daemon' = [daemon EXCEPT ![d].watch = "asleep", ![d].calm = @ + 1]
      <4>1. daemon[d].watch \in {"asleep", "noclients", "nosessions"}
        BY <1>t DEF Typed, Daemon
      <4> QED
        BY <1>3, <4>1, Zenon DEF Watch, Exits
    <3> QED
      BY <3>1, <3>2, Zenon
  <2> QED
    <3>1. CASE daemon' = Ended(d)
      BY <1>t, <3>1, DaemonTypes, Zenon
    <3>2. ASSUME NEW w \in {"asleep", "noclients", "nosessions"},
                 daemon' = [daemon EXCEPT ![d].watch = w]
          PROVE  Typed(daemon')
      BY <1>t, <3>2, DaemonTypes, Zenon
    <3>3. ASSUME NEW w \in {"asleep", "noclients", "nosessions"}, NEW c \in 0..IdleRounds,
                 daemon' = [daemon EXCEPT ![d].watch = w, ![d].calm = c]
          PROVE  Typed(daemon')
      BY <1>t, <3>3, DaemonTypes, Zenon
    <3> QED
      BY <2>1, <3>1, <3>2, <3>3, Zenon
<1>4. ASSUME NEW d \in Daemons, SessionEnds(d) PROVE Typed(daemon')
  BY <1>t, <1>4, DaemonTypes, Zenon DEF SessionEnds
<1>5. CASE Probe \/ Upgrade \/ Ask
  <2>1. daemon' = daemon \/ (Serves(app.d) /\ daemon' = Shutdown(app.d))
    BY <1>5 DEF Probe, Upgrade, Ask
  <2> QED
    BY <1>t, <1>a, <2>1, DaemonTypes, Zenon
<1>6. CASE SpawnDaemon
  BY <1>t, <1>6, DaemonTypes, Zenon DEF SpawnDaemon
<1>7. CASE CreateSession \/ Route
  BY <1>t, <1>a, <1>7, DaemonTypes, Zenon DEF CreateSession, Route
<1>8. CASE CloseAll
  <2>1. ASSUME app.d \notin Daemons PROVE [daemon EXCEPT ![app.d].live = FALSE] = daemon
    BY <1>t, <2>1, Zenon DEF Typed
  <2>2. daemon' = daemon \/ daemon' = [daemon EXCEPT ![app.d].live = FALSE]
    BY <1>8, Zenon DEF CloseAll
  <2> QED
    BY <1>t, <2>1, <2>2, DaemonTypes, Zenon
<1>9. CASE Start \/ Read \/ RemoveFile \/ Slept \/ Poll \/ Dial \/ GiveUp \/ Quit \/ Leave
           \/ UNCHANGED vars
  BY <1>t, <1>9 DEF Start, Read, RemoveFile, Slept, Poll, Dial, GiveUp, Quit, Leave, vars
<1> QED
  BY <1>1, <1>2, <1>3, <1>4, <1>5, <1>6, <1>7, <1>8, <1>9 DEF Next, AppStep, DaemonStep

LEMMA TypeStep == TypeOK /\ [Next]_vars => TypeOK'
<1> SUFFICES ASSUME TypeOK, [Next]_vars PROVE TypeOK'
  OBVIOUS
<1>1. daemon' \in [Daemons -> Daemon]
  BY DaemonsStep DEF Typed
<1>2. FileTyped(file')
  <2>1. FileTyped(file)
    BY DEF TypeOK, FileTyped
  <2>2. ASSUME NEW d \in Daemons, DaemonStep(d) \/ Watch(d) \/ Crash(d) \/ SessionEnds(d)
        PROVE  FileTyped(file')
    <3>1. \/ file' = file \/ file' = Absent
          \/ file' = [of |-> d, whole |-> FALSE] \/ file' = [file EXCEPT !.whole = TRUE]
      <4>1. daemon[d].watch \in {"asleep", "noclients", "nosessions"}
        BY DEF TypeOK, Daemon
      <4>2. CASE Watch(d)
        BY <4>1, <4>2, Zenon DEF Watch, Exits
      <4>3. CASE DaemonStep(d)
        BY <4>3, Zenon DEF DaemonStep, Claim, Publish, ShutdownFires, Exits
      <4>4. CASE Crash(d) \/ SessionEnds(d)
        BY <4>4, Zenon DEF Crash, SessionEnds
      <4> QED
        BY <2>2, <4>2, <4>3, <4>4
    <3> QED
      BY <2>1, <3>1, FileTypes, Zenon
  <2>3. CASE AppStep
    BY <2>1, <2>3, FileTypes, Zenon
    DEF AppStep, Read, Probe, RemoveFile, Slept, SpawnDaemon, Poll, Dial, GiveUp, CloseAll, Ask
  <2>4. CASE Start \/ CreateSession \/ Route \/ Upgrade \/ Quit \/ Leave \/ UNCHANGED vars
    BY <2>1, <2>4, Zenon DEF Start, CreateSession, Route, Upgrade, Quit, Leave, vars
  <2> QED
    BY <2>2, <2>3, <2>4 DEF Next
<1>3. app' \in [at: {"off", "reading", "probing", "removing", "sleeping", "upgrading", "spawning",
                     "polling", "dialing", "connected", "closing", "asking", "failed", "unreadable"},
                d: {None} \cup Daemons]
  <2> USE DEF TypeOK, Goes
  <2>1. ASSUME NEW d \in Daemons, DaemonStep(d) \/ Watch(d) \/ Crash(d) \/ SessionEnds(d)
        PROVE  app' = app
    BY <2>1, Zenon DEF DaemonStep, Claim, Publish, ShutdownFires, Watch, Crash, SessionEnds
  <2>2. CASE Start \/ Read \/ Slept \/ SpawnDaemon \/ Poll \/ GiveUp \/ Quit \/ Leave
    BY <2>2 DEF Start, Read, Slept, SpawnDaemon, Poll, GiveUp, Quit, Leave
  <2>3. CASE Probe \/ RemoveFile \/ Dial \/ CreateSession \/ Route \/ Upgrade
    BY <2>3 DEF Probe, RemoveFile, Dial, CreateSession, Route, Upgrade
  <2>4. CASE CloseAll \/ Ask \/ UNCHANGED vars
    BY <2>4 DEF CloseAll, Ask, vars
  <2> QED
    BY <2>1, <2>2, <2>3, <2>4 DEF Next, AppStep
<1>4. /\ stopped' \in {None} \cup Daemons
      /\ runs' \in Nat /\ crashes' \in Nat /\ slow' \in Nat /\ lost' \in Nat
  <2>0. /\ stopped \in {None} \cup Daemons
        /\ runs \in Nat /\ crashes \in Nat /\ slow \in Nat /\ lost \in Nat
        /\ app.d \in {None} \cup Daemons
    BY DEF TypeOK
  <2>1. ASSUME NEW d \in Daemons, DaemonStep(d) \/ Watch(d) \/ Crash(d) \/ SessionEnds(d)
        PROVE  UNCHANGED <<stopped, runs, slow, lost>> /\ (crashes' = crashes \/ crashes' = crashes + 1)
    BY <2>1, Zenon DEF DaemonStep, Claim, Publish, ShutdownFires, Watch, Crash, SessionEnds
  <2>2. CASE AppStep \/ Start \/ CreateSession \/ Route \/ Upgrade \/ Quit \/ Leave \/ UNCHANGED vars
    <3>1. /\ stopped' \in {stopped, None, app.d} /\ crashes' = crashes
          /\ runs' \in {runs, runs + 1} /\ slow' \in {slow, slow + 1} /\ lost' \in {lost, lost + 1}
      BY <2>2, Zenon
      DEF AppStep, Start, Read, Probe, RemoveFile, Slept, SpawnDaemon, Poll, Dial, GiveUp, CloseAll,
          Ask, CreateSession, Route, Upgrade, Quit, Leave, vars
    <3> QED
      BY <3>1, <2>0
  <2> QED
    BY <2>0, <2>1, <2>2 DEF Next
<1> QED
  BY <1>1, <1>2, <1>3, <1>4 DEF TypeOK, FileTyped

\* The state of the processes, of the file and of the app has its type.
THEOREM TypeCorrect == Spec => []TypeOK
<1>1. Init => TypeOK
  BY InitTypes
<1>2. TypeOK /\ [Next]_vars => TypeOK'
  BY TypeStep
<1> QED
  BY <1>1, <1>2, PTL DEF Spec

-----------------------------------------------------------------------------
(* What a step does to the daemons *)

\* What d is after a step that leaves the other daemons alone.
Becomes(d, at, old, routing, doomed, calm) ==
    /\ daemon'[d].at = at /\ daemon'[d].old = old /\ daemon'[d].routing = routing
    /\ daemon'[d].doomed = doomed /\ daemon'[d].calm = calm
    /\ \A e \in Daemons : e # d => daemon'[e] = daemon[e]
Turns(d, at) == Becomes(d, at, daemon[d].old, daemon[d].routing, daemon[d].doomed, daemon[d].calm)
Same(d) == Turns(d, daemon[d].at)
Dies(d) == Becomes(d, "dead", daemon[d].old, FALSE, FALSE, 0)
Rests(d, c) ==
    Becomes(d, daemon[d].at, daemon[d].old, daemon[d].routing, daemon[d].doomed, c)
Routes(d, b) == Becomes(d, daemon[d].at, daemon[d].old, b, daemon[d].doomed, daemon[d].calm)
Dooms(d, b) == Becomes(d, daemon[d].at, daemon[d].old, daemon[d].routing, b, daemon[d].calm)

LEMMA Assignments ==
    ASSUME TypeOK, NEW d \in Daemons
    PROVE  /\ \A a : daemon' = [daemon EXCEPT ![d].at = a] => Turns(d, a)
           /\ daemon' = Ended(d) => Dies(d)
           /\ \A w : daemon' = [daemon EXCEPT ![d].watch = w] => Same(d)
           /\ \A w, c : daemon' = [daemon EXCEPT ![d].watch = w, ![d].calm = c] => Rests(d, c)
           /\ \A b : daemon' = [daemon EXCEPT ![d].live = b] => Same(d)
           /\ \A b : daemon' = [daemon EXCEPT ![d].routing = b] => Routes(d, b)
           /\ \A b : daemon' = [daemon EXCEPT ![d].doomed = b] => Dooms(d, b)
<1>0. /\ DOMAIN daemon = Daemons
      /\ DOMAIN daemon[d] = {"at", "old", "live", "routing", "doomed", "watch", "calm"}
      /\ daemon = [e \in Daemons |-> daemon[e]]
  BY DEF TypeOK, Daemon
<1> USE DEF Becomes, Turns, Same, Dies, Rests, Routes, Dooms
<1>1. \A a : daemon' = [daemon EXCEPT ![d].at = a] => Turns(d, a)
  BY <1>0
<1>2. daemon' = Ended(d) => Dies(d)
  <2> DEFINE r == [Unborn EXCEPT !.at = "dead", !.old = daemon[d].old]
  <2>1. r.at = "dead" /\ r.old = daemon[d].old /\ r.routing = FALSE /\ r.doomed = FALSE /\ r.calm = 0
    BY DEF Unborn
  <2>2. Ended(d) = [daemon EXCEPT ![d] = r]
    BY DEF Ended
  <2> HIDE DEF r
  <2> QED
    BY <1>0, <2>1, <2>2
<1>3. \A w : daemon' = [daemon EXCEPT ![d].watch = w] => Same(d)
  BY <1>0
<1>4. \A w, c : daemon' = [daemon EXCEPT ![d].watch = w, ![d].calm = c] => Rests(d, c)
  <2> SUFFICES ASSUME NEW w, NEW c, daemon' = [daemon EXCEPT ![d].watch = w, ![d].calm = c]
               PROVE  Rests(d, c)
    OBVIOUS
  <2> DEFINE r == [daemon[d] EXCEPT !.watch = w, !.calm = c]
  <2>1. /\ r.at = daemon[d].at /\ r.old = daemon[d].old /\ r.routing = daemon[d].routing
        /\ r.doomed = daemon[d].doomed /\ r.calm = c
    BY <1>0
  <2>2. daemon' = [daemon EXCEPT ![d] = r]
    BY <1>0, Zenon
  <2> HIDE DEF r
  <2> QED
    BY <1>0, <2>1, <2>2
<1>5. \A b : daemon' = [daemon EXCEPT ![d].live = b] => Same(d)
  BY <1>0
<1>6. \A b : daemon' = [daemon EXCEPT ![d].routing = b] => Routes(d, b)
  BY <1>0
<1>7. \A b : daemon' = [daemon EXCEPT ![d].doomed = b] => Dooms(d, b)
  BY <1>0
<1> QED
  BY <1>1, <1>2, <1>3, <1>4, <1>5, <1>6, <1>7, Zenon

-----------------------------------------------------------------------------
(* A daemon that serves is found *)

LEMMA FoundStep == FoundInv /\ [Next]_vars => FoundInv'
<1> SUFFICES ASSUME FoundInv, [Next]_vars PROVE FoundInv'
  OBVIOUS
<1>t. TypeOK /\ TypeOK'
  BY TypeStep DEF FoundInv
<1>r. Trusted' => Trusted
  <2>1. runs' \in {runs, runs + 1} /\ slow' \in {slow, slow + 1}
    BY Zenon DEF Next, AppStep, DaemonStep, Claim, Publish, ShutdownFires, Watch, Crash,
     SessionEnds, Start, Read, Probe, RemoveFile, Slept, SpawnDaemon, Poll, Dial, GiveUp, CloseAll, Ask,
     CreateSession, Route, Upgrade, Quit, Leave, vars
  <2> QED
    BY <1>t, <2>1 DEF TypeOK, Trusted
<1> SUFFICES ASSUME Trusted, Trusted', Strong PROVE Strong'
  BY <1>t, <1>r DEF FoundInv
<1>d. /\ app.d \in {None} \cup Daemons /\ None \notin Daemons /\ runs \in Nat
      /\ \A d \in Daemons : daemon[d].calm \in 0..IdleRounds
      /\ file.of \in {None} \cup Daemons
      /\ \A d \in Daemons : daemon[d].at \in {"unborn", "starting", "writing", "serving", "dead"}
  BY <1>t DEF TypeOK, Daemon, None, Daemons
<1>1. ASSUME NEW d \in Daemons, Claim(d) PROVE Strong'
  <2>1. daemon[d].at = "starting" /\ app' = app /\ runs' = runs
    BY <1>1, Zenon DEF Claim
  <2>2. \/ file = Absent /\ file' = [of |-> d, whole |-> FALSE] /\ Turns(d, "writing")
        \/ file # Absent /\ file' = file /\ Turns(d, "dead")
    BY <1>t, <1>1, Assignments, Zenon DEF Claim
  <2> USE DEF Strong, Becomes, Turns, Same, Dies, Rests, Routes, Dooms, Searching, Waiting, Serves,
              Starting, Absent, Resting
  <2>3. FileClaimed'
    BY <1>d, <2>1, <2>2 DEF FileClaimed, Found, ReadStands, NoneLeaves
  <2>4. Newborn'
    BY <1>d, <2>1, <2>2 DEF Newborn
  <2>5. OneOld'
    BY <1>d, <2>1, <2>2 DEF OneOld, Newborn
  <2>6. DoomWaited'
    BY <1>d, <2>1, <2>2 DEF DoomWaited, Untouched
  <2>7. Untouched'
    BY <1>d, <2>1, <2>2 DEF Untouched
  <2>8. WaitsForOld'
    BY <1>d, <2>1, <2>2 DEF WaitsForOld, Found, Newborn, OneOld, Untouched
  <2>9. NoneLeaves'
    BY <1>d, <2>1, <2>2 DEF NoneLeaves, WaitsForOld, Untouched, DoomWaited, Newborn, OneOld
  <2>10. ReadStands'
    BY <1>d, <2>1, <2>2 DEF ReadStands, NoneLeaves, FileClaimed, Found, DoomWaited
  <2>11. Found'
    BY <1>d, <2>1, <2>2 DEF Found, FileClaimed, ReadStands
  <2> QED
    BY <2>3, <2>4, <2>5, <2>6, <2>7, <2>8, <2>9, <2>10, <2>11
<1>2. ASSUME NEW d \in Daemons, Publish(d) PROVE Strong'
  <2>1. daemon[d].at = "writing" /\ app' = app /\ runs' = runs
    BY <1>2, Zenon DEF Publish
  <2>2. Turns(d, "serving")
    BY <1>t, <1>2, Assignments, Zenon DEF Publish
  <2>3. /\ file = [of |-> d, whole |-> FALSE]
        /\ file' = IF file.of = d THEN [file EXCEPT !.whole = TRUE] ELSE file
    BY <1>2, <2>1 DEF Publish, Strong, FileClaimed
  <2>4. file' = [of |-> d, whole |-> TRUE]
    BY <2>3
  <2> USE DEF Strong, Becomes, Turns, Same, Dies, Rests, Routes, Dooms, Searching, Waiting, Serves,
              Starting, Absent, Resting
  <2>5. FileClaimed'
    BY <1>d, <2>1, <2>2, <2>3, <2>4 DEF FileClaimed, Found, ReadStands, NoneLeaves
  <2>6. Newborn'
    BY <1>d, <2>1, <2>2, <2>3, <2>4 DEF Newborn
  <2>7. OneOld'
    BY <1>d, <2>1, <2>2, <2>3, <2>4 DEF OneOld, Newborn
  <2>8. DoomWaited'
    BY <1>d, <2>1, <2>2, <2>3, <2>4 DEF DoomWaited, Untouched
  <2>9. Untouched'
    BY <1>d, <2>1, <2>2, <2>3, <2>4 DEF Untouched
  <2>10. WaitsForOld'
    BY <1>d, <2>1, <2>2, <2>3, <2>4 DEF WaitsForOld, Found, Newborn, OneOld, Untouched
  <2>11. NoneLeaves'
    BY <1>d, <2>1, <2>2, <2>3, <2>4 DEF NoneLeaves, WaitsForOld,
     Untouched, DoomWaited, Newborn, OneOld
  <2>12. ReadStands'
    BY <1>d, <2>1, <2>2, <2>3, <2>4 DEF ReadStands, NoneLeaves, FileClaimed, Found, DoomWaited
  <2>13. Found'
    BY <1>d, <2>1, <2>2, <2>3, <2>4 DEF Found, FileClaimed, ReadStands
  <2> QED
    BY <2>5, <2>6, <2>7, <2>8, <2>9, <2>10, <2>11, <2>12, <2>13
<1>3. ASSUME NEW d \in Daemons, ShutdownFires(d) PROVE Strong'
  <2>1. Serves(d) /\ app' = app /\ runs' = runs /\ daemon[d].doomed /\ file' = Absent
    BY <1>3, Zenon DEF ShutdownFires, Exits
  <2>2. Dies(d)
    BY <1>t, <1>3, Assignments, Zenon DEF ShutdownFires, Exits
  <2> USE DEF Strong, Becomes, Turns, Same, Dies, Rests, Routes, Dooms, Searching, Waiting, Serves,
              Starting, Absent, Resting
  <2>3. FileClaimed'
    BY <1>d, <2>1, <2>2 DEF FileClaimed, Found, ReadStands, NoneLeaves
  <2>4. Newborn'
    BY <1>d, <2>1, <2>2 DEF Newborn
  <2>5. OneOld'
    BY <1>d, <2>1, <2>2 DEF OneOld, Newborn
  <2>6. DoomWaited'
    BY <1>d, <2>1, <2>2 DEF DoomWaited, Untouched
  <2>7. Untouched'
    BY <1>d, <2>1, <2>2 DEF Untouched
  <2>8. WaitsForOld'
    BY <1>d, <2>1, <2>2 DEF WaitsForOld, Found, Newborn, OneOld, Untouched
  <2>9. NoneLeaves'
    BY <1>d, <2>1, <2>2 DEF NoneLeaves, WaitsForOld, Untouched, DoomWaited, Newborn, OneOld
  <2>10. ReadStands'
    BY <1>d, <2>1, <2>2 DEF ReadStands, NoneLeaves, FileClaimed, Found, DoomWaited
  <2>11. Found'
    BY <1>d, <2>1, <2>2 DEF Found, FileClaimed, ReadStands
  <2> QED
    BY <2>3, <2>4, <2>5, <2>6, <2>7, <2>8, <2>9, <2>10, <2>11
<1>4. ASSUME NEW d \in Daemons, Watch(d) PROVE Strong'
  <2>1. Serves(d) /\ app' = app /\ runs' = runs
    BY <1>4, Zenon DEF Watch, Exits
  <2>2. \/ file' = file /\ Same(d)
        \/ file' = file /\ Rests(d, 0)
        \/ file' = file /\ Resting /\ Rests(d, daemon[d].calm + 1)
        \/ /\ file' = Absent /\ ~daemon[d].routing /\ daemon[d].calm # 0
           /\ Dies(d)
    <3>1. /\ daemon[d].watch \in {"asleep", "noclients", "nosessions"}
          /\ IdleRounds # 0
      BY <1>t, LifetimeConstants DEF TypeOK, Daemon
    <3>2. \/ file' = file /\ daemon' = [daemon EXCEPT ![d].watch = "noclients"]
          \/ file' = file /\ daemon' = [daemon EXCEPT ![d].watch = "nosessions"]
          \/ file' = file /\ daemon' = [daemon EXCEPT ![d].watch = "asleep", ![d].calm = 0]
          \/ /\ file' = file /\ Resting
             /\ daemon' = [daemon EXCEPT ![d].watch = "asleep", ![d].calm = @ + 1]
          \/ file' = Absent /\ ~daemon[d].routing /\ daemon[d].calm = IdleRounds /\ daemon' = Ended(d)
      BY <1>4, <3>1, Zenon DEF Watch, Exits
    <3> QED
      BY <1>t, <3>1, <3>2, Assignments, Zenon
  <2> USE DEF Strong, Becomes, Turns, Same, Dies, Rests, Routes, Dooms, Searching, Waiting, Serves,
              Starting, Absent, Resting
  <2>3. FileClaimed'
    BY <1>d, <2>1, <2>2 DEF FileClaimed, Found, ReadStands, NoneLeaves
  <2>4. Newborn'
    BY <1>d, <2>1, <2>2 DEF Newborn
  <2>5. OneOld'
    BY <1>d, <2>1, <2>2 DEF OneOld, Newborn
  <2>6. DoomWaited'
    BY <1>d, <2>1, <2>2 DEF DoomWaited, Untouched
  <2>7. Untouched'
    BY <1>d, <2>1, <2>2 DEF Untouched
  <2>8. WaitsForOld'
    BY <1>d, <2>1, <2>2 DEF WaitsForOld, Found, Newborn, OneOld, Untouched
  <2>9. NoneLeaves'
    BY <1>d, <2>1, <2>2 DEF NoneLeaves, WaitsForOld, Untouched, DoomWaited, Newborn, OneOld
  <2>10. ReadStands'
    BY <1>d, <2>1, <2>2 DEF ReadStands, NoneLeaves, FileClaimed, Found, DoomWaited
  <2>11. Found'
    BY <1>d, <2>1, <2>2 DEF Found, FileClaimed, ReadStands
  <2> QED
    BY <2>3, <2>4, <2>5, <2>6, <2>7, <2>8, <2>9, <2>10, <2>11
<1>5. ASSUME NEW d \in Daemons, Crash(d) PROVE Strong'
  <2>1. daemon[d].at \in {"writing", "serving"} /\ app' = app /\ runs' = runs /\ file' = file
    BY <1>5, Zenon DEF Crash
  <2>2. Dies(d)
    BY <1>t, <1>5, Assignments, Zenon DEF Crash
  <2> USE DEF Strong, Becomes, Turns, Same, Dies, Rests, Routes, Dooms, Searching, Waiting, Serves,
              Starting, Absent, Resting
  <2>3. FileClaimed'
    BY <1>d, <2>1, <2>2 DEF FileClaimed, Found, ReadStands, NoneLeaves
  <2>4. Newborn'
    BY <1>d, <2>1, <2>2 DEF Newborn
  <2>5. OneOld'
    BY <1>d, <2>1, <2>2 DEF OneOld, Newborn
  <2>6. DoomWaited'
    BY <1>d, <2>1, <2>2 DEF DoomWaited, Untouched
  <2>7. Untouched'
    BY <1>d, <2>1, <2>2 DEF Untouched
  <2>8. WaitsForOld'
    BY <1>d, <2>1, <2>2 DEF WaitsForOld, Found, Newborn, OneOld, Untouched
  <2>9. NoneLeaves'
    BY <1>d, <2>1, <2>2 DEF NoneLeaves, WaitsForOld, Untouched, DoomWaited, Newborn, OneOld
  <2>10. ReadStands'
    BY <1>d, <2>1, <2>2 DEF ReadStands, NoneLeaves, FileClaimed, Found, DoomWaited
  <2>11. Found'
    BY <1>d, <2>1, <2>2 DEF Found, FileClaimed, ReadStands
  <2> QED
    BY <2>3, <2>4, <2>5, <2>6, <2>7, <2>8, <2>9, <2>10, <2>11
<1>6. ASSUME NEW d \in Daemons, SessionEnds(d) PROVE Strong'
  <2>1. app' = app /\ runs' = runs /\ file' = file
    BY <1>6, Zenon DEF SessionEnds
  <2>2. Same(d)
    BY <1>t, <1>6, Assignments, Zenon DEF SessionEnds
  <2> USE DEF Strong, Becomes, Turns, Same, Dies, Rests, Routes, Dooms, Searching, Waiting, Serves,
              Starting, Absent, Resting
  <2>3. FileClaimed'
    BY <1>d, <2>1, <2>2 DEF FileClaimed, Found, ReadStands, NoneLeaves
  <2>4. Newborn'
    BY <1>d, <2>1, <2>2 DEF Newborn
  <2>5. OneOld'
    BY <1>d, <2>1, <2>2 DEF OneOld, Newborn
  <2>6. DoomWaited'
    BY <1>d, <2>1, <2>2 DEF DoomWaited, Untouched
  <2>7. Untouched'
    BY <1>d, <2>1, <2>2 DEF Untouched
  <2>8. WaitsForOld'
    BY <1>d, <2>1, <2>2 DEF WaitsForOld, Found, Newborn, OneOld, Untouched
  <2>9. NoneLeaves'
    BY <1>d, <2>1, <2>2 DEF NoneLeaves, WaitsForOld, Untouched, DoomWaited, Newborn, OneOld
  <2>10. ReadStands'
    BY <1>d, <2>1, <2>2 DEF ReadStands, NoneLeaves, FileClaimed, Found, DoomWaited
  <2>11. Found'
    BY <1>d, <2>1, <2>2 DEF Found, FileClaimed, ReadStands
  <2> QED
    BY <2>3, <2>4, <2>5, <2>6, <2>7, <2>8, <2>9, <2>10, <2>11
<1>7. CASE Start
  <2>1. /\ app.at \in {"off", "failed", "unreadable"}
        /\ app' = [at |-> "reading", d |-> None] /\ runs' = runs + 1 /\ daemon' = daemon
        /\ file' = file
    BY <1>7, Zenon DEF Start, Goes
  <2>2. runs = 0
    BY <1>d, <2>1 DEF Trusted
  <2> USE DEF Strong, Becomes, Turns, Same, Dies, Rests, Routes, Dooms, Searching, Waiting, Serves,
              Starting, Absent, Resting
  <2>3. FileClaimed'
    BY <1>d, <2>1, <2>2 DEF FileClaimed, Found, ReadStands, NoneLeaves
  <2>4. Newborn'
    BY <1>d, <2>1, <2>2 DEF Newborn
  <2>5. OneOld'
    BY <1>d, <2>1, <2>2 DEF OneOld, Newborn
  <2>6. DoomWaited'
    BY <1>d, <2>1, <2>2 DEF DoomWaited, Untouched
  <2>7. Untouched'
    BY <1>d, <2>1, <2>2 DEF Untouched
  <2>8. WaitsForOld'
    BY <1>d, <2>1, <2>2 DEF WaitsForOld, Found, Newborn, OneOld, Untouched
  <2>9. NoneLeaves'
    BY <1>d, <2>1, <2>2 DEF NoneLeaves, WaitsForOld, Untouched, DoomWaited, Newborn, OneOld
  <2>10. ReadStands'
    BY <1>d, <2>1, <2>2 DEF ReadStands, NoneLeaves, FileClaimed, Found, DoomWaited
  <2>11. Found'
    BY <1>d, <2>1, <2>2 DEF Found, FileClaimed, ReadStands
  <2> QED
    BY <2>3, <2>4, <2>5, <2>6, <2>7, <2>8, <2>9, <2>10, <2>11
<1>8. CASE Read
  <2>1. app.at = "reading" /\ daemon' = daemon /\ file' = file /\ runs' = runs
    BY <1>8, Zenon DEF Read, Goes
  <2>2. \/ file = Absent /\ app' = [at |-> "spawning", d |-> None]
        \/ file # Absent /\ file.whole /\ app' = [at |-> "probing", d |-> file.of]
        \/ app' = [at |-> "unreadable", d |-> None]
    BY <1>8, Zenon DEF Read, Goes
  <2>3. file.whole => file = [of |-> file.of, whole |-> TRUE]
    BY <1>t DEF TypeOK
  <2> USE DEF Strong, Becomes, Turns, Same, Dies, Rests, Routes, Dooms, Searching, Waiting, Serves,
              Starting, Absent, Resting
  <2>4. FileClaimed'
    BY <1>d, <2>1, <2>2, <2>3 DEF FileClaimed, Found, ReadStands, NoneLeaves
  <2>5. Newborn'
    BY <1>d, <2>1, <2>2, <2>3 DEF Newborn
  <2>6. OneOld'
    BY <1>d, <2>1, <2>2, <2>3 DEF OneOld, Newborn
  <2>7. DoomWaited'
    BY <1>d, <2>1, <2>2, <2>3 DEF DoomWaited, Untouched
  <2>8. Untouched'
    BY <1>d, <2>1, <2>2, <2>3 DEF Untouched
  <2>9. WaitsForOld'
    BY <1>d, <2>1, <2>2, <2>3 DEF WaitsForOld, Found, Newborn, OneOld, Untouched
  <2>10. NoneLeaves'
    BY <1>d, <2>1, <2>2, <2>3 DEF NoneLeaves, WaitsForOld, Untouched,
     DoomWaited, Newborn, OneOld
  <2>11. ReadStands'
    BY <1>d, <2>1, <2>2, <2>3 DEF ReadStands, NoneLeaves, FileClaimed, Found, DoomWaited
  <2>12. Found'
    BY <1>d, <2>1, <2>2, <2>3 DEF Found, FileClaimed, ReadStands
  <2> QED
    BY <2>4, <2>5, <2>6, <2>7, <2>8, <2>9, <2>10, <2>11, <2>12
<1>9. CASE Probe
  <2>1. app.at = "probing" /\ runs' = runs /\ file' = file /\ app'.d = app.d
    BY <1>9 DEF Probe, Goes
  <2>2. \/ Serves(app.d) /\ app'.at = "connected" /\ daemon' = daemon
        \/ ~Serves(app.d) /\ app'.at = "removing" /\ daemon' = daemon
        \/ /\ Serves(app.d) /\ daemon[app.d].old /\ app'.at = "sleeping"
           /\ ~daemon[app.d].live /\ daemon' = Shutdown(app.d)
    <3>1. slow' # slow + 1
      BY <1>t DEF TypeOK, Trusted
    <3> QED
      BY <1>9, <3>1 DEF Probe, Goes
  <2>3. daemon' = Shutdown(app.d) /\ Serves(app.d) =>
           /\ app.d \in Daemons
           /\ \E b : /\ Dooms(app.d, b)
                     /\ ~daemon[app.d].live => b \/ daemon[app.d].routing
    BY <1>t, <1>d, <1>9, Assignments DEF Shutdown, Serves
  <2> USE DEF Strong, Becomes, Turns, Same, Dies, Rests, Routes, Dooms, Searching, Waiting, Serves,
              Starting, Absent, Resting
  <2>4. FileClaimed'
    BY <1>d, <2>1, <2>2, <2>3 DEF FileClaimed, Found, ReadStands, NoneLeaves
  <2>5. Newborn'
    BY <1>d, <2>1, <2>2, <2>3 DEF Newborn
  <2>6. OneOld'
    BY <1>d, <2>1, <2>2, <2>3 DEF OneOld, Newborn
  <2>7. DoomWaited'
    BY <1>d, <2>1, <2>2, <2>3 DEF DoomWaited, Untouched
  <2>8. Untouched'
    BY <1>d, <2>1, <2>2, <2>3 DEF Untouched
  <2>9. WaitsForOld'
    BY <1>d, <2>1, <2>2, <2>3 DEF WaitsForOld, Found, Newborn, OneOld, Untouched
  <2>10. NoneLeaves'
    BY <1>d, <2>1, <2>2, <2>3 DEF NoneLeaves, WaitsForOld, Untouched,
     DoomWaited, Newborn, OneOld
  <2>11. ReadStands'
    BY <1>d, <2>1, <2>2, <2>3 DEF ReadStands, NoneLeaves, FileClaimed, Found, DoomWaited
  <2>12. Found'
    BY <1>d, <2>1, <2>2, <2>3 DEF Found, FileClaimed, ReadStands
  <2> QED
    BY <2>4, <2>5, <2>6, <2>7, <2>8, <2>9, <2>10, <2>11, <2>12
<1>10. CASE RemoveFile
  <2>1. /\ app.at = "removing" /\ runs' = runs /\ file' = Absent /\ app'.at = "spawning"
        /\ daemon' = daemon
    BY <1>10, Zenon DEF RemoveFile, Goes
  <2> USE DEF Strong, Becomes, Turns, Same, Dies, Rests, Routes, Dooms, Searching, Waiting, Serves,
              Starting, Absent, Resting
  <2>2. FileClaimed'
    BY <1>d, <2>1 DEF FileClaimed, Found, ReadStands, NoneLeaves
  <2>3. Newborn'
    BY <1>d, <2>1 DEF Newborn
  <2>4. OneOld'
    BY <1>d, <2>1 DEF OneOld, Newborn
  <2>5. DoomWaited'
    BY <1>d, <2>1 DEF DoomWaited, Untouched
  <2>6. Untouched'
    BY <1>d, <2>1 DEF Untouched
  <2>7. WaitsForOld'
    BY <1>d, <2>1 DEF WaitsForOld, Found, Newborn, OneOld, Untouched
  <2>8. NoneLeaves'
    BY <1>d, <2>1 DEF NoneLeaves, WaitsForOld, Untouched, DoomWaited, Newborn, OneOld
  <2>9. ReadStands'
    BY <1>d, <2>1 DEF ReadStands, NoneLeaves, FileClaimed, Found, DoomWaited
  <2>10. Found'
    BY <1>d, <2>1 DEF Found, FileClaimed, ReadStands
  <2> QED
    BY <2>2, <2>3, <2>4, <2>5, <2>6, <2>7, <2>8, <2>9, <2>10
<1>11. CASE Slept
  <2>1. /\ app.at \in {"sleeping", "upgrading"} /\ ~daemon[app.d].doomed /\ runs' = runs
        /\ file' = file /\ daemon' = daemon /\ app'.at \in {"spawning", "reading"}
    BY <1>11, Zenon DEF Slept, Goes
  <2> USE DEF Strong, Becomes, Turns, Same, Dies, Rests, Routes, Dooms, Searching, Waiting, Serves,
              Starting, Absent, Resting
  <2>2. FileClaimed'
    BY <1>d, <2>1 DEF FileClaimed, Found, ReadStands, NoneLeaves
  <2>3. Newborn'
    BY <1>d, <2>1 DEF Newborn
  <2>4. OneOld'
    BY <1>d, <2>1 DEF OneOld, Newborn
  <2>5. DoomWaited'
    BY <1>d, <2>1 DEF DoomWaited, Untouched
  <2>6. Untouched'
    BY <1>d, <2>1 DEF Untouched
  <2>7. WaitsForOld'
    BY <1>d, <2>1 DEF WaitsForOld, Found, Newborn, OneOld, Untouched
  <2>8. NoneLeaves'
    BY <1>d, <2>1 DEF NoneLeaves, WaitsForOld, Untouched, DoomWaited, Newborn, OneOld
  <2>9. ReadStands'
    BY <1>d, <2>1 DEF ReadStands, NoneLeaves, FileClaimed, Found, DoomWaited
  <2>10. Found'
    BY <1>d, <2>1 DEF Found, FileClaimed, ReadStands
  <2> QED
    BY <2>2, <2>3, <2>4, <2>5, <2>6, <2>7, <2>8, <2>9, <2>10
<1>12. CASE SpawnDaemon
  <2>1. app.at = "spawning" /\ runs' = runs /\ file' = file /\ app'.at = "polling"
    BY <1>12, Zenon DEF SpawnDaemon, Goes
  <2>2. \E d \in Daemons : daemon[d].at = "unborn" /\ Turns(d, "starting")
    BY <1>t, <1>12, Assignments, Zenon DEF SpawnDaemon, Goes
  <2> USE DEF Strong, Becomes, Turns, Same, Dies, Rests, Routes, Dooms, Searching, Waiting, Serves,
              Starting, Absent, Resting
  <2>3. FileClaimed'
    BY <1>d, <2>1, <2>2 DEF FileClaimed, Found, ReadStands, NoneLeaves
  <2>4. Newborn'
    BY <1>d, <2>1, <2>2 DEF Newborn
  <2>5. OneOld'
    BY <1>d, <2>1, <2>2 DEF OneOld, Newborn
  <2>6. DoomWaited'
    BY <1>d, <2>1, <2>2 DEF DoomWaited, Untouched
  <2>7. Untouched'
    BY <1>d, <2>1, <2>2 DEF Untouched
  <2>8. WaitsForOld'
    BY <1>d, <2>1, <2>2 DEF WaitsForOld, Found, Newborn, OneOld, Untouched
  <2>9. NoneLeaves'
    BY <1>d, <2>1, <2>2 DEF NoneLeaves, WaitsForOld, Untouched, DoomWaited, Newborn, OneOld
  <2>10. ReadStands'
    BY <1>d, <2>1, <2>2 DEF ReadStands, NoneLeaves, FileClaimed, Found, DoomWaited
  <2>11. Found'
    BY <1>d, <2>1, <2>2 DEF Found, FileClaimed, ReadStands
  <2> QED
    BY <2>3, <2>4, <2>5, <2>6, <2>7, <2>8, <2>9, <2>10, <2>11
<1>13. CASE Poll \/ Dial \/ GiveUp
  <2>1. /\ app.at \in {"polling", "dialing"} /\ runs' = runs /\ file' = file
        /\ daemon' = daemon
        /\ app'.at \in {"polling", "dialing", "connected", "failed", "unreadable"}
    BY <1>13 DEF Poll, Dial, GiveUp, Goes
  <2> USE DEF Strong, Becomes, Turns, Same, Dies, Rests, Routes, Dooms, Searching, Waiting, Serves,
              Starting, Absent, Resting
  <2>2. FileClaimed'
    BY <1>d, <2>1 DEF FileClaimed, Found, ReadStands, NoneLeaves
  <2>3. Newborn'
    BY <1>d, <2>1 DEF Newborn
  <2>4. OneOld'
    BY <1>d, <2>1 DEF OneOld, Newborn
  <2>5. DoomWaited'
    BY <1>d, <2>1 DEF DoomWaited, Untouched
  <2>6. Untouched'
    BY <1>d, <2>1 DEF Untouched
  <2>7. WaitsForOld'
    BY <1>d, <2>1 DEF WaitsForOld, Found, Newborn, OneOld, Untouched
  <2>8. NoneLeaves'
    BY <1>d, <2>1 DEF NoneLeaves, WaitsForOld, Untouched, DoomWaited, Newborn, OneOld
  <2>9. ReadStands'
    BY <1>d, <2>1 DEF ReadStands, NoneLeaves, FileClaimed, Found, DoomWaited
  <2>10. Found'
    BY <1>d, <2>1 DEF Found, FileClaimed, ReadStands
  <2> QED
    BY <2>2, <2>3, <2>4, <2>5, <2>6, <2>7, <2>8, <2>9, <2>10
<1>14. CASE CreateSession
  <2>1. app.d \in Daemons
    BY <1>d, <1>14 DEF CreateSession, Serves
  <2>2. app' = app /\ runs' = runs /\ file' = file
    BY <1>14, Zenon DEF CreateSession
  <2>3. Same(app.d)
    BY <1>t, <1>14, <2>1, Assignments, Zenon DEF CreateSession
  <2> USE DEF Strong, Becomes, Turns, Same, Dies, Rests, Routes, Dooms, Searching, Waiting, Serves,
              Starting, Absent, Resting
  <2>4. FileClaimed'
    BY <1>d, <2>1, <2>2, <2>3 DEF FileClaimed, Found, ReadStands, NoneLeaves
  <2>5. Newborn'
    BY <1>d, <2>1, <2>2, <2>3 DEF Newborn
  <2>6. OneOld'
    BY <1>d, <2>1, <2>2, <2>3 DEF OneOld, Newborn
  <2>7. DoomWaited'
    BY <1>d, <2>1, <2>2, <2>3 DEF DoomWaited, Untouched
  <2>8. Untouched'
    BY <1>d, <2>1, <2>2, <2>3 DEF Untouched
  <2>9. WaitsForOld'
    BY <1>d, <2>1, <2>2, <2>3 DEF WaitsForOld, Found, Newborn, OneOld, Untouched
  <2>10. NoneLeaves'
    BY <1>d, <2>1, <2>2, <2>3 DEF NoneLeaves, WaitsForOld, Untouched,
     DoomWaited, Newborn, OneOld
  <2>11. ReadStands'
    BY <1>d, <2>1, <2>2, <2>3 DEF ReadStands, NoneLeaves, FileClaimed, Found, DoomWaited
  <2>12. Found'
    BY <1>d, <2>1, <2>2, <2>3 DEF Found, FileClaimed, ReadStands
  <2> QED
    BY <2>4, <2>5, <2>6, <2>7, <2>8, <2>9, <2>10, <2>11, <2>12
<1>15. CASE CloseAll
  <2>1. app.at = "closing" /\ runs' = runs /\ file' = file /\ app'.at = "asking"
    BY <1>15, Zenon DEF CloseAll, Goes
  <2>2. daemon' = daemon \/ (app.d \in Daemons /\ Same(app.d))
    <3>1. daemon' = daemon \/ daemon' = [daemon EXCEPT ![app.d].live = FALSE]
      BY <1>15, Zenon DEF CloseAll
    <3>2. app.d \notin Daemons => [daemon EXCEPT ![app.d].live = FALSE] = daemon
      BY <1>t, Zenon DEF TypeOK
    <3> QED
      BY <1>t, <3>1, <3>2, Assignments, Zenon
  <2> USE DEF Strong, Becomes, Turns, Same, Dies, Rests, Routes, Dooms, Searching, Waiting, Serves,
              Starting, Absent, Resting
  <2>3. FileClaimed'
    BY <1>d, <2>1, <2>2 DEF FileClaimed, Found, ReadStands, NoneLeaves
  <2>4. Newborn'
    BY <1>d, <2>1, <2>2 DEF Newborn
  <2>5. OneOld'
    BY <1>d, <2>1, <2>2 DEF OneOld, Newborn
  <2>6. DoomWaited'
    BY <1>d, <2>1, <2>2 DEF DoomWaited, Untouched
  <2>7. Untouched'
    BY <1>d, <2>1, <2>2 DEF Untouched
  <2>8. WaitsForOld'
    BY <1>d, <2>1, <2>2 DEF WaitsForOld, Found, Newborn, OneOld, Untouched
  <2>9. NoneLeaves'
    BY <1>d, <2>1, <2>2 DEF NoneLeaves, WaitsForOld, Untouched, DoomWaited, Newborn, OneOld
  <2>10. ReadStands'
    BY <1>d, <2>1, <2>2 DEF ReadStands, NoneLeaves, FileClaimed, Found, DoomWaited
  <2>11. Found'
    BY <1>d, <2>1, <2>2 DEF Found, FileClaimed, ReadStands
  <2> QED
    BY <2>3, <2>4, <2>5, <2>6, <2>7, <2>8, <2>9, <2>10, <2>11
<1>16. CASE Ask
  <2>1. app.at = "asking" /\ runs' = runs /\ file' = file /\ app'.at \in {"off", "connected"}
    BY <1>16 DEF Ask, Goes
  <2>2. daemon' = daemon \/ (Serves(app.d) /\ app'.at = "off" /\ daemon' = Shutdown(app.d))
    BY <1>16 DEF Ask, Goes
  <2>3. daemon' = Shutdown(app.d) /\ Serves(app.d) =>
           /\ app.d \in Daemons
           /\ \E b : /\ Dooms(app.d, b)
                     /\ ~daemon[app.d].live => b \/ daemon[app.d].routing
    BY <1>t, <1>d, <1>16, Assignments DEF Shutdown, Serves
  <2> USE DEF Strong, Becomes, Turns, Same, Dies, Rests, Routes, Dooms, Searching, Waiting, Serves,
              Starting, Absent, Resting
  <2>4. FileClaimed'
    BY <1>d, <2>1, <2>2, <2>3 DEF FileClaimed, Found, ReadStands, NoneLeaves
  <2>5. Newborn'
    BY <1>d, <2>1, <2>2, <2>3 DEF Newborn
  <2>6. OneOld'
    BY <1>d, <2>1, <2>2, <2>3 DEF OneOld, Newborn
  <2>7. DoomWaited'
    BY <1>d, <2>1, <2>2, <2>3 DEF DoomWaited, Untouched
  <2>8. Untouched'
    BY <1>d, <2>1, <2>2, <2>3 DEF Untouched
  <2>9. WaitsForOld'
    BY <1>d, <2>1, <2>2, <2>3 DEF WaitsForOld, Found, Newborn, OneOld, Untouched
  <2>10. NoneLeaves'
    BY <1>d, <2>1, <2>2, <2>3 DEF NoneLeaves, WaitsForOld, Untouched,
     DoomWaited, Newborn, OneOld
  <2>11. ReadStands'
    BY <1>d, <2>1, <2>2, <2>3 DEF ReadStands, NoneLeaves, FileClaimed, Found, DoomWaited
  <2>12. Found'
    BY <1>d, <2>1, <2>2, <2>3 DEF Found, FileClaimed, ReadStands
  <2> QED
    BY <2>4, <2>5, <2>6, <2>7, <2>8, <2>9, <2>10, <2>11, <2>12
<1>17. CASE Route
  <2>1. /\ app.at = "connected" /\ Serves(app.d) /\ app.d \in Daemons /\ app' = app
        /\ runs' = runs /\ file' = file
    BY <1>d, <1>17 DEF Route, Serves
  <2>2. \E b : Routes(app.d, b)
    BY <1>t, <1>17, <2>1, Assignments, Zenon DEF Route
  <2> USE DEF Strong, Becomes, Turns, Same, Dies, Rests, Routes, Dooms, Searching, Waiting, Serves,
              Starting, Absent, Resting
  <2>3. FileClaimed'
    BY <1>d, <2>1, <2>2 DEF FileClaimed, Found, ReadStands, NoneLeaves
  <2>4. Newborn'
    BY <1>d, <2>1, <2>2 DEF Newborn
  <2>5. OneOld'
    BY <1>d, <2>1, <2>2 DEF OneOld, Newborn
  <2>6. DoomWaited'
    BY <1>d, <2>1, <2>2 DEF DoomWaited, Untouched
  <2>7. Untouched'
    BY <1>d, <2>1, <2>2 DEF Untouched
  <2>8. WaitsForOld'
    BY <1>d, <2>1, <2>2 DEF WaitsForOld, Found, Newborn, OneOld, Untouched
  <2>9. NoneLeaves'
    BY <1>d, <2>1, <2>2 DEF NoneLeaves, WaitsForOld, Untouched, DoomWaited, Newborn, OneOld
  <2>10. ReadStands'
    BY <1>d, <2>1, <2>2 DEF ReadStands, NoneLeaves, FileClaimed, Found, DoomWaited
  <2>11. Found'
    BY <1>d, <2>1, <2>2 DEF Found, FileClaimed, ReadStands
  <2> QED
    BY <2>3, <2>4, <2>5, <2>6, <2>7, <2>8, <2>9, <2>10, <2>11
<1>18. CASE Upgrade
  <2>1. /\ Serves(app.d) /\ daemon[app.d].old /\ ~daemon[app.d].live /\ runs' = runs
        /\ file' = file /\ app.at = "connected" /\ app' = [at |-> "upgrading", d |-> app.d]
        /\ daemon' = Shutdown(app.d)
    BY <1>18, Zenon DEF Upgrade, Goes
  <2>2. \A e \in Daemons : Serves(e) => e = app.d
    BY <1>d, <2>1 DEF Strong, Found, Serves
  <2>3. daemon' = Shutdown(app.d) /\ Serves(app.d) =>
           /\ app.d \in Daemons
           /\ \E b : /\ Dooms(app.d, b)
                     /\ ~daemon[app.d].live => b \/ daemon[app.d].routing
    BY <1>t, <1>d, <1>18, Assignments DEF Shutdown, Serves
  <2> USE DEF Strong, Becomes, Turns, Same, Dies, Rests, Routes, Dooms, Searching, Waiting, Serves,
              Starting, Absent, Resting
  <2>4. FileClaimed'
    BY <1>d, <2>1, <2>2, <2>3 DEF FileClaimed, Found, ReadStands, NoneLeaves
  <2>5. Newborn'
    BY <1>d, <2>1, <2>2, <2>3 DEF Newborn
  <2>6. OneOld'
    BY <1>d, <2>1, <2>2, <2>3 DEF OneOld, Newborn
  <2>7. DoomWaited'
    BY <1>d, <2>1, <2>2, <2>3 DEF DoomWaited, Untouched
  <2>8. Untouched'
    BY <1>d, <2>1, <2>2, <2>3 DEF Untouched
  <2>9. WaitsForOld'
    BY <1>d, <2>1, <2>2, <2>3 DEF WaitsForOld, Found, Newborn, OneOld, Untouched
  <2>10. NoneLeaves'
    BY <1>d, <2>1, <2>2, <2>3 DEF NoneLeaves, WaitsForOld, Untouched,
     DoomWaited, Newborn, OneOld
  <2>11. ReadStands'
    BY <1>d, <2>1, <2>2, <2>3 DEF ReadStands, NoneLeaves, FileClaimed, Found, DoomWaited
  <2>12. Found'
    BY <1>d, <2>1, <2>2, <2>3 DEF Found, FileClaimed, ReadStands
  <2> QED
    BY <2>4, <2>5, <2>6, <2>7, <2>8, <2>9, <2>10, <2>11, <2>12
<1>19. CASE Quit \/ Leave
  <2>1. /\ app.at # "off" /\ runs' = runs /\ file' = file /\ daemon' = daemon
        /\ app'.at \in {"off", "closing"} /\ (app'.at = "off" \/ app.at = "connected")
    BY <1>19 DEF Quit, Leave, Goes
  <2> USE DEF Strong, Becomes, Turns, Same, Dies, Rests, Routes, Dooms, Searching, Waiting, Serves,
              Starting, Absent, Resting
  <2>2. FileClaimed'
    BY <1>d, <2>1 DEF FileClaimed, Found, ReadStands, NoneLeaves
  <2>3. Newborn'
    BY <1>d, <2>1 DEF Newborn
  <2>4. OneOld'
    BY <1>d, <2>1 DEF OneOld, Newborn
  <2>5. DoomWaited'
    BY <1>d, <2>1 DEF DoomWaited, Untouched
  <2>6. Untouched'
    BY <1>d, <2>1 DEF Untouched
  <2>7. WaitsForOld'
    BY <1>d, <2>1 DEF WaitsForOld, Found, Newborn, OneOld, Untouched
  <2>8. NoneLeaves'
    BY <1>d, <2>1 DEF NoneLeaves, WaitsForOld, Untouched, DoomWaited, Newborn, OneOld
  <2>9. ReadStands'
    BY <1>d, <2>1 DEF ReadStands, NoneLeaves, FileClaimed, Found, DoomWaited
  <2>10. Found'
    BY <1>d, <2>1 DEF Found, FileClaimed, ReadStands
  <2> QED
    BY <2>2, <2>3, <2>4, <2>5, <2>6, <2>7, <2>8, <2>9, <2>10
<1>20. CASE UNCHANGED vars
  <2>1. app' = app /\ runs' = runs /\ file' = file /\ daemon' = daemon
    BY <1>20, Zenon DEF vars
  <2> USE DEF Strong, Becomes, Turns, Same, Dies, Rests, Routes, Dooms, Searching, Waiting, Serves,
              Starting, Absent, Resting
  <2>2. FileClaimed'
    BY <1>d, <2>1 DEF FileClaimed, Found, ReadStands, NoneLeaves
  <2>3. Newborn'
    BY <1>d, <2>1 DEF Newborn
  <2>4. OneOld'
    BY <1>d, <2>1 DEF OneOld, Newborn
  <2>5. DoomWaited'
    BY <1>d, <2>1 DEF DoomWaited, Untouched
  <2>6. Untouched'
    BY <1>d, <2>1 DEF Untouched
  <2>7. WaitsForOld'
    BY <1>d, <2>1 DEF WaitsForOld, Found, Newborn, OneOld, Untouched
  <2>8. NoneLeaves'
    BY <1>d, <2>1 DEF NoneLeaves, WaitsForOld, Untouched, DoomWaited, Newborn, OneOld
  <2>9. ReadStands'
    BY <1>d, <2>1 DEF ReadStands, NoneLeaves, FileClaimed, Found, DoomWaited
  <2>10. Found'
    BY <1>d, <2>1 DEF Found, FileClaimed, ReadStands
  <2> QED
    BY <2>2, <2>3, <2>4, <2>5, <2>6, <2>7, <2>8, <2>9, <2>10
<1> QED
  BY <1>1, <1>2, <1>3, <1>4, <1>5, <1>6, <1>7, <1>8, <1>9, <1>10,
     <1>11, <1>12, <1>13, <1>14, <1>15, <1>16, <1>17, <1>18, <1>19,
     <1>20
  DEF Next, AppStep, DaemonStep

LEMMA FoundInit == Init => FoundInv
<1> SUFFICES ASSUME Init PROVE FoundInv
  OBVIOUS
<1>1. TypeOK
  BY InitTypes
<1>0. 1 \in Daemons /\ None \notin Daemons
  BY LifetimeConstants DEF Daemons, None
<1>2. /\ app.at = "off" /\ file.of \in {0, 1}
      /\ \/ file = Absent /\ \A d \in Daemons : daemon[d] = Unborn
         \/ /\ file = [of |-> 1, whole |-> TRUE]
            /\ \A d \in Daemons : d # 1 => daemon[d] = Unborn
            /\ daemon[1].at \in {"serving", "dead"} /\ ~daemon[1].doomed
  <2>1. app.at = "off"
    BY DEF Init
  <2>2. CASE file = Absent /\ daemon = [d \in Daemons |-> Unborn]
    BY <2>1, <2>2 DEF Absent, None
  <2>3. ASSUME file = [of |-> 1, whole |-> TRUE], NEW dead \in BOOLEAN, NEW live \in BOOLEAN,
               NEW routing \in BOOLEAN,
               daemon = [d \in Daemons |->
                    IF d # 1 THEN Unborn
                    ELSE IF dead THEN [Unborn EXCEPT !.at = "dead"]
                    ELSE [Unborn EXCEPT !.at = "serving", !.old = TRUE,
                                        !.live = live, !.routing = routing]]
        PROVE  /\ file.of = 1
               /\ \A d \in Daemons : d # 1 => daemon[d] = Unborn
               /\ daemon[1].at \in {"serving", "dead"} /\ ~daemon[1].doomed
    <3>1. \A d \in Daemons : d # 1 => daemon[d] = Unborn
      BY <2>3
    <3> DEFINE left == [Unborn EXCEPT !.at = "dead"]
               old == [Unborn EXCEPT !.at = "serving", !.old = TRUE, !.live = live, !.routing = routing]
    <3>2. daemon[1] = IF dead THEN left ELSE old
      BY <1>0, <2>3
    <3>3. left.at = "dead" /\ ~left.doomed /\ old.at = "serving" /\ ~old.doomed
      BY DEF Unborn
    <3> HIDE DEF left, old
    <3>4. daemon[1] = left \/ daemon[1] = old
      BY <3>2
    <3> QED
      BY <2>3, <3>1, <3>3, <3>4
  <2>4. \/ file = Absent /\ daemon = [d \in Daemons |-> Unborn]
        \/ /\ file = [of |-> 1, whole |-> TRUE]
           /\ \E dead, live, routing \in BOOLEAN :
                daemon = [d \in Daemons |->
                    IF d # 1 THEN Unborn
                    ELSE IF dead THEN [Unborn EXCEPT !.at = "dead"]
                    ELSE [Unborn EXCEPT !.at = "serving", !.old = TRUE,
                                        !.live = live, !.routing = routing]]
    BY Zenon DEF Init
  <2> QED
    BY <2>1, <2>2, <2>3, <2>4
<1>3. /\ Unborn.at = "unborn" /\ ~Unborn.old /\ ~Unborn.routing /\ ~Unborn.doomed /\ Unborn.calm = 0
  BY DEF Unborn
<1>4. FileClaimed /\ Newborn /\ OneOld /\ DoomWaited
  BY <1>0, <1>2, <1>3 DEF FileClaimed, Newborn, OneOld, DoomWaited, Absent, None
<1>5. Untouched /\ WaitsForOld /\ NoneLeaves /\ ReadStands
  BY <1>0, <1>2, <1>3 DEF Untouched, WaitsForOld, NoneLeaves, ReadStands, Starting, Searching, Waiting
<1>6. Found
  BY <1>0, <1>2, <1>3 DEF Found, Serves
<1> QED
  BY <1>1, <1>4, <1>5, <1>6 DEF FoundInv, Strong

\* In the first run of the app, while no handshake fails that a daemon would have
\* answered, every daemon that serves has the discovery file, and so no two serve at once.
THEOREM ServingIsFound == Spec => [](runs <= 1 /\ slow = 0 => Found)
<1>1. Init => FoundInv
  BY FoundInit
<1>2. FoundInv /\ [Next]_vars => FoundInv'
  BY FoundStep
<1>3. FoundInv => (runs <= 1 /\ slow = 0 => Found)
  BY DEF FoundInv, Trusted, Strong
<1> QED
  BY <1>1, <1>2, <1>3, PTL DEF Spec
=============================================================================

----------------------------- MODULE HookRelay -----------------------------
(***************************************************************************)
(* What the daemon does with a hook report that the arbiter has let        *)
(* through (server.rs): it is sent to every registered client, or cached   *)
(* when there is none, and the cache is flushed to the first client that   *)
(* asks for the session list.  Reports are handled on threads of their     *)
(* own; a client's reader thread flushes to its own client.  Sending is to *)
(* put a frame into the queue of the client's writer, whose thread writes  *)
(* it (client_transport.rs).  A writer that has closed refuses what it is  *)
(* sent and drops what it had queued, and neither broadcast_hook nor       *)
(* flush_hook_cache_to looks at the answer.  The gap counts of remote      *)
(* spools take the same way through a cache of their own.                  *)
(***************************************************************************)
EXTENDS Naturals, Sequences, FiniteSets, SequencesExt

CONSTANTS
    Clients,        \* connections, each registered once
    Apps,           \* those of DaemonClient, which pass reports on; a
                    \* PtyHostSocket ignores them
    Threads,        \* threads that handle reports
    HookCacheMax,   \* HOOK_CACHE_MAX
    MaxReports      \* bound: reports, numbered in the order they begin

ASSUME RelayConstants ==
    Apps \subseteq Clients /\ HookCacheMax \in Nat \ {0} /\ MaxReports \in Nat

VARIABLES
    link,      \* a client is new, registered, has had its first list answered, or is gone
    closed,    \* the clients whose writer thread has ended or is told to end
    queue,     \* the reports in the control queue of each client's writer
    got,       \* history: the reports written to each client
    missed,    \* history: the reports that a client's writer refused or dropped
    draining,  \* what the reader thread of a client has taken out of the cache
    asking,    \* the clients whose list is being answered
    cache,     \* DaemonHost.hook_cache
    job,       \* what each thread does, with its report
    begun      \* the number of reports so far

writers == <<closed, queue, got, missed>>
vars == <<link, writers, draining, asking, cache, job, begun>>

Reports == 1..MaxReports
Idle == [at |-> "idle", n |-> 0]

TypeOK ==
    /\ link \in [Clients -> {"new", "registered", "listed", "gone"}]
    /\ closed \subseteq Clients
    /\ queue \in [Clients -> Seq(Reports)] /\ got \in [Clients -> Seq(Reports)]
    /\ missed \in [Clients -> SUBSET Reports]
    /\ draining \in [Clients -> Seq(Reports)]
    /\ asking \subseteq Clients
    /\ cache \in Seq(Reports) /\ Len(cache) <= HookCacheMax
    /\ job \in [Threads -> {Idle} \cup [at: {"looking", "storing"}, n: Reports]]
    /\ begun \in 0..MaxReports

Init ==
    /\ link = [c \in Clients |-> "new"]
    /\ closed = {} /\ missed = [c \in Clients |-> {}]
    /\ queue = [c \in Clients |-> <<>>] /\ got = [c \in Clients |-> <<>>]
    /\ draining = [c \in Clients |-> <<>>]
    /\ asking = {} /\ cache = <<>>
    /\ job = [t \in Threads |-> Idle] /\ begun = 0

Registered == {c \in Clients : link[c] \in {"registered", "listed"}}
LastOf(s, k) == IF Len(s) > k THEN SubSeq(s, Len(s) - k + 1, Len(s)) ELSE s

Begin(t) ==
    /\ job[t] = Idle /\ begun < MaxReports
    /\ begun' = begun + 1
    /\ job' = [job EXCEPT ![t] = [at |-> "looking", n |-> begun']]
    /\ UNCHANGED <<link, writers, draining, asking, cache>>

\* ClientWriter.send_frame for a report and each of the clients `to`.
Send(n, to) ==
    /\ queue' = [c \in Clients |-> IF c \in to \ closed THEN Append(queue[c], n) ELSE queue[c]]
    /\ missed' = [c \in Clients |->
                     IF c \in to \cap closed THEN missed[c] \cup {n} ELSE missed[c]]
    /\ UNCHANGED <<closed, got>>

\* broadcast_hook under the lock of the clients; with none of them the lock
\* is released before the report is cached.
Look(t) ==
    /\ job[t].at = "looking"
    /\ Send(job[t].n, Registered)
    /\ job' = [job EXCEPT ![t] = IF Registered = {} THEN [@ EXCEPT !.at = "storing"] ELSE Idle]
    /\ UNCHANGED <<link, draining, asking, cache, begun>>

\* Mutant: the oldest report goes one too early.
StoreFewer(t) ==
    /\ job[t].at = "storing"
    /\ cache' = LastOf(Append(cache, job[t].n), HookCacheMax - 1)
    /\ job' = [job EXCEPT ![t] = Idle]
    /\ UNCHANGED <<link, writers, draining, asking, begun>>

Store(t) ==
    /\ job[t].at = "storing"
    /\ cache' = LastOf(Append(cache, job[t].n), HookCacheMax)
    /\ job' = [job EXCEPT ![t] = Idle]
    /\ UNCHANGED <<link, writers, draining, asking, begun>>

Connect(c) ==
    /\ link[c] = "new"
    /\ link' = [link EXCEPT ![c] = "registered"]
    /\ UNCHANGED <<writers, draining, asking, cache, job, begun>>

\* The writer thread takes the head of the queue and writes it.
Hear(c) ==
    /\ c \notin closed /\ queue[c] # <<>>
    /\ got' = [got EXCEPT ![c] = Append(@, Head(queue[c]))]
    /\ queue' = [queue EXCEPT ![c] = Tail(@)]
    /\ UNCHANGED <<link, closed, missed, draining, asking, cache, job, begun>>

\* The writer writes nothing more: what it had queued is dropped.
Shut(c) ==
    /\ closed' = closed \cup {c}
    /\ missed' = [missed EXCEPT ![c] = @ \cup Range(queue[c])]
    /\ queue' = [queue EXCEPT ![c] = <<>>]
    /\ UNCHANGED got

\* A queue is full, which other frames fill as well, or the transport fails.
Break(c) ==
    /\ c \in Registered \ closed
    /\ Shut(c)
    /\ UNCHANGED <<link, draining, asking, cache, job, begun>>

\* The reader thread ends when it is not answering, and closes the writer.
Leave(c) ==
    /\ c \in Registered \ asking
    /\ link' = [link EXCEPT ![c] = "gone"]
    /\ Shut(c)
    /\ UNCHANGED <<draining, asking, cache, job, begun>>

\* Mutant: the cache is copied, not taken.
ListCopies(c) ==
    /\ c \in (Apps \cap Registered) \ asking
    /\ asking' = asking \cup {c}
    /\ draining' = [draining EXCEPT ![c] = cache]
    /\ UNCHANGED <<link, writers, cache, job, begun>>

\* A List frame: flush_hook_cache_to takes the cache, then sends one by one.
List(c) ==
    /\ c \in (Apps \cap Registered) \ asking
    /\ asking' = asking \cup {c}
    /\ draining' = [draining EXCEPT ![c] = cache]
    /\ cache' = <<>>
    /\ UNCHANGED <<link, writers, job, begun>>

\* Mutant: the answer ends when the first report of the cache is sent.
FlushFirst(c) ==
    /\ c \in asking
    /\ asking' = asking \ {c} /\ link' = [link EXCEPT ![c] = "listed"]
    /\ draining' = [draining EXCEPT ![c] = <<>>]
    /\ IF draining[c] = <<>> THEN UNCHANGED writers ELSE Send(Head(draining[c]), {c})
    /\ UNCHANGED <<cache, job, begun>>

\* The next report of those taken is sent; what the writer refuses is not put back.
Flush(c) ==
    /\ c \in asking
    /\ IF draining[c] = <<>>
       THEN /\ asking' = asking \ {c} /\ link' = [link EXCEPT ![c] = "listed"]
            /\ UNCHANGED <<draining, writers>>
       ELSE /\ Send(Head(draining[c]), {c})
            /\ draining' = [draining EXCEPT ![c] = Tail(@)]
            /\ UNCHANGED <<asking, link>>
    /\ UNCHANGED <<cache, job, begun>>

Next ==
    \/ \E t \in Threads : Begin(t) \/ Look(t) \/ Store(t)
    \/ \E c \in Clients :
           Connect(c) \/ Hear(c) \/ Break(c) \/ Leave(c) \/ List(c) \/ Flush(c)

Spec == Init /\ [][Next]_vars

\* Threads run on, clients come, and an app whose connection lasts asks for the list
\* again and again.  Nothing makes a writer close.
FairSpec ==
    /\ Spec
    /\ \A t \in Threads : WF_vars(Look(t)) /\ WF_vars(Store(t))
    /\ \A c \in Clients : /\ WF_vars(Connect(c)) /\ WF_vars(Flush(c)) /\ WF_vars(Hear(c))
                          /\ SF_vars(c \notin closed /\ List(c))

-----------------------------------------------------------------------------
(* Properties *)

InCache == Range(cache)
InJobs == {job[t].n : t \in Threads}
InDrains == UNION {Range(draining[c]) : c \in Clients}
Queued == UNION {Range(queue[c]) : c \in Clients}
Written == UNION {Range(got[c]) : c \in Clients}
Missed == UNION {missed[c] : c \in Clients}
Sent == Queued \cup Written \cup Missed

\* No client is written a report twice, although it may come by both ways, and a
\* report that was cached is sent to one client only, even if that client's writer
\* then drops it.
HeardOnce ==
    /\ \A c \in Clients : IsInjective(got[c])
    /\ IsInjective(cache)
    /\ (InCache \cup InDrains) \cap Sent = {}

\* A report is lost in two ways only.  A client's writer refused or dropped it: then
\* that writer has closed for good.  Or the cache gave it up to as many others as it
\* holds, all of them younger but for those that slower threads had in hand.  Else it
\* is with a thread, cached, being flushed, queued or written (broadcast_hook,
\* flush_hook_cache_to, send_control).
KeptWithinBound ==
    \A n \in 1..begun :
        \/ n \in InJobs \cup InCache \cup InDrains \cup Queued \cup Written
        \/ \E c \in closed : n \in missed[c] /\ queue[c] = <<>>
        \/ begun > HookCacheMax /\ begun - n > HookCacheMax - Cardinality(Threads)

\* A cached report is written to an app that stays and asks again, unless more reports
\* than the cache holds have begun, the writer of the app that took it closed on it,
\* or no app has a writer left.
CachedIsHeard ==
    \A n \in Reports :
        n \in InCache ~> \/ n \in Written \cup Missed \/ begun > HookCacheMax
                         \/ Apps \subseteq closed

-----------------------------------------------------------------------------
(* What the documents say and the code does not do *)

\* pty-daemon-contracts.md: without clients reports are cached.  Nothing stays
\* in the cache beside a registered app whose list has been answered.
NothingStranded ==
    (\E c \in Apps : link[c] = "listed") => cache = <<>>
=============================================================================

---------------------------- MODULE HookArbiter ----------------------------
(***************************************************************************)
(* The approval arbiter every hook report passes before it is fanned out   *)
(* (ApprovalArbiterState in features/hooks/claude.rs).  A permission        *)
(* request of a child agent without a message is held until a report of    *)
(* the same scope shows that it was answered, its transcript grows, or its *)
(* grace ends.                                                             *)
(* Reports arrive on threads of their own and a poller runs beside them;   *)
(* the arbiter decides under its lock and hands out after it.              *)
(*                                                                         *)
(* One session.  A child agent stands for its scope: source, environment,  *)
(* tab, parent session and agent id.                                       *)
(***************************************************************************)
EXTENDS Naturals, Sequences, FiniteSets, SequencesExt

CONSTANTS
    Children, Parents,   \* scopes of child agents; their parent scopes
    ParentOf,            \* [Children -> Parents]
    Names, Ids, NoId,    \* tool names and tool_use_ids
    Listeners, poller,   \* threads
    Grace, Linger,       \* PROVISIONAL_APPROVAL_GRACE, APPROVAL_PROGRESS_TOMBSTONE_TTL
    MaxPending,          \* MAX_PROVISIONAL_APPROVALS
    MaxProgress,         \* MAX_APPROVAL_PROGRESS_TOMBSTONES
    Kinds,               \* the kinds of reports that are posted
    MaxPosts, MaxTime    \* bounds: reports posted; instants, the last Grace without reports

ASSUME ArbiterConstants ==
    /\ ParentOf \in [Children -> Parents]
    /\ NoId \notin Ids /\ poller \notin Listeners
    /\ Kinds \subseteq {"request", "explicit", "progress", "childstop", "prompt", "stop"}
    /\ Grace \in Nat \ {0} /\ Linger \in Nat \ {0}
    /\ MaxPending \in Nat \ {0} /\ MaxProgress \in Nat \ {0}
    /\ MaxPosts \in Nat /\ MaxTime \in Nat

VARIABLES
    pending,     \* ApprovalArbiterState.pending
    progress,    \* ApprovalArbiterState.recent_progress
    grown,       \* the held requests whose transcript has grown
    handing,     \* the list each thread has taken out and is delivering
    posted,      \* history: every report, with its instant; reports are named by their place
    delivered,   \* history: the reports fanned out, in order
    now

arbiterVars == <<pending, progress, grown, handing, posted, delivered, now>>

\* The threads that deliver: a listener has a thread per report.
Hands == Listeners \cup {poller}

\* "explicit" is a permission request that is delivered at once.
Report == [kind: Kinds, child: Children, id: Ids \cup {NoId}, name: Names, at: Nat]

\* The two queues of the arbiter and the lists of the threads are in the order of the
\* reports, so each is the set of their numbers; a deadline follows from the instant.
ArbiterTypeOK ==
    /\ posted \in Seq(Report)
    /\ pending \subseteq DOMAIN posted /\ Cardinality(pending) <= MaxPending
    /\ progress \subseteq DOMAIN posted /\ Cardinality(progress) <= MaxProgress
    /\ grown \subseteq DOMAIN posted
    /\ handing \in [Hands -> SUBSET DOMAIN posted]
    /\ delivered \in Seq(DOMAIN posted)
    /\ now \in Nat

ArbiterInit ==
    /\ pending = {} /\ progress = {} /\ grown = {}
    /\ handing = [t \in Hands |-> {}]
    /\ posted = <<>> /\ delivered = <<>>
    /\ now = 0

-----------------------------------------------------------------------------
(* Decisions *)

\* same_child and matches_approval_tool
SameTool(a, b) ==
    /\ a.child = b.child
    /\ IF a.id # NoId /\ b.id # NoId THEN a.id = b.id ELSE a.name = b.name

\* same_identity
SameIdentity(a, b) == a.child = b.child /\ a.id = b.id /\ a.name = b.name

\* resolve_from_event: what report e says of a held request r.
Resolves(e, r) ==
    CASE e.kind \in {"prompt", "stop"} -> ParentOf[e.child] = ParentOf[r.child]
      [] e.kind = "childstop" -> e.child = r.child
      [] e.kind \in {"progress", "request", "explicit"} -> SameTool(r, e)
      [] OTHER -> FALSE

Oldest(S) == CHOOSE n \in S : \A m \in S : n <= m

\* Mutant: a request is forgotten when its grace ends.
ExpiredNever(held) == {}
Expired(held) == {n \in held \ grown : now >= posted[n].at + Grace}
\* Mutant: an expired request is delivered and kept.
RetainedAll(held) == held \ grown
Retained(held) == {n \in held \ grown : now < posted[n].at + Grace}
Fresh == {n \in progress : now < posted[n].at + Linger}

\* record_progress: the report n takes the place of one like it, or of the oldest.
Recorded(e, n) ==
    LET others == {m \in Fresh : ~SameIdentity(posted[m], e)}
    IN  {n} \cup IF Cardinality(others) >= MaxProgress THEN others \ {Oldest(others)} ELSE others

\* Mutant: a tombstone answers every later request until it expires.
SpentNever(hits) == Fresh
\* The first tombstone that matches is taken out.
Spent(hits) == Fresh \ {Oldest(hits)}

\* A listener submits a report: accept() under the lock.
Submit(t, e) ==
    LET n == Len(posted) + 1
        left == {h \in pending : ~Resolves(e, posted[h])}
        kept == Retained(left)
        over == IF Cardinality(kept) >= MaxPending THEN {Oldest(kept)} ELSE {}
        hits == {m \in Fresh : SameTool(posted[m], e)}
    IN  /\ handing[t] = {} /\ n <= MaxPosts /\ now + Grace <= MaxTime
        /\ posted' = Append(posted, e)
        /\ \/ /\ e.kind = "progress"
              /\ pending' = kept
              /\ progress' = IF left = pending THEN Recorded(e, n) ELSE Fresh
              /\ handing' = [handing EXCEPT ![t] = Expired(left)]
           \/ /\ e.kind = "request" /\ hits # {}
              /\ pending' = kept
              /\ progress' = Spent(hits)
              /\ handing' = [handing EXCEPT ![t] = Expired(left)]
           \/ /\ e.kind = "request" /\ hits = {}
              /\ pending' = (kept \ over) \cup {n}
              /\ progress' = Fresh
              /\ handing' = [handing EXCEPT ![t] = Expired(left) \cup over]
           \/ /\ e.kind \notin {"progress", "request"}
              /\ pending' = kept
              /\ progress' = Fresh
              /\ handing' = [handing EXCEPT ![t] = Expired(left) \cup {n}]
        /\ UNCHANGED <<grown, delivered, now>>

Post(t) ==
    \E k \in Kinds, c \in Children, i \in Ids \cup {NoId}, m \in Names :
        Submit(t, [kind |-> k, child |-> c, id |-> i, name |-> m, at |-> now])

\* Mutant: the poller looks after the tombstones only.
PollProgress ==
    /\ handing[poller] = {} /\ Fresh # progress
    /\ progress' = Fresh
    /\ UNCHANGED <<pending, grown, handing, posted, delivered, now>>

\* The poller wakes up with something to do.
Poll ==
    /\ handing[poller] = {}
    /\ Retained(pending) # pending \/ Fresh # progress
    /\ pending' = Retained(pending) /\ progress' = Fresh
    /\ handing' = [handing EXCEPT ![poller] = Expired(pending)]
    /\ UNCHANGED <<grown, posted, delivered, now>>

\* The delivery sink, runs outside the arbiter's lock.
HandOut(t) ==
    /\ handing[t] # {}
    /\ delivered' = Append(delivered, Oldest(handing[t]))
    /\ handing' = [handing EXCEPT ![t] = @ \ {Oldest(@)}]
    /\ UNCHANGED <<pending, progress, grown, posted, now>>

\* A transcript grows while its request is held.
Grow ==
    /\ \E n \in pending \ grown : grown' = grown \cup {n}
    /\ UNCHANGED <<pending, progress, handing, posted, delivered, now>>

Tick ==
    /\ now < MaxTime
    /\ now' = now + 1
    /\ UNCHANGED <<pending, progress, grown, handing, posted, delivered>>

ArbiterNext ==
    \/ \E t \in Listeners : Post(t)
    \/ Poll
    \/ \E t \in Hands : HandOut(t)
    \/ Grow
    \/ Tick

ArbiterSpec == ArbiterInit /\ [][ArbiterNext]_arbiterVars

\* Time passes and the threads run; nobody has to post anything.
ArbiterFairSpec ==
    /\ ArbiterSpec
    /\ WF_arbiterVars(Tick) /\ WF_arbiterVars(Poll)
    /\ \A t \in Hands : WF_arbiterVars(HandOut(t))

-----------------------------------------------------------------------------
(* Properties *)

InHands == UNION {handing[t] : t \in Hands}
Requests == {n \in DOMAIN posted : posted[n].kind = "request"}
Accounted == pending \cup InHands \cup Range(delivered)

\* "Real unresolved approvals retain bounded fallback delivery exactly once":
\* no report is fanned out twice, in whatever hands it passes through.
DeliveredOnce ==
    /\ IsInjective(delivered)
    /\ Range(delivered) \cap (InHands \cup pending) = {}
    /\ InHands \cap pending = {}

\* Progress m answers a request n in advance: of the same tool, no longer ago than
\* the tombstone lasts.
Foretells(m, n) ==
    /\ m < n /\ posted[m].kind = "progress" /\ SameTool(posted[m], posted[n])
    /\ posted[n].at < posted[m].at + Linger

\* A request is answered later, by a report that resolves it or its transcript.
Answered(n) ==
    n \in grown \/ \E m \in DOMAIN posted : n < m /\ Resolves(posted[m], posted[n])

\* A request that is neither held nor fanned out was answered by its own scope: a later
\* report that resolves it, its transcript, or progress that foretold it.
NothingSwallowed ==
    \A n \in Requests :
        n \in Accounted \/ Answered(n) \/ \E m \in DOMAIN posted : Foretells(m, n)

\* The requests that only progress reported before them can have answered.
Foretold == {n \in Requests : n \notin Accounted /\ ~Answered(n)}

\* One report of progress answers at most one request before it is forgotten: the
\* requests answered in advance can be paired with reports that foretell them.
SingleUse ==
    \E f \in [Foretold -> DOMAIN posted] :
        IsInjective(f) /\ \A n \in Foretold : Foretells(f[n], n)

\* A request is not held for ever: it is fanned out or answered.
HoldEnds ==
    \A n \in 1..MaxPosts : n \in pending ~> n \notin pending

-----------------------------------------------------------------------------
(* What the documents say and the code does not do *)

\* cli-hook-contracts.md: a matching event at the grace boundary cannot first
\* fan out a stale approval.  A request is not fanned out after a report that
\* ends its parent's task.
NoStaleApproval ==
    \A i, j \in 1..Len(delivered) :
        LET e == posted[delivered[i]]  r == posted[delivered[j]]
        IN  i < j /\ e.kind = "stop" /\ r.kind = "request"
              /\ ParentOf[e.child] = ParentOf[r.child] => delivered[i] < delivered[j]
=============================================================================

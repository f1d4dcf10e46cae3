----------------------------- MODULE HookProofs -----------------------------
(***************************************************************************)
(* Proofs about the two halves of a hook report's way, for any number of   *)
(* clients, threads and reports and any size of the lists.  HookRelay      *)
(* decides who hears a report: nobody twice, and a report that is lost is  *)
(* an overflow of the cache or was sent to a client whose writer closed.   *)
(* HookArbiter decides whether and when it is fanned out: once, unless its *)
(* own scope answered it.  Neither shares a variable with the other.       *)
(***************************************************************************)
EXTENDS HookRelay, HookArbiter, SequenceTheorems, FiniteSetTheorems, WellFoundedInduction, TLAPS

\* What a thread has in hand is with nobody else: it is neither cached nor being
\* flushed nor sent, and no other thread has it.
InHandOnly ==
    \A t \in Threads : job[t] # Idle =>
        /\ job[t].n \in 1..begun
        /\ job[t].n \notin InCache \cup InDrains \cup Sent
        /\ \A u \in Threads \ {t} : job[u] # Idle => job[u].n # job[t].n

\* What was taken out of the cache is in no cache and with no other reader thread.
DrainsApart ==
    \A c \in Clients :
        /\ IsInjective(draining[c])
        /\ Range(draining[c]) \cap InCache = {}
        /\ \A d \in Clients \ {c} : Range(draining[c]) \cap Range(draining[d]) = {}

\* What a writer has queued it has not written yet.
WritersApart ==
    \A c \in Clients : IsInjective(queue[c]) /\ Range(queue[c]) \cap Range(got[c]) = {}

\* A new report is new everywhere.
Known == InCache \cup InDrains \cup Sent \subseteq 1..begun

\* HeardOnce strengthened: a report is in one place at a time.
OnceInv == TypeOK /\ Known /\ InHandOnly /\ DrainsApart /\ WritersApart /\ HeardOnce

-----------------------------------------------------------------------------
(* Sequences *)

\* A report that is appended joins the range; one that is not there is there once.
LEMMA Appending ==
    ASSUME NEW S, NEW s \in Seq(S), NEW x \in S
    PROVE  /\ Append(s, x) \in Seq(S)
           /\ Range(Append(s, x)) = Range(s) \cup {x}
           /\ IsInjective(s) /\ x \notin Range(s) => IsInjective(Append(s, x))
<1>1. /\ Append(s, x) \in Seq(S) /\ Len(s) \in Nat /\ DOMAIN s = 1..Len(s)
      /\ DOMAIN Append(s, x) = 1..Len(s) + 1
      /\ Append(s, x)[Len(s) + 1] = x
      /\ \A i \in 1..Len(s) : Append(s, x)[i] = s[i]
  OBVIOUS
<1>2. Range(Append(s, x)) = Range(s) \cup {x}
  <2>1. ASSUME NEW y \in Range(Append(s, x)) PROVE y \in Range(s) \cup {x}
    <3>1. PICK i \in 1..Len(s) + 1 : y = Append(s, x)[i]
      BY <1>1 DEF Range
    <3>2. CASE i = Len(s) + 1
      BY <1>1, <3>1, <3>2
    <3>3. CASE i \in 1..Len(s)
      BY <1>1, <3>1, <3>3 DEF Range
    <3> QED BY <1>1, <3>2, <3>3
  <2>2. ASSUME NEW y \in Range(s) PROVE y \in Range(Append(s, x))
    <3>1. PICK i \in 1..Len(s) : y = s[i]
      BY <1>1 DEF Range
    <3>2. i \in DOMAIN Append(s, x) /\ Append(s, x)[i] = y
      BY <1>1, <3>1
    <3> QED BY <3>2 DEF Range
  <2>3. x \in Range(Append(s, x))
    <3>1. Len(s) + 1 \in DOMAIN Append(s, x)
      BY <1>1
    <3> QED BY <1>1, <3>1 DEF Range
  <2> QED BY <2>1, <2>2, <2>3
<1>3. ASSUME IsInjective(s), x \notin Range(s),
             NEW i \in 1..Len(s) + 1, NEW j \in 1..Len(s) + 1, Append(s, x)[i] = Append(s, x)[j]
      PROVE  i = j
  <2>1. \A k \in 1..Len(s) : s[k] # x
    BY <1>1, <1>3 DEF Range
  <2>2. CASE i \in 1..Len(s) /\ j \in 1..Len(s)
    BY <1>1, <1>3, <2>2 DEF IsInjective
  <2>3. CASE i = Len(s) + 1 \/ j = Len(s) + 1
    BY <1>1, <1>3, <2>1, <2>3
  <2> QED BY <1>1, <2>2, <2>3
<1> QED BY <1>1, <1>2, <1>3 DEF IsInjective

\* The head of a sequence without repetition is not in its tail.
LEMMA Taking ==
    ASSUME NEW S, NEW s \in Seq(S), s # <<>>
    PROVE  /\ Head(s) \in S /\ Tail(s) \in Seq(S)
           /\ Head(s) \in Range(s) /\ Range(Tail(s)) \subseteq Range(s)
           /\ IsInjective(s) => IsInjective(Tail(s)) /\ Head(s) \notin Range(Tail(s))
<1>1. /\ Head(s) \in S /\ Tail(s) \in Seq(S) /\ Len(s) \in Nat \ {0} /\ DOMAIN s = 1..Len(s)
      /\ DOMAIN Tail(s) = 1..Len(s) - 1 /\ Head(s) = s[1]
      /\ \A i \in 1..Len(s) - 1 : Tail(s)[i] = s[i + 1]
  BY HeadTailProperties, LenProperties, EmptySeq
<1>2. Head(s) \in Range(s)
  BY <1>1 DEF Range
<1>3. ASSUME NEW y \in Range(Tail(s)) PROVE \E i \in 2..Len(s) : y = s[i]
  <2>1. PICK i \in 1..Len(s) - 1 : y = Tail(s)[i]
    BY <1>1 DEF Range
  <2>2. i + 1 \in 2..Len(s) /\ y = s[i + 1]
    BY <1>1, <2>1
  <2> QED BY <2>2
<1>4. Range(Tail(s)) \subseteq Range(s)
  BY <1>1, <1>3 DEF Range
<1>5. ASSUME IsInjective(s) PROVE IsInjective(Tail(s)) /\ Head(s) \notin Range(Tail(s))
  <2>1. ASSUME NEW i \in 1..Len(s) - 1, NEW j \in 1..Len(s) - 1, Tail(s)[i] = Tail(s)[j]
        PROVE  i = j
    <3>1. s[i + 1] = s[j + 1] /\ i + 1 \in 1..Len(s) /\ j + 1 \in 1..Len(s)
      BY <1>1, <2>1
    <3>2. i + 1 = j + 1
      BY <1>1, <1>5, <3>1 DEF IsInjective
    <3> QED BY <3>2
  <2>2. \A i \in 2..Len(s) : s[i] # s[1]
    BY <1>1, <1>5 DEF IsInjective
  <2> QED BY <1>1, <1>3, <2>1, <2>2 DEF IsInjective
<1> QED BY <1>1, <1>2, <1>4, <1>5

\* A sequence has only its head and what is in its tail.
LEMMA Rest ==
    ASSUME NEW S, NEW s \in Seq(S), s # <<>>
    PROVE  Range(s) \subseteq {Head(s)} \cup Range(Tail(s))
<1>1. /\ Len(s) \in Nat /\ DOMAIN s = 1..Len(s) /\ Head(s) = s[1]
      /\ DOMAIN Tail(s) = 1..Len(s) - 1
      /\ \A i \in 1..Len(s) - 1 : Tail(s)[i] = s[i + 1]
  BY HeadTailProperties, LenProperties
<1>2. ASSUME NEW i \in 1..Len(s), i # 1 PROVE s[i] \in Range(Tail(s))
  <2>1. i - 1 \in DOMAIN Tail(s) /\ Tail(s)[i - 1] = s[i]
    BY <1>1, <1>2
  <2> QED BY <2>1 DEF Range
<1> QED BY <1>1, <1>2 DEF Range

\* The end of a sequence has nothing that the sequence has not, and nothing twice.
LEMMA Trimming ==
    ASSUME NEW S, NEW s \in Seq(S), NEW k \in Nat
    PROVE  /\ LastOf(s, k) \in Seq(S) /\ Len(LastOf(s, k)) <= k
           /\ Range(LastOf(s, k)) \subseteq Range(s)
           /\ IsInjective(s) => IsInjective(LastOf(s, k))
<1> DEFINE m == Len(s) - k + 1
<1>1. Len(s) \in Nat /\ DOMAIN s = 1..Len(s) /\ \A i \in 1..Len(s) : s[i] \in S
  BY LenProperties, ElementOfSeq
<1>2. CASE Len(s) <= k
  BY <1>1, <1>2 DEF LastOf
<1>3. CASE Len(s) > k
  <2>1. LastOf(s, k) = SubSeq(s, m, Len(s)) /\ m \in 1..Len(s) + 1
    BY <1>1, <1>3 DEF LastOf
  <2>2. /\ LastOf(s, k) \in Seq(S)
        /\ Len(LastOf(s, k)) = k
        /\ \A i \in 1..k : LastOf(s, k)[i] = s[m + i - 1]
    <3>1. m \in Int /\ Len(s) \in Int /\ \A i \in m..Len(s) : s[i] \in S
      BY <1>1, <2>1
    <3>2. /\ SubSeq(s, m, Len(s)) \in Seq(S)
          /\ Len(SubSeq(s, m, Len(s))) = IF m <= Len(s) THEN Len(s) - m + 1 ELSE 0
          /\ \A i \in 1..Len(s) - m + 1 : SubSeq(s, m, Len(s))[i] = s[m + i - 1]
      BY <3>1, SubSeqProperties
    <3> QED BY <1>1, <1>3, <2>1, <3>2
  <2>3. DOMAIN LastOf(s, k) = 1..k
    BY <2>2, LenProperties
  <2>4. \A i \in 1..k : m + i - 1 \in 1..Len(s)
    BY <1>1, <1>3
  <2>5. Range(LastOf(s, k)) \subseteq Range(s)
    BY <1>1, <2>2, <2>3, <2>4 DEF Range
  <2>6. ASSUME IsInjective(s), NEW i \in 1..k, NEW j \in 1..k, LastOf(s, k)[i] = LastOf(s, k)[j]
        PROVE  i = j
    <3>1. m + i - 1 = m + j - 1
      BY <1>1, <2>2, <2>4, <2>6 DEF IsInjective
    <3> QED BY <1>1, <3>1
  <2>7. IsInjective(s) => IsInjective(LastOf(s, k))
    BY <2>3, <2>6 DEF IsInjective
  <2> QED BY <2>2, <2>5, <2>7
<1> QED BY <1>1, <1>2, <1>3

-----------------------------------------------------------------------------
(* Type correctness *)

\* The initial values have their types.
LEMMA TypeStarts == Init => TypeOK
<1> SUFFICES ASSUME Init PROVE TypeOK
  OBVIOUS
<1>1. <<>> \in Seq(Reports) /\ Len(<<>>) = 0
  BY EmptySeq
<1>2. begun \in 0..MaxReports
  BY RelayConstants DEF Init
<1> QED
  BY <1>1, <1>2, RelayConstants DEF Init, TypeOK

\* What is sent, and what a writer drops, are reports.
LEMMA SendTypes ==
    ASSUME TypeOK, NEW n \in Reports, NEW to, Send(n, to)
    PROVE  /\ UNCHANGED <<closed, got>> /\ queue' \in [Clients -> Seq(Reports)]
           /\ missed' \in [Clients -> SUBSET Reports]
<1>1. \A c \in Clients : Append(queue[c], n) \in Seq(Reports)
  BY Appending DEF TypeOK
<1> QED BY <1>1 DEF Send, TypeOK

LEMMA ShutTypes ==
    ASSUME TypeOK, NEW c \in Clients, Shut(c)
    PROVE  /\ closed' \subseteq Clients /\ queue' \in [Clients -> Seq(Reports)]
           /\ missed' \in [Clients -> SUBSET Reports] /\ got' = got
<1>1. <<>> \in Seq(Reports)
  BY EmptySeq
<1>2. Range(queue[c]) \subseteq Reports
  BY LenProperties, ElementOfSeq DEF Range, TypeOK
<1>3. missed[c] \cup Range(queue[c]) \in SUBSET Reports
  BY <1>2 DEF TypeOK
<1> QED BY <1>1, <1>3 DEF Shut, TypeOK

\* Every variable keeps its type, and the cache never exceeds its bound
\* (HOOK_CACHE_MAX in broadcast_hook).
THEOREM TypeCorrect == Spec => []TypeOK
<1>1. Init => TypeOK
  BY TypeStarts
<1>2. TypeOK /\ [Next]_vars => TypeOK'
  <2> SUFFICES ASSUME TypeOK, [Next]_vars PROVE TypeOK'
    OBVIOUS
  <2> USE DEF TypeOK
  <2>1. ASSUME NEW t \in Threads, Begin(t) PROVE TypeOK'
    <3>1. begun' \in Reports /\ begun' \in 0..MaxReports
      BY <2>1, RelayConstants DEF Begin, Reports
    <3> QED BY <2>1, <3>1 DEF Begin, writers
  <2>2. ASSUME NEW t \in Threads, Look(t) PROVE TypeOK'
    <3>1. job[t] \in [at: {"looking", "storing"}, n: Reports]
      BY <2>2 DEF Look, Idle
    <3>2. UNCHANGED <<closed, got>> /\ queue' \in [Clients -> Seq(Reports)]
          /\ missed' \in [Clients -> SUBSET Reports]
      BY <2>2, <3>1, SendTypes DEF Look, Registered
    <3>4. job' \in [Threads -> {Idle} \cup [at: {"looking", "storing"}, n: Reports]]
      BY <2>2, <3>1 DEF Look
    <3> QED BY <2>2, <3>2, <3>4 DEF Look
  <2>3. ASSUME NEW t \in Threads, Store(t) PROVE TypeOK'
    <3>1. job[t] \in [at: {"looking", "storing"}, n: Reports]
      BY <2>3 DEF Store, Idle
    <3>2. Append(cache, job[t].n) \in Seq(Reports)
      BY <3>1, Appending
    <3>3. cache' \in Seq(Reports) /\ Len(cache') <= HookCacheMax
      BY <2>3, <3>2, RelayConstants, Trimming DEF Store
    <3> QED BY <2>3, <3>3 DEF Store, writers
  <2>4. ASSUME NEW c \in Clients, Connect(c) PROVE TypeOK'
    BY <2>4 DEF Connect, writers
  <2>5. ASSUME NEW c \in Clients, Leave(c) \/ Break(c) PROVE TypeOK'
    <3>1. /\ closed' \subseteq Clients /\ queue' \in [Clients -> Seq(Reports)]
          /\ missed' \in [Clients -> SUBSET Reports] /\ got' = got
      BY <2>5, ShutTypes DEF Leave, Break
    <3> QED BY <2>5, <3>1 DEF Leave, Break
  <2>6. ASSUME NEW c \in Clients, List(c) PROVE TypeOK'
    <3>1. <<>> \in Seq(Reports) /\ Len(<<>>) = 0
      BY EmptySeq
    <3> QED BY <2>6, <3>1, RelayConstants DEF List, writers
  <2>7. ASSUME NEW c \in Clients, Flush(c) PROVE TypeOK'
    <3>1. CASE draining[c] = <<>>
      BY <2>7, <3>1 DEF Flush, writers
    <3>2. CASE draining[c] # <<>>
      <4>1. Head(draining[c]) \in Reports /\ Tail(draining[c]) \in Seq(Reports)
        BY <3>2, Taking
      <4>2. UNCHANGED <<closed, got>> /\ queue' \in [Clients -> Seq(Reports)]
            /\ missed' \in [Clients -> SUBSET Reports]
        BY <2>7, <3>2, <4>1, SendTypes DEF Flush
      <4> QED BY <2>7, <3>2, <4>1, <4>2 DEF Flush
    <3> QED BY <3>1, <3>2
  <2>9. ASSUME NEW c \in Clients, Hear(c) PROVE TypeOK'
    <3>1. Head(queue[c]) \in Reports /\ Tail(queue[c]) \in Seq(Reports)
      BY <2>9, Taking DEF Hear
    <3>2. Append(got[c], Head(queue[c])) \in Seq(Reports)
      BY <3>1, Appending
    <3> QED BY <2>9, <3>1, <3>2 DEF Hear
  <2>8. CASE UNCHANGED vars
    BY <2>8 DEF vars, writers
  <2> QED BY <2>1, <2>2, <2>3, <2>4, <2>5, <2>6, <2>7, <2>8, <2>9 DEF Next
<1> QED BY <1>1, <1>2, PTL DEF Spec

-----------------------------------------------------------------------------
(* HeardOnce *)

\* The places a report can be in, element by element.
LEMMA Places ==
    /\ \A n : n \in InDrains <=> \E c \in Clients : n \in Range(draining[c])
    /\ \A n : n \in Sent <=> \E c \in Clients :
                                 n \in Range(queue[c]) \cup Range(got[c]) \cup missed[c]
  BY DEF InDrains, Sent, Queued, Written, Missed

\* A report that was sent nowhere is now at each client it is sent to, queued or missed,
\* and no writer gets it twice.
LEMMA Sending ==
    ASSUME TypeOK, WritersApart, NEW n \in Reports, n \notin Sent, NEW to \in SUBSET Clients,
           Send(n, to)
    PROVE  /\ WritersApart' /\ got' = got
           /\ Sent \subseteq Sent' /\ Sent' \subseteq Sent \cup {n}
           /\ to # {} => n \in Sent'
           /\ to = {} => Sent' = Sent
<1>1. ASSUME NEW c \in Clients
      PROVE  /\ queue[c] \in Seq(Reports) /\ n \notin Range(queue[c]) /\ n \notin Range(got[c])
             /\ Range(Append(queue[c], n)) = Range(queue[c]) \cup {n}
             /\ IsInjective(Append(queue[c], n))
  BY Appending, Places DEF TypeOK, WritersApart
<1>2. ASSUME NEW c \in Clients
      PROVE  /\ got'[c] = got[c]
             /\ c \in to \ closed => queue'[c] = Append(queue[c], n)
             /\ c \notin to \ closed => queue'[c] = queue[c]
             /\ c \in to \cap closed => missed'[c] = missed[c] \cup {n}
             /\ c \notin to \cap closed => missed'[c] = missed[c]
  BY DEF Send
<1>3. WritersApart'
  <2> SUFFICES ASSUME NEW c \in Clients
               PROVE  IsInjective(queue'[c]) /\ Range(queue'[c]) \cap Range(got'[c]) = {}
    BY DEF WritersApart
  <2>1. CASE c \in to \ closed
    BY <1>1, <1>2, <2>1 DEF WritersApart
  <2>2. CASE c \notin to \ closed
    BY <1>2, <2>2 DEF WritersApart
  <2> QED BY <2>1, <2>2
<1>4. Sent \subseteq Sent' /\ Sent' \subseteq Sent \cup {n}
  <2>1. ASSUME NEW c \in Clients
        PROVE  /\ Range(queue[c]) \cup Range(got[c]) \cup missed[c] \subseteq
                      Range(queue'[c]) \cup Range(got'[c]) \cup missed'[c]
               /\ Range(queue'[c]) \cup Range(got'[c]) \cup missed'[c] \subseteq
                      Range(queue[c]) \cup Range(got[c]) \cup missed[c] \cup {n}
    BY <1>1, <1>2
  <2> QED BY <2>1 DEF Sent, Queued, Written, Missed
<1>5. ASSUME NEW c \in to PROVE n \in Sent'
  <2>1. n \in Range(queue'[c]) \cup missed'[c]
    BY <1>1, <1>2
  <2> QED BY <2>1 DEF Sent, Queued, Missed
<1>6. ASSUME to = {} PROVE Sent' = Sent
  <2>1. \A c \in Clients : queue'[c] = queue[c] /\ missed'[c] = missed[c] /\ got'[c] = got[c]
    BY <1>2, <1>6
  <2> QED BY <2>1 DEF Sent, Queued, Written, Missed
<1> QED BY <1>3, <1>4, <1>5, <1>6 DEF Send

\* What the writer thread writes was queued.
LEMMA Hearing ==
    ASSUME TypeOK, WritersApart, NEW c \in Clients, Hear(c)
    PROVE  /\ WritersApart' /\ Sent' = Sent
           /\ \A d \in Clients : IsInjective(got[d]) => IsInjective(got'[d])
<1> DEFINE n == Head(queue[c])
<1>1. /\ queue[c] \in Seq(Reports) /\ queue[c] # <<>> /\ IsInjective(queue[c])
      /\ got[c] \in Seq(Reports) /\ Range(queue[c]) \cap Range(got[c]) = {}
  BY DEF TypeOK, WritersApart, Hear
<1>2. /\ n \in Reports /\ n \in Range(queue[c])
      /\ IsInjective(Tail(queue[c]))
      /\ n \notin Range(Tail(queue[c])) /\ Range(Tail(queue[c])) \subseteq Range(queue[c])
  BY <1>1, Taking
<1>3. Range(queue[c]) = {n} \cup Range(Tail(queue[c]))
  BY <1>1, <1>2, Rest
<1>4. /\ Range(Append(got[c], n)) = Range(got[c]) \cup {n}
      /\ IsInjective(got[c]) => IsInjective(Append(got[c], n))
  BY <1>1, <1>2, Appending
<1>5. /\ queue'[c] = Tail(queue[c]) /\ got'[c] = Append(got[c], n) /\ missed' = missed
      /\ \A d \in Clients \ {c} : queue'[d] = queue[d] /\ got'[d] = got[d]
  BY DEF Hear, TypeOK
<1>6. WritersApart'
  BY <1>1, <1>2, <1>4, <1>5 DEF WritersApart
<1>7. ASSUME NEW d \in Clients
      PROVE  Range(queue'[d]) \cup Range(got'[d]) \cup missed'[d] =
                 Range(queue[d]) \cup Range(got[d]) \cup missed[d]
  <2>1. CASE d = c
    <3>1. /\ Range(queue'[d]) = Range(Tail(queue[c])) /\ missed'[d] = missed[c]
          /\ Range(got'[d]) = Range(got[c]) \cup {n}
      BY <1>4, <1>5, <2>1
    <3> QED BY <1>3, <2>1, <3>1
  <2>2. CASE d # c
    BY <1>5, <2>2
  <2> QED BY <2>1, <2>2
<1>8. Sent' = Sent
  BY <1>7 DEF Sent, Queued, Written, Missed
<1>9. \A d \in Clients : IsInjective(got[d]) => IsInjective(got'[d])
  BY <1>4, <1>5
<1> QED BY <1>6, <1>8, <1>9

\* What a writer drops was queued.
LEMMA Shutting ==
    ASSUME TypeOK, WritersApart, NEW c \in Clients, Shut(c)
    PROVE  WritersApart' /\ Sent' = Sent /\ got' = got
<1>1. /\ queue'[c] = <<>> /\ missed'[c] = missed[c] \cup Range(queue[c]) /\ got' = got
      /\ \A d \in Clients \ {c} : queue'[d] = queue[d] /\ missed'[d] = missed[d]
  BY DEF Shut, TypeOK
<1>2. Range(<<>>) = {} /\ IsInjective(<<>>)
  BY DEF Range, IsInjective
<1>3. WritersApart'
  BY <1>1, <1>2 DEF WritersApart
<1>4. ASSUME NEW d \in Clients
      PROVE  Range(queue'[d]) \cup Range(got'[d]) \cup missed'[d] =
                 Range(queue[d]) \cup Range(got[d]) \cup missed[d]
  BY <1>1, <1>2
<1>5. Sent' = Sent
  BY <1>4 DEF Sent, Queued, Written, Missed
<1> QED BY <1>1, <1>3, <1>5

\* At first nothing has been reported.
LEMMA OnceStarts == Init /\ TypeOK => OnceInv
<1> SUFFICES ASSUME Init, TypeOK PROVE OnceInv
  OBVIOUS
<1>1. Range(<<>>) = {} /\ IsInjective(<<>>)
  BY DEF Range, IsInjective
<1>2. InCache = {} /\ InDrains = {} /\ Sent = {}
  BY <1>1 DEF Init, InCache, InDrains, Sent, Queued, Written, Missed
<1> QED BY <1>1, <1>2 DEF Init, OnceInv, Known, InHandOnly, DrainsApart, WritersApart, HeardOnce

\* A report that begins gets a number nobody has.
LEMMA OnceBegin ==
    ASSUME OnceInv, TypeOK', NEW t \in Threads, Begin(t)
    PROVE  OnceInv'
<1> USE DEF OnceInv
<1>1. /\ InCache' = InCache /\ InDrains' = InDrains /\ Sent' = Sent
      /\ begun' = begun + 1 /\ begun \in Nat
      /\ job' = [job EXCEPT ![t] = [at |-> "looking", n |-> begun + 1]]
  BY RelayConstants DEF Begin, writers, InCache, InDrains, Sent, Queued, Written, Missed, TypeOK
<1>2. HeardOnce' /\ DrainsApart' /\ WritersApart'
  BY <1>1 DEF HeardOnce, DrainsApart, WritersApart, Begin, writers
<1>3. Known'
  BY <1>1 DEF Known
<1>4. InHandOnly'
  <2>1. ASSUME NEW u \in Threads, job'[u] # Idle
        PROVE  /\ job'[u].n \in 1..begun' /\ job'[u].n \notin InCache \cup InDrains \cup Sent
               /\ u # t => job'[u].n \in 1..begun
    <3>1. CASE u = t
      BY <1>1, <3>1 DEF TypeOK, Known
    <3>2. CASE u # t
      BY <1>1, <2>1, <3>2 DEF InHandOnly, TypeOK
    <3> QED BY <3>1, <3>2
  <2>2. ASSUME NEW u \in Threads, NEW w \in Threads \ {u}, job'[u] # Idle, job'[w] # Idle
        PROVE  job'[w].n # job'[u].n
    <3>1. job'[t].n = begun + 1
      BY <1>1 DEF TypeOK
    <3>2. CASE u = t \/ w = t
      BY <1>1, <2>1, <2>2, <3>1, <3>2
    <3>3. CASE u # t /\ w # t
      BY <1>1, <2>2, <3>3 DEF InHandOnly, TypeOK
    <3> QED BY <3>2, <3>3
  <2> QED BY <1>1, <2>1, <2>2 DEF InHandOnly
<1> QED BY <1>2, <1>3, <1>4

\* A report is sent to everybody while it is in hand only, and leaves the hand.
LEMMA OnceLook ==
    ASSUME OnceInv, TypeOK', NEW t \in Threads, Look(t)
    PROVE  OnceInv'
<1> DEFINE n == job[t].n
<1> USE DEF OnceInv
<1>1. /\ job[t] # Idle /\ n \in Reports
      /\ InCache' = InCache /\ InDrains' = InDrains
      /\ draining' = draining /\ cache' = cache /\ begun' = begun
  BY DEF Look, InCache, InDrains, TypeOK, Idle
<1>2. n \in 1..begun /\ n \notin InCache \cup InDrains \cup Sent
  BY <1>1 DEF InHandOnly
<1>3. /\ WritersApart' /\ got' = got /\ Sent' \subseteq Sent \cup {n}
      /\ Registered = {} => Sent' = Sent
  BY <1>1, <1>2, Sending DEF Look, Registered
<1>4. ASSUME Registered = {} PROVE InHandOnly'
  <2>1. /\ job' = [job EXCEPT ![t].at = "storing"]
        /\ \A u \in Threads : job'[u] # Idle => job[u] # Idle /\ job'[u].n = job[u].n
    BY <1>1, <1>4 DEF Look, TypeOK, Idle
  <2> QED BY <1>1, <1>3, <1>4, <2>1 DEF InHandOnly
<1>5. ASSUME Registered # {} PROVE InHandOnly'
  <2>1. \A u \in Threads : job'[u] # Idle => u # t /\ job'[u] = job[u]
    BY <1>5 DEF Look, TypeOK
  <2> QED BY <1>1, <1>3, <2>1 DEF InHandOnly
<1>6. Known' /\ DrainsApart'
  BY <1>1, <1>2, <1>3 DEF Known, DrainsApart
<1>7. HeardOnce'
  BY <1>1, <1>2, <1>3 DEF HeardOnce
<1> QED BY <1>3, <1>4, <1>5, <1>6, <1>7

\* A report goes from the hand into the cache; the cache forgets its oldest.
LEMMA OnceStore ==
    ASSUME OnceInv, TypeOK', NEW t \in Threads, Store(t)
    PROVE  OnceInv'
<1> DEFINE n == job[t].n
<1> USE DEF OnceInv
<1>1. /\ job[t] # Idle /\ n \in Reports
      /\ InDrains' = InDrains /\ Sent' = Sent
      /\ draining' = draining /\ UNCHANGED writers /\ begun' = begun
      /\ \A u \in Threads : job'[u] # Idle => u # t /\ job'[u] = job[u]
  BY DEF Store, writers, InDrains, Sent, Queued, Written, Missed, TypeOK, Idle
<1>2. n \in 1..begun /\ n \notin InCache \cup InDrains \cup Sent
  BY <1>1 DEF InHandOnly
<1>3. InCache' \subseteq InCache \cup {n} /\ IsInjective(cache')
  <2>1. cache \in Seq(Reports) /\ IsInjective(cache) /\ n \notin Range(cache)
    BY <1>2 DEF HeardOnce, TypeOK, InCache
  <2>2. /\ Append(cache, n) \in Seq(Reports) /\ Range(Append(cache, n)) = Range(cache) \cup {n}
        /\ IsInjective(Append(cache, n))
    BY <1>1, <2>1, Appending
  <2>3. /\ Range(LastOf(Append(cache, n), HookCacheMax)) \subseteq Range(Append(cache, n))
        /\ IsInjective(LastOf(Append(cache, n), HookCacheMax))
    BY <2>2, Trimming, RelayConstants
  <2> QED BY <2>2, <2>3 DEF Store, InCache
<1>4. InHandOnly'
  BY <1>1, <1>3 DEF InHandOnly
<1>5. DrainsApart'
  BY <1>1, <1>2, <1>3, Places DEF DrainsApart
<1>6. Known' /\ HeardOnce' /\ WritersApart'
  BY <1>1, <1>2, <1>3 DEF Known, HeardOnce, WritersApart, writers
<1> QED BY <1>4, <1>5, <1>6

\* The cache is emptied into the hands of one reader thread.
LEMMA OnceList ==
    ASSUME OnceInv, TypeOK', NEW c \in Clients, List(c)
    PROVE  OnceInv'
<1> USE DEF OnceInv
<1>1. /\ Sent' = Sent /\ UNCHANGED writers /\ begun' = begun /\ job' = job
      /\ draining' = [draining EXCEPT ![c] = cache] /\ cache' = <<>>
  BY DEF List, writers, Sent, Queued, Written, Missed
<1>2. InCache' = {} /\ IsInjective(cache')
  BY <1>1 DEF InCache, Range, IsInjective
<1>3. /\ draining'[c] = cache
      /\ \A d \in Clients \ {c} : draining'[d] = draining[d]
  BY <1>1 DEF TypeOK
<1>4. InDrains' \subseteq InDrains \cup InCache
  <2> SUFFICES ASSUME NEW n, NEW d \in Clients, n \in Range(draining'[d])
               PROVE  n \in InDrains \cup InCache
    BY DEF InDrains
  <2> QED BY <1>3, Places DEF InCache
<1>5. InHandOnly'
  BY <1>1, <1>2, <1>4 DEF InHandOnly
<1>6. DrainsApart'
  BY <1>2, <1>3 DEF DrainsApart, HeardOnce, InCache
<1>7. Known' /\ HeardOnce' /\ WritersApart'
  BY <1>1, <1>2, <1>4 DEF Known, HeardOnce, WritersApart, writers
<1> QED BY <1>5, <1>6, <1>7

\* One report is sent by the reader thread that holds it.
LEMMA OnceFlush ==
    ASSUME OnceInv, TypeOK', NEW c \in Clients, Flush(c)
    PROVE  OnceInv'
<1> USE DEF OnceInv
<1>1. job' = job /\ begun' = begun /\ cache' = cache /\ InCache' = InCache
  BY DEF Flush, InCache
<1>2. CASE draining[c] = <<>>
  <2>1. draining' = draining /\ UNCHANGED writers
    BY <1>2 DEF Flush
  <2>2. InDrains' = InDrains /\ Sent' = Sent
    BY <2>1 DEF InDrains, writers, Sent, Queued, Written, Missed
  <2> QED BY <1>1, <2>1, <2>2
          DEF InHandOnly, DrainsApart, WritersApart, Known, HeardOnce, writers
<1>3. CASE draining[c] # <<>>
  <2> DEFINE n == Head(draining[c])
             rest == Tail(draining[c])
  <2>1. /\ n \in Reports /\ n \in Range(draining[c])
        /\ Range(rest) \subseteq Range(draining[c]) \ {n} /\ IsInjective(rest)
    <3>1. draining[c] \in Seq(Reports) /\ IsInjective(draining[c])
      BY DEF TypeOK, DrainsApart
    <3> QED BY <1>3, <3>1, Taking
  <2>2. draining'[c] = rest /\ \A d \in Clients \ {c} : draining'[d] = draining[d]
    BY <1>3 DEF Flush, TypeOK
  <2>3. n \in InDrains /\ n \notin InCache /\ n \notin Sent
    BY <2>1, Places DEF DrainsApart, HeardOnce
  <2>5. WritersApart' /\ got' = got /\ Sent' \subseteq Sent \cup {n}
    BY <1>3, <2>1, <2>3, Sending DEF Flush
  <2>6. InDrains' \subseteq InDrains \ {n}
    <3> SUFFICES ASSUME NEW m, NEW d \in Clients, m \in Range(draining'[d])
                 PROVE  m \in InDrains \ {n}
      BY DEF InDrains
    <3>1. CASE d = c
      BY <2>1, <2>2, <3>1, Places
    <3>2. CASE d # c
      BY <2>1, <2>2, <3>2, Places DEF DrainsApart
    <3> QED BY <3>1, <3>2
  <2>7. InHandOnly'
    BY <1>1, <2>3, <2>5, <2>6 DEF InHandOnly
  <2>8. DrainsApart'
    BY <1>1, <2>1, <2>2 DEF DrainsApart
  <2>9. Known'
    BY <1>1, <2>3, <2>5, <2>6 DEF Known
  <2>10. HeardOnce'
    BY <1>1, <2>3, <2>5, <2>6 DEF HeardOnce
  <2> QED BY <2>5, <2>7, <2>8, <2>9, <2>10
<1> QED BY <1>2, <1>3

\* Every step keeps OnceInv.
LEMMA OnceSteps == OnceInv /\ TypeOK' /\ [Next]_vars => OnceInv'
<1> SUFFICES ASSUME OnceInv, TypeOK', [Next]_vars PROVE OnceInv'
  OBVIOUS
<1>1. ASSUME NEW t \in Threads, Begin(t) \/ Look(t) \/ Store(t) PROVE OnceInv'
  BY <1>1, OnceBegin, OnceLook, OnceStore
<1>2. ASSUME NEW c \in Clients, Connect(c) \/ Hear(c) \/ Break(c) \/ Leave(c) PROVE OnceInv'
  <2>1. WritersApart' /\ Sent' = Sent
    <3>1. CASE Connect(c)
      BY <3>1 DEF Connect, writers, OnceInv, WritersApart, Sent, Queued, Written, Missed
    <3> QED BY <1>2, <3>1, Hearing, Shutting DEF Break, Leave, OnceInv
  <2>2. \A d \in Clients : IsInjective(got'[d])
    BY <1>2, Hearing, Shutting DEF Connect, writers, Break, Leave, OnceInv, HeardOnce
  <2>3. UNCHANGED <<draining, cache, job, begun>>
    BY <1>2 DEF Connect, Hear, Break, Leave
  <2> QED BY <2>1, <2>2, <2>3 DEF OnceInv, Known, InHandOnly, DrainsApart, HeardOnce,
                                  InCache, InDrains
<1>3. ASSUME NEW c \in Clients, List(c) \/ Flush(c) PROVE OnceInv'
  BY <1>3, OnceList, OnceFlush
<1>4. CASE UNCHANGED vars
  <2>1. UNCHANGED <<closed, queue, got, missed, draining, cache, job, begun>>
    BY <1>4 DEF vars, writers
  <2>2. InCache' = InCache /\ InDrains' = InDrains /\ Sent' = Sent
    BY <2>1 DEF InCache, InDrains, Sent, Queued, Written, Missed
  <2>3. WritersApart' /\ DrainsApart' /\ HeardOnce'
    BY <2>1, <2>2 DEF OnceInv, WritersApart, DrainsApart, HeardOnce
  <2>4. Known' /\ InHandOnly'
    BY <2>1, <2>2 DEF OnceInv, Known, InHandOnly
  <2> QED BY <2>3, <2>4 DEF OnceInv
<1> QED
  BY <1>1, <1>2, <1>3, <1>4 DEF Next

\* No client is sent a report twice, although a report may come live or out of the
\* cache, and no report is still to come that was sent already, whatever writers close.
THEOREM NobodyHearsTwice == Spec => []HeardOnce
<1>1. Init /\ TypeOK => OnceInv
  BY OnceStarts
<1>2. OnceInv /\ TypeOK' /\ [Next]_vars => OnceInv'
  BY OnceSteps
<1>3. OnceInv => HeardOnce
  BY DEF OnceInv
<1> QED BY <1>1, <1>2, <1>3, TypeCorrect, PTL DEF Spec

-----------------------------------------------------------------------------
(* KeptWithinBound *)

\* The reports that began before the one at position i of the cache and come after it:
\* behind it in the cache, or still with a thread.
Late(i) ==
    {k \in 1..cache[i] - 1 : k \in InJobs \/ \E j \in DOMAIN cache : j > i /\ cache[j] = k}

\* They were all with other threads when the report at i was cached.
Overtaken == \A i \in DOMAIN cache : Cardinality(Late(i)) < Cardinality(Threads)

\* Only a reader thread that is answering a list has reports of the cache in hand.
Handed == \A c \in Clients \ asking : draining[c] = <<>>

\* A writer that closed has nothing queued, and only such a writer missed a report.
ClosedForGood ==
    \A c \in Clients : IF c \in closed THEN queue[c] = <<>> ELSE missed[c] = {}

\* A report is somewhere, unless the cache overflowed.
AllKept ==
    \A n \in 1..begun :
        \/ n \in InJobs \cup InCache \cup InDrains \cup Sent
        \/ begun > HookCacheMax /\ begun - n > HookCacheMax - Cardinality(Threads)

\* KeptWithinBound strengthened: only slow threads bring an older report behind a younger,
\* and only a writer that is closed drops one.
KeptInv == Handed /\ Overtaken /\ ClosedForGood /\ AllKept

\* The late reports are finitely many.
LEMMA LateFinite ==
    ASSUME OnceInv, NEW i \in DOMAIN cache
    PROVE  IsFiniteSet(Late(i)) /\ Cardinality(Late(i)) \in Nat
<1>1. cache[i] \in Nat
  <2>1. cache[i] \in InCache
    BY DEF InCache, Range
  <2> QED
    BY <2>1 DEF OnceInv, Known
<1>2. IsFiniteSet(1..cache[i] - 1)
  BY <1>1, FS_Interval
<1>3. Late(i) \in SUBSET (1..cache[i] - 1)
  BY DEF Late
<1> QED
  BY <1>2, <1>3, FS_Subset, FS_CardinalityType

\* A report that is late after a step was late before it: what Overtaken says of a report
\* that stays cached needs no more.
LEMMA StaysOvertaken ==
    ASSUME IsFiniteSet(Threads), OnceInv, Overtaken, NEW i \in DOMAIN cache, NEW j \in DOMAIN cache',
           Late(j)' \subseteq Late(i)
    PROVE  Cardinality(Late(j)') < Cardinality(Threads)
<1>1. IsFiniteSet(Late(i)) /\ Late(j)' \in SUBSET Late(i)
  BY LateFinite
<1>2. Cardinality(Late(j)') <= Cardinality(Late(i))
  BY <1>1, FS_Subset
<1>3. Cardinality(Late(i)) \in Nat /\ IsFiniteSet(Late(j)')
  BY <1>1, LateFinite, FS_Subset
<1>4. Cardinality(Late(j)') \in Nat
  BY <1>3, FS_CardinalityType
<1>5. Cardinality(Late(i)) < Cardinality(Threads) /\ Cardinality(Threads) \in Nat
  BY FS_CardinalityType DEF Overtaken
<1> QED
  BY <1>2, <1>3, <1>4, <1>5

\* The threads but one hold fewer reports than there are threads.
LEMMA OtherHands ==
    ASSUME IsFiniteSet(Threads), NEW t \in Threads, NEW S,
           S \subseteq {job[u].n : u \in Threads \ {t}}
    PROVE  Cardinality(S) < Cardinality(Threads)
<1> DEFINE rest == Threads \ {t}
           f == [u \in rest |-> job[u].n]
           T == {job[u].n : u \in rest}
<1>1. /\ IsFiniteSet(rest) /\ Cardinality(rest) = Cardinality(Threads) - 1
      /\ Cardinality(Threads) \in Nat /\ Cardinality(rest) \in Nat
  BY FS_RemoveElement, FS_CardinalityType
<1>2. f \in Surjection(rest, T)
  BY DEF Surjection
<1>3. IsFiniteSet(T) /\ Cardinality(T) <= Cardinality(rest)
  BY <1>1, <1>2, FS_Surjection
<1>4. S \in SUBSET T
  OBVIOUS
<1>5. IsFiniteSet(S) /\ Cardinality(S) <= Cardinality(T)
  BY <1>3, <1>4, FS_Subset
<1>6. Cardinality(S) \in Nat /\ Cardinality(T) \in Nat
  BY <1>3, <1>5, FS_CardinalityType
<1> QED
  BY <1>1, <1>3, <1>5, <1>6

\* What Store makes of the cache: the report comes last, and a full cache loses its first.
LEMMA Stored ==
    ASSUME TypeOK, NEW t \in Threads, Store(t)
    PROVE  /\ Len(cache) < HookCacheMax =>
                 /\ Len(cache') = Len(cache) + 1
                 /\ \A i \in 1..Len(cache) : cache'[i] = cache[i]
                 /\ cache'[Len(cache) + 1] = job[t].n
           /\ Len(cache) = HookCacheMax =>
                 /\ Len(cache') = Len(cache)
                 /\ \A i \in 1..Len(cache) - 1 : cache'[i] = cache[i + 1]
                 /\ cache'[Len(cache)] = job[t].n
<1> DEFINE longer == Append(cache, job[t].n)
<1>1. /\ Len(cache) \in Nat /\ cache \in Seq(Reports) /\ HookCacheMax \in Nat \ {0}
      /\ job[t].n \in Reports
  BY RelayConstants DEF TypeOK, Store, Idle
<1>2. /\ longer \in Seq(Reports) /\ Len(longer) = Len(cache) + 1
      /\ \A i \in 1..Len(cache) : longer[i] = cache[i]
      /\ longer[Len(cache) + 1] = job[t].n
  BY <1>1
<1>3. ASSUME Len(cache) < HookCacheMax PROVE cache' = longer
  BY <1>1, <1>2, <1>3 DEF Store, LastOf
<1>4. ASSUME Len(cache) = HookCacheMax
      PROVE  /\ Len(cache') = Len(cache)
             /\ \A i \in 1..Len(cache) : cache'[i] = longer[i + 1]
  <2>1. cache' = SubSeq(longer, 2, Len(longer))
    BY <1>1, <1>2, <1>4 DEF Store, LastOf
  <2>2. \A i \in 2..Len(longer) : longer[i] \in Reports
    BY <1>1, <1>2, ElementOfSeq
  <2>3. /\ Len(cache') = Len(longer) - 1
        /\ \A i \in 1..Len(longer) - 1 : cache'[i] = longer[2 + i - 1]
    BY <1>1, <1>2, <2>1, <2>2, SubSeqProperties
  <2> QED
    BY <1>1, <1>2, <2>3
<1> QED
  BY <1>1, <1>2, <1>3, <1>4

\* A step that caches nothing makes no report late, if it puts no new one before the cached.
LEMMA OvertakenSpared ==
    ASSUME IsFiniteSet(Threads), OnceInv, Overtaken, cache' = cache,
           \A k \in InJobs' : k \in InJobs \/ k = 0 \/ k = begun + 1
    PROVE  Overtaken'
<1> SUFFICES ASSUME NEW i \in DOMAIN cache PROVE Cardinality(Late(i)') < Cardinality(Threads)
  BY DEF Overtaken
<1>1. cache[i] \in 1..begun
  <2>1. cache[i] \in InCache
    BY DEF InCache, Range
  <2> QED
    BY <2>1 DEF OnceInv, Known
<1>2. begun \in Nat
  BY RelayConstants DEF OnceInv, TypeOK
<1>3. Late(i)' \subseteq Late(i)
  BY <1>1, <1>2 DEF Late
<1> QED
  BY <1>3, StaysOvertaken

\* Where a position of a cache that is full or not can be.
LEMMA Positions ==
    ASSUME NEW a \in Nat, NEW b \in Nat
    PROVE  /\ a <= b => a < b \/ a = b
           /\ \A i \in 1..a : i = a \/ (i < a /\ i \in 1..a - 1)
  OBVIOUS

\* A report that is cached finds late ones only with the other threads, and makes none of
\* those that stay late that was not late before.
LEMMA OvertakenStore ==
    ASSUME IsFiniteSet(Threads), OnceInv, Overtaken, NEW t \in Threads, Store(t)
    PROVE  Overtaken'
<1> DEFINE m == job[t].n
<1>1. /\ TypeOK /\ Len(cache) \in Nat /\ Len(cache') \in Nat /\ HookCacheMax \in Nat
      /\ DOMAIN cache = 1..Len(cache) /\ DOMAIN cache' = 1..Len(cache')
      /\ Len(cache) <= HookCacheMax
  <2>1. TypeOK /\ Append(cache, m) \in Seq(Reports)
    BY Appending DEF OnceInv, TypeOK, Store, Idle
  <2>2. cache' \in Seq(Reports)
    BY <2>1, Trimming, RelayConstants DEF Store
  <2> QED
    BY <2>1, <2>2, LenProperties, RelayConstants DEF TypeOK
<1>2. m \in InJobs /\ InJobs' \subseteq InJobs \cup {0}
      /\ InJobs' \subseteq {job[u].n : u \in Threads \ {t}} \cup {0}
  <2>1. \A u \in Threads : job'[u].n = IF u = t THEN 0 ELSE job[u].n
    BY DEF Store, OnceInv, TypeOK, Idle
  <2> QED
    BY <2>1 DEF InJobs
<1> SUFFICES ASSUME NEW j \in 1..Len(cache') PROVE Cardinality(Late(j)') < Cardinality(Threads)
  BY <1>1 DEF Overtaken
<1>3. CASE j = Len(cache')
  <2>1. Late(j)' \subseteq {job[u].n : u \in Threads \ {t}}
    BY <1>1, <1>2, <1>3 DEF Late
  <2> QED
    BY <2>1, OtherHands
<1>4. CASE j < Len(cache') /\ Len(cache) < HookCacheMax
  <2>1. /\ Len(cache') = Len(cache) + 1 /\ cache'[Len(cache) + 1] = m
        /\ \A i \in 1..Len(cache) : cache'[i] = cache[i]
    BY <1>1, <1>4, Stored
  <2>2. j \in 1..Len(cache)
    BY <1>1, <1>4, <2>1
  <2>3. Late(j)' \subseteq Late(j)
    <3> SUFFICES ASSUME NEW k \in Late(j)' PROVE k \in Late(j)
      OBVIOUS
    <3>1. k \in 1..cache[j] - 1
      BY <2>1, <2>2 DEF Late
    <3>2. CASE k \in InJobs'
      BY <1>2, <3>1, <3>2 DEF Late
    <3>3. ASSUME NEW i \in 1..Len(cache'), i > j, cache'[i] = k PROVE k \in Late(j)
      <4>1. CASE i = Len(cache) + 1
        BY <1>2, <2>1, <3>1, <3>3, <4>1 DEF Late
      <4>2. CASE i \in 1..Len(cache)
        BY <1>1, <2>1, <3>1, <3>3, <4>2 DEF Late
      <4> QED
        BY <1>1, <2>1, <3>3, <4>1, <4>2
    <3> QED
      BY <1>1, <3>2, <3>3 DEF Late
  <2> QED
    BY <1>1, <2>2, <2>3, StaysOvertaken
<1>5. CASE j < Len(cache') /\ Len(cache) = HookCacheMax
  <2>1. /\ Len(cache') = Len(cache) /\ cache'[Len(cache)] = m
        /\ \A i \in 1..Len(cache) - 1 : cache'[i] = cache[i + 1]
    BY <1>1, <1>5, Stored
  <2>2. j \in 1..Len(cache) - 1 /\ j + 1 \in 1..Len(cache)
    BY <1>1, <1>5, <2>1
  <2>3. Late(j)' \subseteq Late(j + 1)
    <3> SUFFICES ASSUME NEW k \in Late(j)' PROVE k \in Late(j + 1)
      OBVIOUS
    <3>1. k \in 1..cache[j + 1] - 1
      BY <2>1, <2>2 DEF Late
    <3>2. CASE k \in InJobs'
      BY <1>2, <3>1, <3>2 DEF Late
    <3>3. ASSUME NEW i \in 1..Len(cache'), i > j, cache'[i] = k PROVE k \in Late(j + 1)
      <4>1. CASE i = Len(cache)
        BY <1>2, <2>1, <3>1, <3>3, <4>1 DEF Late
      <4>2. CASE i \in 1..Len(cache) - 1
        <5>1. i + 1 \in DOMAIN cache /\ i + 1 > j + 1 /\ cache[i + 1] = k
          BY <1>1, <2>1, <2>2, <3>3, <4>2
        <5> QED
          BY <3>1, <5>1 DEF Late
      <4>3. i = Len(cache) \/ i \in 1..Len(cache) - 1
        BY <1>1, <2>1, <3>3, Positions
      <4> QED
        BY <4>1, <4>2, <4>3
    <3> QED
      BY <1>1, <3>2, <3>3 DEF Late
  <2> QED
    BY <1>1, <2>2, <2>3, StaysOvertaken
<1>6. Len(cache) < HookCacheMax \/ Len(cache) = HookCacheMax
  BY <1>1, Positions
<1>7. j < Len(cache') \/ j = Len(cache')
  BY <1>1, Positions
<1> QED
  BY <1>3, <1>4, <1>5, <1>6, <1>7

\* A full cache loses a report only when enough others have begun, and enough of them
\* after it.
LEMMA LostToMany ==
    ASSUME IsFiniteSet(Threads), OnceInv, Overtaken, NEW t \in Threads, Store(t),
           Len(cache) = HookCacheMax
    PROVE  begun > HookCacheMax /\ begun - cache[1] > HookCacheMax - Cardinality(Threads)
<1> DEFINE m == job[t].n
           n == cache[1]
           x == HookCacheMax
<1>1. /\ x \in Nat \ {0} /\ begun \in Nat /\ DOMAIN cache = 1..x /\ IsInjective(cache)
      /\ 1 \in DOMAIN cache
  BY RelayConstants, LenProperties DEF OnceInv, TypeOK, HeardOnce
<1>2. m \in 1..begun /\ m \in InJobs /\ \A i \in 1..x : cache[i] # m /\ cache[i] \in 1..begun
  <2>1. job[t] # Idle
    BY DEF Store, Idle
  <2>2. \A i \in 1..x : cache[i] \in InCache
    BY <1>1 DEF InCache, Range
  <2> QED
    BY <2>1, <2>2 DEF OnceInv, InHandOnly, Known, InJobs
<1>3. \A i, j \in 1..x : cache[i] = cache[j] => i = j
  BY <1>1 DEF IsInjective
<1>4. begun > x
  <2> DEFINE h == [i \in 1..x + 1 |-> IF i = x + 1 THEN m ELSE cache[i]]
  <2>1. h \in Injection(1..x + 1, 1..begun)
    <3>1. \A i \in 1..x + 1 : i # x + 1 => i \in 1..x
      BY <1>1
    <3>2. h \in [1..x + 1 -> 1..begun]
      BY <1>2, <3>1
    <3>3. \A i, j \in 1..x + 1 : h[i] = h[j] => i = j
      BY <1>2, <1>3, <3>1
    <3> QED
      BY <3>2, <3>3 DEF Injection, IsInjective
  <2>2. IsFiniteSet(1..begun) /\ Cardinality(1..begun) = begun /\ Cardinality(1..x + 1) = x + 1
    BY <1>1, FS_Interval
  <2>3. Cardinality(1..x + 1) <= Cardinality(1..begun)
    BY <2>1, <2>2, FS_Injection
  <2> QED
    BY <1>1, <2>2, <2>3
<1>5. begun - n > x - Cardinality(Threads)
  <2> DEFINE g == [i \in 1..x |-> IF i = x THEN m ELSE cache[i + 1]]
             younger == n + 1..begun
             T == Late(1) \cup younger
  <2>1. n \in 1..begun
    BY <1>1, <1>2
  <2>2. ASSUME NEW k \in 1..begun, k # n,
               k \in InJobs \/ \E j \in DOMAIN cache : j > 1 /\ cache[j] = k
        PROVE  k \in T
    BY <1>1, <2>1, <2>2 DEF Late
  <2>3. \A i \in 1..x : i # x => i + 1 \in 1..x /\ i + 1 > 1 /\ i + 1 # 1
    BY <1>1
  <2>4. g \in Injection(1..x, T)
    <3>1. \A i \in 1..x : g[i] \in T
      <4> TAKE i \in 1..x
      <4>1. CASE i = x
        BY <1>1, <1>2, <2>2, <4>1
      <4>2. CASE i # x
        <5>1. /\ cache[i + 1] \in 1..begun /\ cache[i + 1] # n
              /\ i + 1 \in DOMAIN cache /\ i + 1 > 1
          BY <1>1, <1>2, <1>3, <2>3, <4>2
        <5> QED
          BY <2>2, <4>2, <5>1
      <4> QED
        BY <4>1, <4>2
    <3>2. \A i, j \in 1..x : g[i] = g[j] => i = j
      <4> SUFFICES ASSUME NEW i \in 1..x, NEW j \in 1..x, g[i] = g[j] PROVE i = j
        OBVIOUS
      <4>1. CASE i # x /\ j # x
        <5>1. i + 1 = j + 1
          BY <1>3, <2>3, <4>1
        <5> QED
          BY <1>1, <5>1
      <4>2. CASE i = x \/ j = x
        BY <1>2, <2>3, <4>2
      <4> QED
        BY <4>1, <4>2
    <3> QED
      BY <3>1, <3>2 DEF Injection, IsInjective
  <2>5. IsFiniteSet(younger) /\ Cardinality(younger) = begun - n
    <3>1. n + 1 \in Int /\ begun \in Int /\ n <= begun
      BY <1>1, <2>1
    <3>2. /\ IsFiniteSet(younger)
          /\ Cardinality(younger) = IF n + 1 > begun THEN 0 ELSE begun - (n + 1) + 1
      BY <3>1, FS_Interval
    <3> QED
      BY <1>1, <2>1, <3>1, <3>2
  <2>6. IsFiniteSet(Late(1)) /\ Cardinality(Late(1)) \in Nat
    BY <1>1, LateFinite
  <2>7. /\ IsFiniteSet(T)
        /\ Cardinality(T) = Cardinality(Late(1)) + Cardinality(younger)
                            - Cardinality(Late(1) \cap younger)
    BY <2>5, <2>6, FS_Union
  <2>8. Cardinality(Late(1) \cap younger) \in Nat
    BY <2>5, <2>6, FS_Subset, FS_CardinalityType
  <2>9. Cardinality(1..x) = x /\ Cardinality(1..x) <= Cardinality(T)
    BY <1>1, <2>4, <2>7, FS_Interval, FS_Injection
  <2>10. Cardinality(Late(1)) < Cardinality(Threads) /\ Cardinality(Threads) \in Nat
    BY <1>1, FS_CardinalityType DEF Overtaken
  <2> QED
    BY <1>1, <2>1, <2>5, <2>6, <2>7, <2>8, <2>9, <2>10
<1> QED
  BY <1>4, <1>5

\* A report that stays where it was, or goes on, is not lost.
LEMMA KeptSpared ==
    ASSUME OnceInv, AllKept, begun' = begun,
           InJobs \cup InCache \cup InDrains \cup Sent \subseteq
               {0} \cup (InJobs \cup InCache \cup InDrains \cup Sent)'
    PROVE  AllKept'
  BY DEF AllKept

\* Only an open writer gets a report into its queue, and it empties when it closes.
LEMMA ClosedSteps ==
    ASSUME TypeOK, ClosedForGood, [Next]_vars
    PROVE  ClosedForGood'
<1>1. ASSUME NEW n, NEW to, Send(n, to) PROVE ClosedForGood'
  BY <1>1 DEF Send, ClosedForGood
<1>2. ASSUME NEW c \in Clients, Shut(c) PROVE ClosedForGood'
  BY <1>2 DEF Shut, ClosedForGood, TypeOK
<1>3. ASSUME NEW c \in Clients, Hear(c) PROVE ClosedForGood'
  BY <1>3 DEF Hear, ClosedForGood, TypeOK
<1>4. ASSUME UNCHANGED writers PROVE ClosedForGood'
  BY <1>4 DEF writers, ClosedForGood
<1>5. ASSUME NEW t \in Threads, Begin(t) \/ Look(t) \/ Store(t) PROVE ClosedForGood'
  BY <1>1, <1>4, <1>5 DEF Begin, Look, Store
<1>6. ASSUME NEW c \in Clients, Connect(c) \/ Break(c) \/ Leave(c) \/ List(c)
      PROVE  ClosedForGood'
  BY <1>2, <1>4, <1>6 DEF Connect, Break, Leave, List
<1>7. ASSUME NEW c \in Clients, Flush(c) PROVE ClosedForGood'
  BY <1>1, <1>4, <1>7 DEF Flush
<1>8. CASE UNCHANGED vars
  BY <1>4, <1>8 DEF vars
<1> QED BY <1>3, <1>5, <1>6, <1>7, <1>8 DEF Next

\* Every step keeps KeptInv.
LEMMA KeptSteps ==
    ASSUME IsFiniteSet(Threads), OnceInv, TypeOK', KeptInv, [Next]_vars
    PROVE  KeptInv'
<1>1. /\ TypeOK /\ begun \in Nat /\ Cardinality(Threads) \in Nat /\ HookCacheMax \in Nat
  BY RelayConstants, FS_CardinalityType DEF OnceInv, TypeOK
<1>2. Handed'
  <2>1. ASSUME NEW t \in Threads, Begin(t) \/ Look(t) \/ Store(t) PROVE Handed'
    BY <2>1 DEF Begin, Look, Store, KeptInv, Handed
  <2>2. ASSUME NEW c \in Clients, Connect(c) \/ Hear(c) \/ Break(c) \/ Leave(c) \/ List(c)
        PROVE  Handed'
    BY <1>1, <2>2 DEF Connect, Hear, Break, Leave, List, KeptInv, Handed, TypeOK
  <2>3. ASSUME NEW c \in Clients, Flush(c) PROVE Handed'
    BY <1>1, <2>3 DEF Flush, KeptInv, Handed, TypeOK
  <2>4. CASE UNCHANGED vars
    BY <2>4 DEF vars, KeptInv, Handed
  <2> QED
    BY <2>1, <2>2, <2>3, <2>4 DEF Next
<1>10. ClosedForGood'
  BY <1>1, ClosedSteps DEF KeptInv
<1>3. ASSUME NEW t \in Threads, Begin(t) PROVE KeptInv'
  <2>1. /\ InCache' = InCache /\ InDrains' = InDrains /\ Sent' = Sent
        /\ begun' = begun + 1 /\ cache' = cache
    BY <1>3 DEF Begin, writers, InCache, InDrains, Sent, Queued, Written, Missed
  <2>2. \A u \in Threads : job'[u].n = IF u = t THEN begun + 1 ELSE job[u].n
    BY <1>1, <1>3, <2>1 DEF Begin, TypeOK
  <2>3. job[t].n = 0
    BY <1>3 DEF Begin, Idle
  <2>4. /\ begun + 1 \in InJobs' /\ \A k \in InJobs : k = 0 \/ k \in InJobs'
        /\ \A k \in InJobs' : k \in InJobs \/ k = begun + 1
    BY <2>2, <2>3 DEF InJobs
  <2>5. AllKept'
    BY <1>1, <2>1, <2>4 DEF KeptInv, AllKept
  <2> QED
    BY <1>2, <1>10, <2>1, <2>4, <2>5, OvertakenSpared DEF KeptInv
<1>4. ASSUME NEW t \in Threads, Look(t) PROVE KeptInv'
  <2>1. /\ InCache' = InCache /\ InDrains' = InDrains /\ begun' = begun /\ cache' = cache
    BY <1>4 DEF Look, InCache, InDrains
  <2>2. \A u \in Threads : job'[u].n = job[u].n \/ (u = t /\ Registered # {} /\ job'[u].n = 0)
    <3>1. \A u \in Threads : u # t => job'[u] = job[u]
      BY <1>1, <1>4 DEF Look, TypeOK
    <3>2. job[t] \in [at: {"looking", "storing"}, n: Reports]
      BY <1>1, <1>4 DEF Look, TypeOK, Idle
    <3>3. Registered = {} => job'[t] = [job[t] EXCEPT !.at = "storing"]
      BY <1>1, <1>4 DEF Look, TypeOK
    <3>4. Registered # {} => job'[t] = Idle
      BY <1>1, <1>4 DEF Look, TypeOK
    <3> QED
      BY <3>1, <3>2, <3>3, <3>4 DEF Idle
  <2>3. Sent \subseteq Sent' /\ (Registered # {} => job[t].n \in Sent')
    <3>1. job[t] # Idle /\ job[t].n \in Reports
      BY <1>1, <1>4 DEF Look, TypeOK, Idle
    <3>2. job[t].n \notin Sent
      BY <3>1 DEF OnceInv, InHandOnly
    <3>3. Send(job[t].n, Registered) /\ Registered \in SUBSET Clients /\ WritersApart
      BY <1>4 DEF Look, Registered, OnceInv
    <3> QED
      BY <1>1, <3>1, <3>2, <3>3, Sending
  <2>4. /\ \A k \in InJobs : k \in InJobs' \/ k \in Sent'
        /\ \A k \in InJobs' : k \in InJobs \/ k = 0
    BY <2>2, <2>3 DEF InJobs
  <2>5. AllKept'
    BY <1>1, <2>1, <2>3, <2>4, KeptSpared DEF KeptInv
  <2> QED
    BY <1>2, <1>10, <2>1, <2>4, <2>5, OvertakenSpared DEF KeptInv
<1>5. ASSUME NEW t \in Threads, Store(t) PROVE KeptInv'
  <2>1. Overtaken'
    BY <1>5, OvertakenStore DEF KeptInv
  <2>2. InDrains' = InDrains /\ Sent' = Sent /\ begun' = begun
    BY <1>5 DEF Store, writers, InDrains, Sent, Queued, Written, Missed
  <2>3. \A u \in Threads : u # t => job'[u].n = job[u].n
    BY <1>1, <1>5 DEF Store, TypeOK
  <2>4. cache \in Seq(Reports) /\ Len(cache) \in Nat /\ Len(cache) <= HookCacheMax
        /\ DOMAIN cache = 1..Len(cache)
        /\ DOMAIN cache' = 1..Len(cache')
    BY <1>1, LenProperties DEF TypeOK
  <2>5. CASE Len(cache) < HookCacheMax
    <3>1. job[t].n \in InCache' /\ InCache \subseteq InCache'
      <4>1. /\ Len(cache') = Len(cache) + 1 /\ cache'[Len(cache) + 1] = job[t].n
            /\ \A i \in 1..Len(cache) : cache'[i] = cache[i]
        BY <1>1, <1>5, <2>5, Stored
      <4>2. Len(cache) + 1 \in DOMAIN cache' /\ \A i \in 1..Len(cache) : i \in DOMAIN cache'
        BY <2>4, <4>1
      <4> QED
        BY <2>4, <4>1, <4>2 DEF InCache, Range
    <3>2. \A k \in InJobs : k \in InJobs' \/ k \in InCache'
      BY <2>3, <3>1 DEF InJobs
    <3> QED
      BY <1>2, <1>10, <2>1, <2>2, <3>1, <3>2, KeptSpared DEF KeptInv
  <2>6. CASE Len(cache) = HookCacheMax
    <3>1. job[t].n \in InCache' /\ \A k \in InCache : k = cache[1] \/ k \in InCache'
      <4>1. /\ Len(cache') = Len(cache) /\ cache'[Len(cache)] = job[t].n
            /\ \A i \in 1..Len(cache) - 1 : cache'[i] = cache[i + 1]
        BY <1>1, <1>5, <2>6, Stored
      <4>2. Len(cache) \in DOMAIN cache'
        BY <2>4, <2>6, <4>1, RelayConstants
      <4>3. ASSUME NEW i \in 1..Len(cache), i # 1 PROVE cache[i] \in InCache'
        <5>1. i - 1 \in DOMAIN cache' /\ cache'[i - 1] = cache[i]
          BY <2>4, <4>1, <4>3
        <5> QED
          BY <5>1 DEF InCache, Range
      <4>4. job[t].n \in InCache'
        BY <4>1, <4>2 DEF InCache, Range
      <4>5. \A k \in InCache : \E i \in 1..Len(cache) : k = cache[i]
        BY <2>4 DEF InCache, Range
      <4> QED
        BY <4>3, <4>4, <4>5
    <3>2. \A k \in InJobs : k \in InJobs' \/ k \in InCache'
      BY <2>3, <3>1 DEF InJobs
    <3>3. begun > HookCacheMax /\ begun - cache[1] > HookCacheMax - Cardinality(Threads)
      BY <1>5, <2>6, LostToMany DEF KeptInv
    <3>4. AllKept'
      BY <2>2, <3>1, <3>2, <3>3 DEF KeptInv, AllKept
    <3> QED
      BY <1>2, <1>10, <2>1, <3>4 DEF KeptInv
  <2>7. Len(cache) < HookCacheMax \/ Len(cache) = HookCacheMax
    BY <1>1, <2>4, Positions
  <2> QED
    BY <2>5, <2>6, <2>7
<1>6. ASSUME NEW c \in Clients, Connect(c) \/ Hear(c) \/ Break(c) \/ Leave(c) PROVE KeptInv'
  <2>1. UNCHANGED <<draining, cache, job, begun>>
    BY <1>6 DEF Connect, Hear, Break, Leave
  <2>2. Sent' = Sent
    <3>1. CASE Connect(c)
      BY <3>1 DEF Connect, writers, Sent, Queued, Written, Missed
    <3> QED
      BY <1>6, <3>1, Hearing, Shutting DEF Break, Leave, OnceInv
  <2>3. InJobs' = InJobs /\ InCache' = InCache /\ InDrains' = InDrains
    BY <2>1 DEF InJobs, InCache, InDrains
  <2>4. Overtaken'
    BY <2>1, <2>3 DEF KeptInv, Overtaken, Late
  <2>5. AllKept'
    BY <2>1, <2>2, <2>3 DEF KeptInv, AllKept
  <2> QED
    BY <1>2, <1>10, <2>4, <2>5 DEF KeptInv
<1>7. ASSUME NEW c \in Clients, List(c) PROVE KeptInv'
  <2>1. /\ Sent' = Sent /\ InJobs' = InJobs /\ begun' = begun
        /\ cache' = <<>> /\ draining' = [draining EXCEPT ![c] = cache]
    BY <1>7 DEF List, writers, Sent, Queued, Written, Missed, InJobs
  <2>2. InCache \subseteq InDrains'
    <3>1. draining'[c] = cache
      BY <1>1, <2>1 DEF TypeOK
    <3> QED
      BY <3>1 DEF InCache, InDrains
  <2>3. InDrains \subseteq InDrains'
    <3>1. draining[c] = <<>>
      BY <1>7 DEF List, KeptInv, Handed
    <3>2. \A d \in Clients : d # c => draining'[d] = draining[d]
      BY <1>1, <2>1 DEF TypeOK
    <3>3. Range(draining[c]) = {}
      BY <3>1 DEF Range
    <3> QED
      BY <3>2, <3>3 DEF InDrains
  <2>4. Overtaken'
    BY <2>1 DEF Overtaken
  <2> QED
    BY <1>2, <1>10, <2>1, <2>2, <2>3, <2>4, KeptSpared DEF KeptInv
<1>8. ASSUME NEW c \in Clients, Flush(c) PROVE KeptInv'
  <2>1. InCache' = InCache /\ InJobs' = InJobs /\ begun' = begun /\ cache' = cache
    BY <1>8 DEF Flush, InCache, InJobs
  <2>2. InDrains \cup Sent \subseteq (InDrains \cup Sent)'
    <3>1. CASE draining[c] = <<>>
      BY <1>8, <3>1 DEF Flush, writers, InDrains, Sent, Queued, Written, Missed
    <3>2. CASE draining[c] # <<>>
      <4> DEFINE n == Head(draining[c])
      <4>1. /\ \A d \in Clients \ {c} : draining'[d] = draining[d]
            /\ draining'[c] = Tail(draining[c]) /\ Send(n, {c})
        BY <1>1, <1>8, <3>2 DEF Flush, TypeOK
      <4>2. /\ n \in Reports /\ n \in Range(draining[c])
            /\ Range(draining[c]) \subseteq {n} \cup Range(draining'[c])
        BY <1>1, <3>2, <4>1, Taking, Rest DEF TypeOK
      <4>3. n \notin Sent
        BY <4>2, Places DEF OnceInv, HeardOnce
      <4>4. Sent \subseteq Sent' /\ n \in Sent'
        BY <1>1, <4>1, <4>2, <4>3, Sending DEF OnceInv
      <4>5. ASSUME NEW k, k \in InDrains PROVE k \in (InDrains \cup Sent)'
        <5>1. PICK d \in Clients : k \in Range(draining[d])
          BY <4>5 DEF InDrains
        <5>2. CASE d = c
          BY <4>2, <4>4, <5>1, <5>2 DEF InDrains
        <5>3. CASE d # c
          BY <4>1, <5>1, <5>3 DEF InDrains
        <5> QED
          BY <5>2, <5>3
      <4> QED
        BY <4>4, <4>5
    <3> QED
      BY <3>1, <3>2
  <2>3. Overtaken'
    BY <2>1, OvertakenSpared DEF KeptInv
  <2> QED
    BY <1>2, <1>10, <2>1, <2>2, <2>3, KeptSpared DEF KeptInv
<1>9. CASE UNCHANGED vars
  <2>1. UNCHANGED <<queue, got, missed, draining, cache, job, begun>>
    BY <1>9 DEF vars, writers
  <2>2. InJobs' = InJobs /\ InCache' = InCache /\ InDrains' = InDrains /\ Sent' = Sent
    BY <2>1 DEF InJobs, InCache, InDrains, Sent, Queued, Written, Missed
  <2>3. Overtaken'
    BY <2>1, <2>2 DEF KeptInv, Overtaken, Late
  <2>4. AllKept'
    BY <2>1, <2>2 DEF KeptInv, AllKept
  <2> QED
    BY <1>2, <1>10, <2>3, <2>4 DEF KeptInv
<1> QED
  BY <1>3, <1>4, <1>5, <1>6, <1>7, <1>8, <1>9 DEF Next

\* A report is lost in two ways only, for any clients, threads, reports and size of the
\* cache.  A writer that has closed for good refused or dropped it, and then it was sent
\* to that client; or it fell out of a full cache, to as many others as the cache holds,
\* all of them younger but for those that slower threads had in hand (broadcast_hook,
\* flush_hook_cache_to, ClientWriter).
THEOREM LossesBounded ==
    ASSUME IsFiniteSet(Threads)
    PROVE  Spec => []KeptWithinBound
<1>1. Init => OnceInv /\ KeptInv
  <2> SUFFICES ASSUME Init PROVE OnceInv /\ KeptInv
    OBVIOUS
  <2>1. TypeOK
    BY TypeStarts
  <2> QED
    BY <2>1, OnceStarts DEF Init, KeptInv, Handed, Overtaken, ClosedForGood, AllKept
<1>2. OnceInv /\ TypeOK' /\ KeptInv /\ [Next]_vars => KeptInv'
  BY KeptSteps
<1>3. OnceInv /\ KeptInv => KeptWithinBound
  <2> SUFFICES ASSUME OnceInv, KeptInv, NEW n \in Missed
               PROVE  \E c \in closed : n \in missed[c] /\ queue[c] = <<>>
    BY DEF KeptInv, AllKept, KeptWithinBound, Sent
  <2>1. PICK c \in Clients : n \in missed[c]
    BY DEF Missed
  <2>2. c \in closed /\ queue[c] = <<>>
    BY <2>1 DEF KeptInv, ClosedForGood
  <2> QED
    BY <2>1, <2>2
<1> QED
  BY <1>1, <1>2, <1>3, OnceSteps, TypeCorrect, PTL DEF Spec

-----------------------------------------------------------------------------
(* The arbiter *)

\* What a thread has taken out no other thread has.
Apart == \A t, u \in Hands : t # u => handing[t] \cap handing[u] = {}

\* Only progress answers in advance.
Told == \A m \in progress : posted[m].kind = "progress"

\* DeliveredOnce strengthened: a request is in one place at a time.
ArbiterInv == ArbiterTypeOK /\ Apart /\ Told /\ DeliveredOnce

\* The oldest of some reports is one of them, and none is older.
LEMMA OldestIsFirst ==
    ASSUME NEW T, T \subseteq Nat, T # {}
    PROVE  Oldest(T) \in T /\ \A m \in T : Oldest(T) <= m
<1>1. \E x \in T : \A y \in T : ~(<<y, x>> \in OpToRel(<, Nat))
  BY NatLessThanWellFounded, WFMin
<1>2. \A x, y \in Nat : <<y, x>> \in OpToRel(<, Nat) <=> y < x
  BY DEF OpToRel
<1>3. PICK x \in T : \A y \in T : ~(<<y, x>> \in OpToRel(<, Nat))
  BY <1>1
<1>4. \A y \in T : ~(y < x) /\ x \in Nat /\ y \in Nat
  BY <1>2, <1>3
<1>5. \E z \in T : \A y \in T : z <= y
  BY <1>4
<1> QED
  BY <1>5 DEF Oldest

\* A list that sheds its oldest entry when it is full has room for one more.
LEMMA RoomForOne ==
    ASSUME NEW S, IsFiniteSet(S), NEW k \in Nat \ {0}, Cardinality(S) <= k,
           NEW x, NEW n
    PROVE  /\ Cardinality(S \ {x}) <= k
           /\ Cardinality(S) < k => Cardinality(S \cup {n}) <= k
           /\ x \in S => Cardinality((S \ {x}) \cup {n}) <= k
<1>1. Cardinality(S) \in Nat
  BY FS_CardinalityType
<1>2. /\ IsFiniteSet(S \ {x})
      /\ Cardinality(S \ {x}) = IF x \in S THEN Cardinality(S) - 1 ELSE Cardinality(S)
  BY FS_RemoveElement
<1>3. Cardinality(S \cup {n}) = IF n \in S THEN Cardinality(S) ELSE Cardinality(S) + 1
  BY FS_AddElement
<1>4. Cardinality((S \ {x}) \cup {n}) =
          IF n \in S \ {x} THEN Cardinality(S \ {x}) ELSE Cardinality(S \ {x}) + 1
  BY <1>2, FS_AddElement
<1> QED
  BY <1>1, <1>2, <1>3, <1>4

\* The reports so far are a finite set of numbers.
LEMMA Numbered ==
    ASSUME ArbiterTypeOK
    PROVE  /\ Len(posted) \in Nat /\ DOMAIN posted = 1..Len(posted)
           /\ \A n \in DOMAIN posted : posted[n] \in Report
           /\ DOMAIN posted \subseteq Nat
           /\ \A S \in SUBSET DOMAIN posted : IsFiniteSet(S)
           /\ \A S \in SUBSET DOMAIN posted : \A T \in SUBSET S : Cardinality(T) <= Cardinality(S)
                  /\ Cardinality(S) \in Nat /\ Cardinality(T) \in Nat
<1>1. /\ Len(posted) \in Nat /\ DOMAIN posted = 1..Len(posted)
      /\ \A n \in DOMAIN posted : posted[n] \in Report
  BY DEF ArbiterTypeOK
<1>2. IsFiniteSet(DOMAIN posted)
  BY <1>1, FS_Interval
<1>3. \A S \in SUBSET DOMAIN posted : IsFiniteSet(S)
  BY <1>2, FS_Subset
<1>4. \A S \in SUBSET DOMAIN posted : \A T \in SUBSET S :
          Cardinality(T) <= Cardinality(S) /\ Cardinality(S) \in Nat /\ Cardinality(T) \in Nat
  BY <1>3, FS_Subset, FS_CardinalityType
<1> QED
  BY <1>1, <1>2, <1>3, <1>4

-----------------------------------------------------------------------------
(* What a step does to the lists *)

\* The history only grows.
Grows ==
    /\ DOMAIN posted \subseteq DOMAIN posted'
    /\ \A n \in DOMAIN posted : posted'[n] = posted[n]
    /\ grown \subseteq grown'

\* Thread t sorts out the held requests and the new reports S: it takes out H, and what
\* is neither held nor taken out afterwards is answered.
Sorts(t, H, S) ==
    /\ handing[t] = {} /\ handing' = [handing EXCEPT ![t] = H]
    /\ H \cup pending' \subseteq pending \cup S
    /\ H \cap pending' = {}
    /\ \A h \in pending \ (H \cup pending') : Answered(h)'
    /\ S \cap DOMAIN posted = {}
    /\ Grows /\ delivered' = delivered

\* The new request n is held or taken out, or uses up the progress that foretold it.
Heeded(H, n) ==
    n \in H \cup pending' \/ \E m \in progress \ progress' : Foretells(m, n)'

\* The held requests after a sorting.
LEMMA Sorting ==
    ASSUME ArbiterTypeOK, NEW S, S \subseteq pending
    PROVE  /\ Retained(S) \subseteq S /\ Expired(S) \subseteq S
           /\ Retained(S) \cap Expired(S) = {}
           /\ \A h \in S : h \in Retained(S) \cup Expired(S) \cup grown
<1>1. \A h \in S : h \in DOMAIN posted /\ posted[h].at \in Nat
  BY Numbered DEF ArbiterTypeOK, Report
<1>2. \A h \in S : now >= posted[h].at + Grace \/ now < posted[h].at + Grace
  BY <1>1, ArbiterConstants DEF ArbiterTypeOK
<1>3. \A h \in S : ~(now >= posted[h].at + Grace /\ now < posted[h].at + Grace)
  BY <1>1, ArbiterConstants DEF ArbiterTypeOK
<1> QED
  BY <1>2, <1>3 DEF Retained, Expired

\* What the submission of report n does to the lists.
LEMMA SubmitSorts ==
    ASSUME ArbiterInv, NEW t \in Listeners, NEW e \in Report, e.at = now, Submit(t, e),
           NEW n, n = Len(posted) + 1
    PROVE  /\ posted' = Append(posted, e) /\ n \in Nat
           /\ DOMAIN posted' = DOMAIN posted \cup {n} /\ posted'[n] = e
           /\ n \notin DOMAIN posted /\ \A k \in DOMAIN posted : k < n
           /\ \E H : Sorts(t, H, {n}) /\ (e.kind = "request" => Heeded(H, n))
           /\ progress' \subseteq progress \cup {n}
           /\ n \in progress' => e.kind = "progress"
           /\ Cardinality(progress') <= MaxProgress
           /\ Cardinality(pending') <= MaxPending
           /\ grown' = grown /\ now' = now
<1> DEFINE left == {h \in pending : ~Resolves(e, posted[h])}
           kept == Retained(left)
           over == IF Cardinality(kept) >= MaxPending THEN {Oldest(kept)} ELSE {}
           hits == {m \in Fresh : SameTool(posted[m], e)}
<1> USE DEF ArbiterInv
<1>0. /\ MaxPending \in Nat /\ MaxPending > 0 /\ MaxProgress \in Nat /\ MaxProgress > 0
      /\ Grace \in Nat /\ Linger \in Nat /\ ~(0 >= MaxPending) /\ ~(0 >= MaxProgress)
  BY ArbiterConstants
<1>1. /\ posted' = Append(posted, e) /\ n \in Nat
      /\ DOMAIN posted' = DOMAIN posted \cup {n} /\ posted'[n] = e
      /\ n \notin DOMAIN posted /\ \A k \in DOMAIN posted : k < n
      /\ \A k \in DOMAIN posted : posted'[k] = posted[k]
      /\ grown' = grown /\ now' = now /\ delivered' = delivered /\ handing[t] = {}
  <2>1. /\ posted' = Append(posted, e)
        /\ grown' = grown /\ now' = now /\ delivered' = delivered /\ handing[t] = {}
    BY DEF Submit
  <2>2. posted \in Seq(Report)
    BY DEF ArbiterTypeOK
  <2>3. /\ n \in Nat /\ DOMAIN posted = 1..Len(posted)
        /\ DOMAIN Append(posted, e) = 1..n
        /\ Append(posted, e)[n] = e
        /\ \A k \in 1..Len(posted) : Append(posted, e)[k] = posted[k]
    BY <2>2
  <2> QED
    BY <2>1, <2>3
<1>2. /\ left \subseteq pending /\ kept \subseteq left /\ Expired(left) \subseteq left
      /\ kept \cap Expired(left) = {} /\ pending \subseteq DOMAIN posted
      /\ \A h \in left : h \in kept \cup Expired(left) \cup grown
  BY Sorting DEF ArbiterTypeOK
<1>3. \A h \in pending \ (kept \cup Expired(left)) : Answered(h)'
  <2> SUFFICES ASSUME NEW h \in pending \ (kept \cup Expired(left))
               PROVE  Answered(h)'
    OBVIOUS
  <2>1. CASE h \in grown
    BY <1>1, <2>1 DEF Answered
  <2>2. CASE h \notin grown
    <3>1. Resolves(e, posted[h]) /\ h \in DOMAIN posted
      BY <1>2, <2>2
    <3>2. n \in DOMAIN posted' /\ h < n /\ Resolves(posted'[n], posted'[h])
      BY <1>1, <3>1
    <3> QED
      BY <3>2 DEF Answered
  <2> QED
    BY <2>1, <2>2
<1>4. over \subseteq kept /\ Cardinality((kept \ over) \cup {n}) <= MaxPending
      /\ Cardinality(kept) <= MaxPending
  <2>1. /\ IsFiniteSet(kept) /\ Cardinality(kept) \in Nat /\ Cardinality(kept) <= MaxPending
    BY <1>2, Numbered, ArbiterConstants DEF ArbiterTypeOK
  <2>2. CASE Cardinality(kept) < MaxPending
    <3>1. over = {}
      <4>1. ~(Cardinality(kept) >= MaxPending)
        BY <1>0, <2>1, <2>2
      <4> QED
        BY <4>1
    <3>2. Cardinality(kept \cup {n}) <= MaxPending
      BY <2>1, <2>2, RoomForOne, ArbiterConstants
    <3>3. (kept \ over) \cup {n} = kept \cup {n}
      BY <3>1
    <3> QED
      BY <2>1, <3>1, <3>2, <3>3
  <2>3. CASE Cardinality(kept) >= MaxPending
    <3>1. kept # {} /\ kept \subseteq Nat
      <4>1. Cardinality({}) = 0
        BY FS_EmptySet
      <4>2. kept # {}
        BY <1>0, <2>3, <4>1
      <4>3. kept \subseteq DOMAIN posted /\ DOMAIN posted \subseteq Nat
        BY <1>2, Numbered
      <4> HIDE DEF kept
      <4> QED
        BY <4>2, <4>3
    <3>2. over = {Oldest(kept)} /\ Oldest(kept) \in kept
      BY <2>3, <3>1, OldestIsFirst
    <3> HIDE DEF kept, over
    <3>3. Cardinality((kept \ {Oldest(kept)}) \cup {n}) <= MaxPending
      BY <2>1, <3>2, RoomForOne, ArbiterConstants
    <3> QED
      BY <2>1, <3>2, <3>3
  <2> HIDE DEF kept, over
  <2> QED
    BY <2>1, <2>2, <2>3, ArbiterConstants
<1>5. /\ Fresh \subseteq progress /\ hits \subseteq Fresh /\ progress \subseteq DOMAIN posted
      /\ Cardinality(Fresh) <= MaxProgress
  <2>1. Fresh \subseteq progress /\ hits \subseteq Fresh /\ progress \subseteq DOMAIN posted
    BY DEF Fresh, ArbiterTypeOK
  <2>2. /\ Cardinality(Fresh) <= Cardinality(progress) /\ Cardinality(progress) <= MaxProgress
        /\ Cardinality(Fresh) \in Nat /\ Cardinality(progress) \in Nat
    BY <2>1, Numbered DEF ArbiterTypeOK
  <2> QED
    BY <2>1, <2>2, ArbiterConstants
<1>6. hits # {} => /\ Oldest(hits) \in hits
                   /\ Spent(hits) \subseteq Fresh /\ Cardinality(Spent(hits)) <= MaxProgress
                   /\ Oldest(hits) \notin Spent(hits)
  <2> SUFFICES ASSUME hits # {}
               PROVE  /\ Oldest(hits) \in hits
                      /\ Spent(hits) \subseteq Fresh /\ Cardinality(Spent(hits)) <= MaxProgress
                      /\ Oldest(hits) \notin Spent(hits)
    OBVIOUS
  <2>1. Oldest(hits) \in hits
    <3>1. hits \subseteq Nat
      BY <1>5, Numbered
    <3> QED
      BY <3>1, OldestIsFirst
  <2>2. IsFiniteSet(Fresh)
    BY <1>5, Numbered
  <2> HIDE DEF hits
  <2>3. Spent(hits) \subseteq Fresh /\ Oldest(hits) \notin Spent(hits)
    BY DEF Spent
  <2>4. Cardinality(Spent(hits)) <= MaxProgress
    BY <1>5, <2>2, RoomForOne, ArbiterConstants DEF Spent
  <2> QED
    BY <2>1, <2>3, <2>4
<1>7. Recorded(e, n) \subseteq Fresh \cup {n} /\ Cardinality(Recorded(e, n)) <= MaxProgress
  <2> DEFINE others == {m \in Fresh : ~SameIdentity(posted[m], e)}
  <2>1. /\ others \subseteq Fresh /\ IsFiniteSet(others)
        /\ Cardinality(others) \in Nat /\ Cardinality(others) <= MaxProgress
    <3>1. others \subseteq Fresh
      OBVIOUS
    <3> HIDE DEF others
    <3>2. /\ IsFiniteSet(others) /\ Cardinality(others) \in Nat /\ Cardinality(Fresh) \in Nat
          /\ Cardinality(others) <= Cardinality(Fresh)
      BY <1>5, <3>1, Numbered
    <3> QED
      BY <1>5, <3>1, <3>2, ArbiterConstants
  <2>2. Recorded(e, n) = {n} \cup IF Cardinality(others) >= MaxProgress
                                    THEN others \ {Oldest(others)} ELSE others
    BY DEF Recorded
  <2> HIDE DEF others
  <2>3. CASE Cardinality(others) < MaxProgress
    <3>1. Recorded(e, n) = others \cup {n}
      BY <2>1, <2>2, <2>3, ArbiterConstants
    <3> QED
      BY <2>1, <2>3, <3>1, RoomForOne, ArbiterConstants
  <2>4. CASE Cardinality(others) >= MaxProgress
    <3>1. Cardinality({}) = 0
      BY FS_EmptySet
    <3>2. others # {}
      BY <1>0, <2>4, <3>1
    <3>3. others \subseteq Nat
      BY <1>5, <2>1, Numbered
    <3>4. Oldest(others) \in others
      BY <3>2, <3>3, OldestIsFirst
    <3>5. Recorded(e, n) = (others \ {Oldest(others)}) \cup {n}
      BY <2>2, <2>4
    <3>6. Cardinality((others \ {Oldest(others)}) \cup {n}) <= MaxProgress
      BY <2>1, <3>4, RoomForOne, ArbiterConstants
    <3> QED
      BY <2>1, <3>5, <3>6
  <2> QED
    BY <2>1, <2>3, <2>4, ArbiterConstants
<1>8. \A H : /\ handing' = [handing EXCEPT ![t] = H]
             /\ H \cup pending' \subseteq pending \cup {n}
             /\ H \cap pending' = {}
             /\ kept \cup Expired(left) \subseteq H \cup pending'
             => Sorts(t, H, {n})
  BY <1>1, <1>3 DEF Sorts, Grows
<1> HIDE DEF kept, over
<1>9. CASE e.kind = "progress"
  <2>1. /\ pending' = kept /\ handing' = [handing EXCEPT ![t] = Expired(left)]
        /\ progress' = IF left = pending THEN Recorded(e, n) ELSE Fresh
    BY <1>9 DEF Submit, kept
  <2>2. Sorts(t, Expired(left), {n})
    BY <1>2, <1>8, <2>1
  <2>3. /\ progress' \subseteq progress \cup {n} /\ Cardinality(progress') <= MaxProgress
    BY <1>5, <1>7, <2>1
  <2> HIDE DEF left
  <2> QED
    BY <1>1, <1>4, <1>9, <2>1, <2>2, <2>3
<1>10. CASE e.kind = "request" /\ hits # {}
  <2>1. /\ pending' = kept /\ handing' = [handing EXCEPT ![t] = Expired(left)]
        /\ progress' = Spent(hits)
    BY <1>10 DEF Submit, kept
  <2>2. Sorts(t, Expired(left), {n})
    BY <1>2, <1>8, <2>1
  <2>3. PICK m \in hits : m = Oldest(hits)
    BY <1>6, <1>10
  <2>4. m \in progress \ progress' /\ Foretells(m, n)'
    <3>1. /\ m \in DOMAIN posted /\ posted[m].kind = "progress"
          /\ SameTool(posted[m], e) /\ now < posted[m].at + Linger
      BY <1>5 DEF Fresh, Told
    <3>2. m < n /\ posted'[m] = posted[m] /\ posted'[n] = e
      BY <1>1, <3>1
    <3>3. Foretells(m, n)'
      BY <3>1, <3>2 DEF Foretells
    <3> QED
      BY <1>5, <1>6, <1>10, <2>1, <2>3, <3>3
  <2>5. /\ progress' \subseteq progress \cup {n} /\ n \notin progress'
        /\ Cardinality(progress') <= MaxProgress
    BY <1>1, <1>5, <1>6, <1>10, <2>1
  <2> HIDE DEF left, hits
  <2> QED
    BY <1>1, <1>4, <2>1, <2>2, <2>4, <2>5 DEF Heeded
<1>11. CASE e.kind = "request" /\ hits = {}
  <2>1. /\ pending' = (kept \ over) \cup {n}
        /\ handing' = [handing EXCEPT ![t] = Expired(left) \cup over]
        /\ progress' = Fresh
    BY <1>11 DEF Submit, kept, over
  <2>2. Sorts(t, Expired(left) \cup over, {n})
    <3>1. n \notin pending
      BY <1>1, <1>2
    <3> QED
      BY <1>2, <1>4, <1>8, <2>1, <3>1
  <2>3. n \in pending' /\ n \notin progress'
    BY <1>1, <1>5, <2>1
  <2> HIDE DEF left, hits
  <2> QED
    BY <1>1, <1>4, <1>5, <2>1, <2>2, <2>3 DEF Heeded
<1>12. CASE e.kind \notin {"progress", "request"}
  <2>1. /\ pending' = kept
        /\ handing' = [handing EXCEPT ![t] = Expired(left) \cup {n}]
        /\ progress' = Fresh
    BY <1>12 DEF Submit, kept
  <2>2. Sorts(t, Expired(left) \cup {n}, {n})
    <3>1. n \notin pending
      BY <1>1, <1>2
    <3> QED
      BY <1>2, <1>8, <2>1, <3>1
  <2>3. n \notin progress'
    BY <1>1, <1>5, <2>1
  <2> HIDE DEF left, hits
  <2> QED
    BY <1>1, <1>4, <1>5, <2>1, <2>2, <2>3 DEF Heeded
<1> QED
  BY <1>9, <1>10, <1>11, <1>12

\* What the poller does.
LEMMA PollSorts ==
    ASSUME ArbiterInv, Poll
    PROVE  /\ Sorts(poller, Expired(pending), {})
           /\ pending' \subseteq pending /\ progress' \subseteq progress
           /\ posted' = posted /\ grown' = grown /\ now' = now
           /\ Cardinality(pending') <= MaxPending /\ Cardinality(progress') <= MaxProgress
<1> USE DEF ArbiterInv
<1>1. /\ handing[poller] = {} /\ handing' = [handing EXCEPT ![poller] = Expired(pending)]
      /\ pending' = Retained(pending) /\ progress' = Fresh
      /\ grown' = grown /\ posted' = posted /\ delivered' = delivered /\ now' = now
  BY DEF Poll
<1>2. /\ Retained(pending) \subseteq pending /\ Expired(pending) \subseteq pending
      /\ Retained(pending) \cap Expired(pending) = {}
      /\ \A h \in pending : h \in Retained(pending) \cup Expired(pending) \cup grown
  BY Sorting
<1>3. Sorts(poller, Expired(pending), {})
  BY <1>1, <1>2 DEF Sorts, Grows, Answered
<1>4. Fresh \subseteq progress
  BY DEF Fresh
<1>5. /\ Cardinality(Fresh) <= Cardinality(progress)
      /\ Cardinality(Retained(pending)) <= Cardinality(pending)
      /\ Cardinality(Fresh) \in Nat /\ Cardinality(progress) \in Nat
      /\ Cardinality(Retained(pending)) \in Nat /\ Cardinality(pending) \in Nat
      /\ Cardinality(pending) <= MaxPending /\ Cardinality(progress) <= MaxProgress
  BY <1>2, <1>4, Numbered DEF ArbiterTypeOK
<1>6. Cardinality(Retained(pending)) <= MaxPending /\ Cardinality(Fresh) <= MaxProgress
  BY <1>5, ArbiterConstants
<1> QED
  BY <1>1, <1>2, <1>3, <1>4, <1>6

\* What was answered or foretold stays so.
LEMMA AnswersStay ==
    ASSUME Grows, NEW k \in DOMAIN posted
    PROVE  /\ Answered(k) => Answered(k)'
           /\ \A m \in DOMAIN posted : Foretells(m, k) => Foretells(m, k)'
  BY DEF Grows, Answered, Foretells

\* No report gets lost or doubled when a thread sorts.
LEMMA SortingKeeps ==
    ASSUME ArbiterInv, NEW t \in Hands, NEW H, NEW S, Sorts(t, H, S)
    PROVE  /\ Apart' /\ DeliveredOnce'
           /\ \A k \in Accounted : k \in Accounted' \/ Answered(k)'
           /\ \A k \in H \cup pending' : k \in Accounted'
           /\ \A u \in Hands : handing'[u] \subseteq handing[u] \cup pending \cup S
<1> USE DEF ArbiterInv
<1>1. /\ \A u \in Hands : handing'[u] = IF u = t THEN H ELSE handing[u]
      /\ handing[t] = {} /\ handing \in [Hands -> SUBSET DOMAIN posted]
      /\ H \cup pending' \subseteq pending \cup S /\ H \cap pending' = {}
      /\ \A h \in pending \ (H \cup pending') : Answered(h)'
      /\ S \cap DOMAIN posted = {} /\ delivered' = delivered
  BY DEF Sorts, ArbiterTypeOK
<1>2. /\ \A u \in Hands : handing[u] \subseteq DOMAIN posted /\ handing[u] \cap pending = {}
                            /\ handing[u] \cap Range(delivered) = {}
      /\ pending \subseteq DOMAIN posted /\ Range(delivered) \subseteq DOMAIN posted
      /\ pending \cap Range(delivered) = {}
  <2>1. Range(delivered) \subseteq DOMAIN posted
    BY DEF ArbiterTypeOK, Range
  <2> QED
    BY <1>1, <2>1 DEF DeliveredOnce, InHands, ArbiterTypeOK
<1>3. Apart'
  <2> SUFFICES ASSUME NEW u \in Hands, NEW v \in Hands, u # v
               PROVE  handing'[u] \cap handing'[v] = {}
    BY DEF Apart
  <2>1. handing[u] \cap handing[v] = {}
    BY DEF Apart
  <2>2. \A w \in Hands : handing[w] \cap H = {}
    BY <1>1, <1>2
  <2> QED
    BY <1>1, <2>1, <2>2
<1>4. DeliveredOnce'
  <2>1. IsInjective(delivered)'
    BY <1>1 DEF DeliveredOnce
  <2>2. Range(delivered)' = Range(delivered)
    BY <1>1
  <2>3. \A u \in Hands : /\ handing'[u] \cap Range(delivered) = {}
                         /\ handing'[u] \cap pending' = {}
    BY <1>1, <1>2
  <2>4. pending' \cap Range(delivered) = {}
    BY <1>1, <1>2
  <2> QED
    BY <2>1, <2>2, <2>3, <2>4 DEF DeliveredOnce, InHands
<1>5. \A k \in H \cup pending' : k \in Accounted'
  BY <1>1 DEF Accounted, InHands
<1>6. \A k \in Accounted : k \in Accounted' \/ Answered(k)'
  <2> SUFFICES ASSUME NEW k \in Accounted
               PROVE  k \in Accounted' \/ Answered(k)'
    OBVIOUS
  <2>1. CASE k \in pending
    BY <1>1, <1>5, <2>1
  <2>2. CASE k \in Range(delivered)
    BY <1>1, <2>2 DEF Accounted
  <2>3. CASE k \in InHands
    <3>1. PICK u \in Hands : k \in handing[u]
      BY <2>3 DEF InHands
    <3>2. k \in handing'[u]
      BY <1>1, <3>1
    <3> QED
      BY <3>2 DEF Accounted, InHands
  <2> QED
    BY <2>1, <2>2, <2>3 DEF Accounted
<1> QED
  BY <1>1, <1>3, <1>4, <1>5, <1>6

-----------------------------------------------------------------------------
(* The steps of the arbiter *)

\* What every step keeps: a report that is accounted for stays so or is answered, a new
\* request is accounted for or takes the report away that foretold it, and no report
\* becomes usable again.
Keeps ==
    /\ Grows
    /\ \A k \in Accounted : k \in Accounted' \/ Answered(k)'
    /\ \A n \in Requests' \ DOMAIN posted :
           n \in Accounted' \/ \E m \in progress \ progress' : Foretells(m, n)'
    /\ \A n, m \in DOMAIN posted' \ DOMAIN posted : n = m
    /\ progress' \cap DOMAIN posted \subseteq progress

LEMMA SubmitKeeps ==
    ASSUME ArbiterInv, NEW t \in Listeners, NEW e \in Report, e.at = now, Submit(t, e)
    PROVE  ArbiterInv' /\ Keeps
<1>1. PICK k : k = Len(posted) + 1
  OBVIOUS
<1>2. /\ posted' = Append(posted, e) /\ k \in Nat
      /\ DOMAIN posted' = DOMAIN posted \cup {k} /\ posted'[k] = e
      /\ k \notin DOMAIN posted
      /\ progress' \subseteq progress \cup {k}
      /\ k \in progress' => e.kind = "progress"
      /\ Cardinality(progress') <= MaxProgress
      /\ Cardinality(pending') <= MaxPending
      /\ grown' = grown /\ now' = now
  BY <1>1, SubmitSorts
<1>3. PICK H : Sorts(t, H, {k}) /\ (e.kind = "request" => Heeded(H, k))
  BY <1>1, SubmitSorts
<1> USE DEF ArbiterInv
<1>4. t \in Hands
  BY DEF Hands
<1>5. /\ Apart' /\ DeliveredOnce'
      /\ \A j \in Accounted : j \in Accounted' \/ Answered(j)'
      /\ \A j \in H \cup pending' : j \in Accounted'
      /\ \A u \in Hands : handing'[u] \subseteq handing[u] \cup pending \cup {k}
  BY <1>3, <1>4, SortingKeeps
<1>6. /\ Grows /\ delivered' = delivered /\ pending' \subseteq pending \cup {k}
      /\ handing' = [handing EXCEPT ![t] = H]
  BY <1>3 DEF Sorts
<1>7. ArbiterTypeOK'
  <2>1. posted' \in Seq(Report)
    BY <1>2 DEF ArbiterTypeOK
  <2>2. delivered' \in Seq(DOMAIN posted')
    BY <1>2, <1>6 DEF ArbiterTypeOK
  <2>3. handing' \in [Hands -> SUBSET DOMAIN posted']
    <3>1. \A u \in Hands : handing'[u] \subseteq DOMAIN posted'
      BY <1>2, <1>5 DEF ArbiterTypeOK
    <3>2. handing' \in [Hands -> {handing'[u] : u \in Hands}]
      BY <1>6 DEF ArbiterTypeOK
    <3> QED
      BY <3>1, <3>2
  <2>4. /\ pending' \subseteq DOMAIN posted' /\ progress' \subseteq DOMAIN posted'
        /\ grown' \subseteq DOMAIN posted' /\ now' \in Nat
    BY <1>2, <1>6 DEF ArbiterTypeOK
  <2> QED
    BY <1>2, <2>1, <2>2, <2>3, <2>4 DEF ArbiterTypeOK
<1>8. Told'
  <2> SUFFICES ASSUME NEW m \in progress' PROVE posted'[m].kind = "progress"
    BY DEF Told
  <2>1. m = k \/ (m \in progress /\ m \in DOMAIN posted)
    BY <1>2 DEF ArbiterTypeOK
  <2> QED
    BY <1>2, <1>6, <2>1 DEF Told, Grows
<1>9. Keeps
  <2>1. \A j \in Requests' \ DOMAIN posted :
           j \in Accounted' \/ \E m \in progress \ progress' : Foretells(m, j)'
    <3> SUFFICES ASSUME NEW j \in Requests' \ DOMAIN posted
                 PROVE  j \in Accounted' \/ \E m \in progress \ progress' : Foretells(m, j)'
      OBVIOUS
    <3>1. j = k /\ e.kind = "request"
      BY <1>2 DEF Requests
    <3> QED
      BY <1>3, <1>5, <3>1 DEF Heeded
  <2> QED
    BY <1>2, <1>5, <1>6, <2>1 DEF Keeps
<1> QED
  BY <1>5, <1>7, <1>8, <1>9

LEMMA PollKeeps ==
    ASSUME ArbiterInv, Poll
    PROVE  ArbiterInv' /\ Keeps
<1> USE DEF ArbiterInv
<1>1. /\ Sorts(poller, Expired(pending), {})
      /\ pending' \subseteq pending /\ progress' \subseteq progress
      /\ posted' = posted /\ grown' = grown /\ now' = now
      /\ Cardinality(pending') <= MaxPending /\ Cardinality(progress') <= MaxProgress
  BY PollSorts
<1>2. poller \in Hands
  BY DEF Hands
<1>3. /\ Apart' /\ DeliveredOnce'
      /\ \A k \in Accounted : k \in Accounted' \/ Answered(k)'
      /\ \A u \in Hands : handing'[u] \subseteq handing[u] \cup pending \cup {}
  BY <1>1, <1>2, SortingKeeps
<1>4. /\ Grows /\ delivered' = delivered
      /\ handing' = [handing EXCEPT ![poller] = Expired(pending)]
  BY <1>1 DEF Sorts
<1>5. ArbiterTypeOK'
  <2>1. handing' \in [Hands -> SUBSET DOMAIN posted']
    <3>1. \A u \in Hands : handing'[u] \subseteq DOMAIN posted'
      BY <1>1, <1>3 DEF ArbiterTypeOK
    <3>2. handing' \in [Hands -> {handing'[u] : u \in Hands}]
      BY <1>4 DEF ArbiterTypeOK
    <3> QED
      BY <3>1, <3>2
  <2> QED
    BY <1>1, <1>4, <2>1 DEF ArbiterTypeOK
<1>6. Told'
  BY <1>1 DEF Told
<1>7. Keeps
  BY <1>1, <1>3, <1>4 DEF Keeps, Requests
<1> QED
  BY <1>3, <1>5, <1>6, <1>7

LEMMA HandOutKeeps ==
    ASSUME ArbiterInv, NEW t \in Hands, HandOut(t)
    PROVE  ArbiterInv' /\ Keeps
<1> USE DEF ArbiterInv
<1>1. PICK k : k = Oldest(handing[t])
  OBVIOUS
<1>2. /\ handing[t] # {} /\ delivered' = Append(delivered, k)
      /\ handing' = [handing EXCEPT ![t] = @ \ {k}]
      /\ UNCHANGED <<pending, progress, grown, posted, now>>
  BY <1>1 DEF HandOut
<1>3. /\ handing \in [Hands -> SUBSET DOMAIN posted] /\ pending \subseteq DOMAIN posted
      /\ \A u \in Hands : handing'[u] = IF u = t THEN handing[t] \ {k} ELSE handing[u]
  BY <1>2 DEF ArbiterTypeOK
<1>4. k \in handing[t]
  <2>1. handing[t] \subseteq Nat
    BY <1>3, Numbered
  <2> QED
    BY <1>1, <1>2, <2>1, OldestIsFirst
<1>5. k \in DOMAIN posted /\ k \in InHands
  BY <1>3, <1>4 DEF InHands
<1>6. k \notin Range(delivered) /\ k \notin pending /\ IsInjective(delivered)
  BY <1>5 DEF DeliveredOnce
<1>7. /\ delivered' \in Seq(DOMAIN posted)
      /\ Range(delivered') = Range(delivered) \cup {k}
      /\ IsInjective(delivered')
  BY <1>2, <1>5, <1>6, Appending DEF ArbiterTypeOK
<1>8. Apart'
  BY <1>3 DEF Apart
<1>9. InHands' = InHands \ {k}
  <2>1. \A u \in Hands : handing'[u] = handing[u] \ {k}
    BY <1>3, <1>4 DEF Apart
  <2> QED
    BY <2>1 DEF InHands
<1>10. DeliveredOnce'
  BY <1>2, <1>6, <1>7, <1>9 DEF DeliveredOnce
<1>11. Accounted' = Accounted
  BY <1>2, <1>5, <1>7, <1>9 DEF Accounted
<1>12. ArbiterTypeOK'
  BY <1>2, <1>3, <1>7 DEF ArbiterTypeOK
<1>13. Told'
  BY <1>2 DEF Told
<1>14. Keeps
  BY <1>2, <1>11 DEF Keeps, Grows, Requests
<1> QED
  BY <1>8, <1>10, <1>12, <1>13, <1>14

LEMMA ArbiterStep ==
    ASSUME ArbiterInv, [ArbiterNext]_arbiterVars
    PROVE  ArbiterInv' /\ Keeps
<1> USE DEF ArbiterInv
<1>1. ASSUME NEW t \in Listeners, Post(t) PROVE ArbiterInv' /\ Keeps
  <2>1. PICK k \in Kinds, c \in Children, i \in Ids \cup {NoId}, m \in Names :
            Submit(t, [kind |-> k, child |-> c, id |-> i, name |-> m, at |-> now])
    BY <1>1 DEF Post
  <2>2. PICK e : e = [kind |-> k, child |-> c, id |-> i, name |-> m, at |-> now]
    OBVIOUS
  <2>3. e \in Report /\ e.at = now /\ Submit(t, e)
    BY <2>1, <2>2 DEF Report, ArbiterTypeOK
  <2> QED
    BY <2>3, SubmitKeeps
<1>2. CASE Grow
  <2>1. PICK n \in pending \ grown : grown' = grown \cup {n}
    BY <1>2 DEF Grow
  <2>2. UNCHANGED <<pending, progress, handing, posted, delivered, now>>
    BY <1>2 DEF Grow
  <2>3. ArbiterInv'
    BY <2>1, <2>2 DEF ArbiterTypeOK, Apart, Told, DeliveredOnce, InHands
  <2>4. Keeps
    BY <2>1, <2>2 DEF Keeps, Grows, Accounted, InHands, Requests
  <2> QED
    BY <2>3, <2>4
<1>3. CASE Tick \/ UNCHANGED arbiterVars
  <2>1. UNCHANGED <<pending, progress, grown, handing, posted, delivered>> /\ now' \in Nat
    BY <1>3 DEF Tick, arbiterVars, ArbiterTypeOK
  <2>2. ArbiterInv'
    BY <2>1 DEF ArbiterTypeOK, Apart, Told, DeliveredOnce, InHands
  <2>3. Keeps
    BY <2>1 DEF Keeps, Grows, Accounted, InHands, Requests
  <2> QED
    BY <2>2, <2>3
<1> QED
  BY <1>1, <1>2, <1>3, PollKeeps, HandOutKeeps DEF ArbiterNext

LEMMA ArbiterBegins == ASSUME ArbiterInit PROVE ArbiterInv
<1>1. ArbiterTypeOK
  BY FS_EmptySet, ArbiterConstants DEF ArbiterInit, ArbiterTypeOK
<1>2. InHands = {} /\ Range(delivered) = {} /\ IsInjective(delivered)
  BY DEF ArbiterInit, InHands, Range, IsInjective
<1> QED
  BY <1>1, <1>2 DEF ArbiterInit, ArbiterInv, Apart, Told, DeliveredOnce

\* However the threads interleave, no report is fanned out twice.
THEOREM DeliveredOnceEver == ArbiterSpec => []DeliveredOnce
<1>1. ArbiterInv /\ [ArbiterNext]_arbiterVars => ArbiterInv'
  BY ArbiterStep
<1>2. ArbiterInv => DeliveredOnce
  BY DEF ArbiterInv
<1> QED
  BY <1>1, <1>2, ArbiterBegins, PTL DEF ArbiterSpec

\* A request that is neither held nor fanned out was answered by its own scope.
THEOREM NothingSwallowedEver == ArbiterSpec => []NothingSwallowed
<1>1. ArbiterInit => NothingSwallowed
  BY DEF ArbiterInit, NothingSwallowed, Requests
<1>2. ArbiterInv /\ NothingSwallowed /\ [ArbiterNext]_arbiterVars => NothingSwallowed'
  <2> SUFFICES ASSUME ArbiterInv, NothingSwallowed, [ArbiterNext]_arbiterVars,
                      NEW n \in Requests'
               PROVE  \/ n \in Accounted' \/ Answered(n)'
                      \/ \E m \in DOMAIN posted' : Foretells(m, n)'
    BY DEF NothingSwallowed
  <2>1. Keeps /\ progress \subseteq DOMAIN posted
    BY ArbiterStep DEF ArbiterInv, ArbiterTypeOK
  <2>2. Grows /\ DOMAIN posted \subseteq DOMAIN posted'
    BY <2>1 DEF Keeps, Grows
  <2>3. CASE n \notin DOMAIN posted
    BY <2>1, <2>2, <2>3 DEF Keeps
  <2>4. CASE n \in DOMAIN posted
    <3>1. n \in Requests
      BY <2>2, <2>4 DEF Requests, Grows
    <3>2. CASE n \in Accounted
      BY <2>1, <3>2 DEF Keeps
    <3>3. CASE Answered(n)
      BY <2>2, <2>4, <3>3, AnswersStay
    <3>4. CASE \E m \in DOMAIN posted : Foretells(m, n)
      BY <2>2, <2>4, <3>4, AnswersStay
    <3> QED
      BY <3>1, <3>2, <3>3, <3>4 DEF NothingSwallowed
  <2> QED
    BY <2>3, <2>4
<1>3. ArbiterInv /\ [ArbiterNext]_arbiterVars => ArbiterInv'
  BY ArbiterStep
<1> QED
  BY <1>1, <1>2, <1>3, ArbiterBegins, PTL DEF ArbiterSpec

-----------------------------------------------------------------------------
(* Progress that answers in advance *)

\* SingleUse strengthened: what has answered is not remembered any more.
UseInv ==
    \E f \in [Foretold -> DOMAIN posted \ progress] :
        IsInjective(f) /\ \A n \in Foretold : Foretells(f[n], n)

LEMMA UseStep ==
    ASSUME ArbiterInv, UseInv, Keeps, progress' \subseteq DOMAIN posted'
    PROVE  UseInv'
<1>1. /\ Grows /\ DOMAIN posted \subseteq DOMAIN posted' /\ progress \subseteq DOMAIN posted
      /\ \A k \in Accounted : k \in Accounted' \/ Answered(k)'
      /\ \A n \in Requests' \ DOMAIN posted :
             n \in Accounted' \/ \E m \in progress \ progress' : Foretells(m, n)'
      /\ \A n, m \in DOMAIN posted' \ DOMAIN posted : n = m
      /\ progress' \cap DOMAIN posted \subseteq progress
  BY DEF Keeps, Grows, ArbiterInv, ArbiterTypeOK
<1>2. PICK f \in [Foretold -> DOMAIN posted \ progress] :
          IsInjective(f) /\ \A n \in Foretold : Foretells(f[n], n)
  BY DEF UseInv
<1>3. /\ Foretold \subseteq DOMAIN posted
      /\ \A n \in Foretold' : n \in DOMAIN posted => n \in Foretold
  <2>1. Foretold \subseteq DOMAIN posted
    BY DEF Foretold, Requests
  <2>2. ASSUME NEW n \in Foretold', n \in DOMAIN posted PROVE n \in Foretold
    <3>1. n \in Requests' /\ n \notin Accounted' /\ ~Answered(n)'
      BY DEF Foretold
    <3>2. n \in Requests
      BY <1>1, <2>2, <3>1 DEF Requests, Grows
    <3>3. n \notin Accounted /\ ~Answered(n)
      BY <1>1, <2>2, <3>1, AnswersStay
    <3> QED
      BY <3>2, <3>3 DEF Foretold
  <2> QED
    BY <2>1, <2>2
<1>4. \A n \in Foretold' \cap DOMAIN posted :
          /\ f[n] \in DOMAIN posted' \ progress' /\ Foretells(f[n], n)'
          /\ f[n] \notin progress
  <2> SUFFICES ASSUME NEW n \in Foretold' \cap DOMAIN posted
               PROVE  /\ f[n] \in DOMAIN posted' \ progress' /\ Foretells(f[n], n)'
                      /\ f[n] \notin progress
    OBVIOUS
  <2>1. PICK m : m = f[n]
    OBVIOUS
  <2>2. n \in Foretold /\ m \in DOMAIN posted \ progress /\ Foretells(m, n)
    BY <1>2, <1>3, <2>1
  <2>3. Foretells(m, n)' /\ m \in DOMAIN posted' \ progress'
    BY <1>1, <2>2, AnswersStay
  <2> QED
    BY <2>1, <2>2, <2>3
<1>5. CASE Foretold' \subseteq DOMAIN posted
  <2> DEFINE g == [n \in Foretold' |-> f[n]]
  <2>1. g \in [Foretold' -> DOMAIN posted' \ progress']
    BY <1>4, <1>5
  <2>2. IsInjective(g)
    BY <1>2, <1>3, <1>5 DEF IsInjective
  <2> QED
    BY <1>4, <1>5, <2>1, <2>2 DEF UseInv
<1>6. CASE ~(Foretold' \subseteq DOMAIN posted)
  <2>1. PICK n \in Foretold' : n \notin DOMAIN posted
    BY <1>6
  <2>2. PICK m \in progress \ progress' : Foretells(m, n)'
    BY <1>1, <2>1 DEF Foretold
  <2>3. \A k \in Foretold' : k = n \/ k \in DOMAIN posted
    BY <1>1, <2>1 DEF Foretold, Requests
  <2>4. PICK g : g = [k \in Foretold' |-> IF k = n THEN m ELSE f[k]]
    OBVIOUS
  <2>5. \A k \in Foretold' : g[k] = IF k = n THEN m ELSE f[k]
    BY <2>4
  <2>6. g \in [Foretold' -> DOMAIN posted' \ progress']
    BY <1>1, <1>4, <2>2, <2>3, <2>4
  <2>7. IsInjective(g)
    <3> SUFFICES ASSUME NEW a \in Foretold', NEW b \in Foretold', g[a] = g[b] PROVE a = b
      BY <2>6 DEF IsInjective
    <3>1. CASE a # n /\ b # n
      BY <1>2, <1>3, <2>3, <2>5, <3>1 DEF IsInjective
    <3>2. CASE (a = n /\ b # n) \/ (a # n /\ b = n)
      BY <1>4, <2>2, <2>3, <2>5, <3>2
    <3> QED
      BY <3>1, <3>2
  <2>8. \A k \in Foretold' : Foretells(g[k], k)'
    <3> SUFFICES ASSUME NEW k \in Foretold' PROVE Foretells(g[k], k)'
      OBVIOUS
    <3>1. CASE k = n
      BY <2>2, <2>5, <3>1
    <3>2. CASE k # n
      BY <1>4, <2>3, <2>5, <3>2
    <3> QED
      BY <3>1, <3>2
  <2> QED
    BY <2>6, <2>7, <2>8 DEF UseInv
<1> QED
  BY <1>5, <1>6

\* One report of progress answers at most one request before it is forgotten.
THEOREM SingleUseEver == ArbiterSpec => []SingleUse
<1>1. ArbiterInit => UseInv
  <2> SUFFICES ASSUME ArbiterInit PROVE UseInv
    OBVIOUS
  <2>1. Foretold = {}
    BY DEF ArbiterInit, Foretold, Requests
  <2>2. [n \in {} |-> 0] \in [Foretold -> DOMAIN posted \ progress]
    BY <2>1
  <2> QED
    BY <2>1, <2>2 DEF UseInv, IsInjective
<1>2. ArbiterInv /\ UseInv /\ [ArbiterNext]_arbiterVars => UseInv'
  <2>1. ArbiterInv' => progress' \subseteq DOMAIN posted'
    BY DEF ArbiterInv, ArbiterTypeOK
  <2> QED
    BY <2>1, ArbiterStep, UseStep
<1>3. ArbiterInv /\ [ArbiterNext]_arbiterVars => ArbiterInv'
  BY ArbiterStep
<1>4. UseInv => SingleUse
  BY DEF UseInv, SingleUse
<1> QED
  BY <1>1, <1>2, <1>3, <1>4, ArbiterBegins, PTL DEF ArbiterSpec
=============================================================================

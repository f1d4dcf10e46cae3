------------------------- MODULE DeviceOutboxProofs -------------------------
(***************************************************************************)
(* What the operations of DeviceOutbox do to an outbox of any size: the    *)
(* lemmas that the proofs about DeviceLink and DeviceOperations cite.      *)
(***************************************************************************)
EXTENDS DeviceOutbox, FiniteSetTheorems, WellFoundedInduction, TLAPS

\* An outbox with frames of F; entries carry whether they were sent.
Entries(F) == [frame: F, sent: BOOLEAN]
OutboxOf(b, F) ==
    /\ DOMAIN b = {"entries", "turn", "selected"}
    /\ b.entries \in Seq(Entries(F))
    /\ b.selected \in 0..Len(b.entries)

\* q enumerates the numbers of K in their order.
Enumerates(q, m, K) ==
    /\ q \in [1..m -> K]
    /\ \A i, j \in 1..m : i < j => q[i] < q[j]
    /\ \A x \in K : \E i \in 1..m : q[i] = x

-----------------------------------------------------------------------------
(* Numbers *)

\* Every set of naturals has a least element, which Min finds.
LEMMA LeastNatural ==
    ASSUME NEW T, T \subseteq Nat, T # {}
    PROVE  Min(T) \in T /\ \A m \in T : Min(T) <= m
<1>1. \E x \in T : \A y \in T : ~(<<y, x>> \in OpToRel(<, Nat))
  BY NatLessThanWellFounded, WFMin
<1>2. \A x, y \in Nat : <<y, x>> \in OpToRel(<, Nat) <=> y < x
  BY DEF OpToRel
<1>3. PICK x \in T : \A y \in T : ~(<<y, x>> \in OpToRel(<, Nat))
  BY <1>1
<1>4. \A y \in T : ~(y < x) /\ x \in Nat /\ y \in Nat
  BY <1>2, <1>3
<1>5. \E z \in T : \A y \in T : z <= y
  BY <1>4
<1> QED
  BY <1>5 DEF Min

\* Kth enumerates: the numbers up to one of them count its place.
LEMMA Ranked ==
    ASSUME NEW n \in Nat, NEW K \in SUBSET (1..n)
    PROVE  LET m == Cardinality(K)
               upTo(i) == Cardinality({j \in K : j <= i})
           IN  /\ m \in Nat /\ m <= n
               /\ Enumerates([k \in 1..m |-> Kth(K, k)], m, K)
               /\ \A i \in K : upTo(i) \in 1..m /\ Kth(K, upTo(i)) = i
<1> DEFINE m == Cardinality(K)
           below(i) == {j \in K : j <= i}
           upTo(i) == Cardinality(below(i))
           rank == [i \in K |-> upTo(i)]
<1>0. \A x \in K : x \in Nat /\ x \in 1..n
  OBVIOUS
<1>1. IsFiniteSet(K) /\ m \in Nat /\ m <= n
  <2>1. IsFiniteSet(1..n) /\ Cardinality(1..n) = n
    BY FS_Interval
  <2> QED
    BY <2>1, FS_Subset, FS_CardinalityType
<1>2. ASSUME NEW i \in K PROVE IsFiniteSet(below(i)) /\ upTo(i) \in 1..m
  <2>1. below(i) \in SUBSET K /\ {i} \in SUBSET below(i)
    OBVIOUS
  <2>2. IsFiniteSet(below(i)) /\ upTo(i) <= m /\ upTo(i) \in Nat
    BY <1>1, <2>1, FS_Subset, FS_CardinalityType
  <2>3. Cardinality({i}) = 1 /\ Cardinality({i}) <= upTo(i)
    BY <2>1, <2>2, FS_Subset, FS_Singleton
  <2> QED
    BY <1>1, <2>2, <2>3
<1>3. ASSUME NEW i \in K, NEW j \in K, i < j PROVE upTo(i) < upTo(j)
  <2>0. \A x \in K : x <= i => x <= j
    BY <1>0, <1>3
  <2>1. below(i) \subseteq below(j)
    BY <2>0, Zenon
  <2>3. j \in below(j) /\ j \notin below(i)
    BY <1>0, <1>3
  <2>2. upTo(i) <= upTo(j) /\ upTo(i) # upTo(j)
    <3> HIDE DEF below
    <3>1. below(i) \in SUBSET below(j) /\ below(i) # below(j)
      BY <2>1, <2>3
    <3>2. upTo(i) <= upTo(j) /\ upTo(i) # upTo(j)
      BY <1>2, <3>1, FS_Subset
    <3> QED
      BY <3>2
  <2> QED
    BY <1>1, <1>2, <2>2
<1>4. \A i, j \in K : upTo(i) = upTo(j) => i = j
  <2> SUFFICES ASSUME NEW i \in K, NEW j \in K, upTo(i) = upTo(j), i # j PROVE FALSE
    OBVIOUS
  <2>1. i < j \/ j < i
    OBVIOUS
  <2>2. upTo(i) < upTo(j) \/ upTo(j) < upTo(i)
    BY <1>3, <2>1
  <2> QED
    BY <1>1, <1>2, <2>2
<1> HIDE DEF upTo, m
<1>5. rank \in Injection(K, 1..m)
  BY <1>2, <1>4 DEF Injection, IsInjective
<1>6. rank \in Surjection(K, 1..m)
  <2>1. IsFiniteSet(1..m) /\ Cardinality(1..m) = m
    BY <1>1, FS_Interval
  <2> QED
    BY <1>5, <2>1, FS_Injection DEF m
<1>7. ASSUME NEW k \in 1..m PROVE Kth(K, k) \in K /\ upTo(Kth(K, k)) = k
  <2>1. \E i \in K : upTo(i) = k
    BY <1>6 DEF Surjection
  <2> QED
    BY <2>1 DEF Kth, upTo
<1>8. ASSUME NEW i \in K PROVE Kth(K, upTo(i)) = i
  BY <1>2, <1>4, <1>7
<1>9. Enumerates([k \in 1..m |-> Kth(K, k)], m, K)
  <2>1. ASSUME NEW i \in 1..m, NEW j \in 1..m, i < j PROVE Kth(K, i) < Kth(K, j)
    <3>1. /\ Kth(K, i) \in K /\ Kth(K, j) \in K
          /\ upTo(Kth(K, i)) = i /\ upTo(Kth(K, j)) = j
      BY <1>7
    <3>2. Kth(K, i) # Kth(K, j)
      BY <2>1, <3>1
    <3>3. CASE Kth(K, j) < Kth(K, i)
      <4>1. upTo(Kth(K, j)) < upTo(Kth(K, i))
        BY <1>3, <3>1, <3>3
      <4> QED
        BY <2>1, <3>1, <4>1
    <3>4. Kth(K, i) \in Nat /\ Kth(K, j) \in Nat
      BY <1>0, <3>1
    <3> QED
      BY <3>2, <3>3, <3>4
  <2> QED
    BY <1>2, <1>7, <1>8, <2>1 DEF Enumerates
<1> QED
  BY <1>1, <1>2, <1>8, <1>9 DEF m, upTo

-----------------------------------------------------------------------------
(* Sequences *)

LEMMA Moved ==
    ASSUME NEW S, NEW s \in Seq(S), NEW t \in Seq(S), t # <<>>
    PROVE  /\ Append(s, Head(t)) \in Seq(S) /\ Tail(t) \in Seq(S) /\ Head(t) \in S
           /\ Append(s, Head(t)) \o Tail(t) = s \o t
  OBVIOUS

LEMMA Ranges ==
    ASSUME NEW S, NEW s \in Seq(S), NEW t \in Seq(S), NEW e \in S
    PROVE  /\ Range(s) \subseteq S
           /\ Range(<<>>) = {}
           /\ Range(Append(s, e)) = Range(s) \cup {e}
           /\ Range(s \o t) = Range(s) \cup Range(t)
           /\ t # <<>> => Range(t) = Range(Tail(t)) \cup {Head(t)}
<1>1. Range(s) = {s[i] : i \in 1..Len(s)} /\ Range(t) = {t[i] : i \in 1..Len(t)}
  BY DEF Range
<1>2. Range(<<>>) = {}
  BY DEF Range
<1>3. Range(Append(s, e)) = Range(s) \cup {e}
  <2> DEFINE a == Append(s, e)
  <2>1. /\ Len(a) = Len(s) + 1 /\ DOMAIN a = 1..(Len(s) + 1) /\ a[Len(s) + 1] = e
        /\ \A i \in 1..Len(s) : a[i] = s[i]
    OBVIOUS
  <2>2. Len(s) \in Nat /\ \A i \in 1..(Len(s) + 1) : i \in 1..Len(s) \/ i = Len(s) + 1
    OBVIOUS
  <2> HIDE DEF a
  <2>3. Range(a) = Range(s) \cup {e}
    <3>1. ASSUME NEW x \in Range(a) PROVE x \in Range(s) \cup {e}
      BY <1>1, <2>1, <2>2, <3>1 DEF Range
    <3>2. ASSUME NEW x \in Range(s) PROVE x \in Range(a)
      BY <1>1, <2>1, <2>2, <3>2 DEF Range
    <3>3. e \in Range(a)
      BY <2>1, <2>2 DEF Range
    <3> QED
      BY <3>1, <3>2, <3>3
  <2> QED
    BY <2>3 DEF a
<1>4. Range(s \o t) = Range(s) \cup Range(t)
  <2> DEFINE a == s \o t
  <2>1. /\ DOMAIN a = 1..(Len(s) + Len(t)) /\ Len(s) \in Nat /\ Len(t) \in Nat
        /\ \A i \in 1..Len(s) : a[i] = s[i]
        /\ \A i \in 1..Len(t) : a[Len(s) + i] = t[i]
    OBVIOUS
  <2>2. \A i \in 1..(Len(s) + Len(t)) : i \in 1..Len(s) \/ i - Len(s) \in 1..Len(t)
    BY <2>1
  <2> HIDE DEF a
  <2>3. ASSUME NEW x \in Range(a) PROVE x \in Range(s) \cup Range(t)
    <3>1. PICK i \in 1..(Len(s) + Len(t)) : x = a[i]
      BY <2>1, <2>3 DEF Range
    <3>2. CASE i \in 1..Len(s)
      BY <1>1, <2>1, <3>1, <3>2
    <3>3. CASE i - Len(s) \in 1..Len(t)
      <4>1. a[Len(s) + (i - Len(s))] = t[i - Len(s)] /\ Len(s) + (i - Len(s)) = i
        BY <2>1, <3>1, <3>3
      <4> QED
        BY <1>1, <3>1, <3>3, <4>1
    <3> QED
      BY <2>2, <3>1, <3>2, <3>3
  <2>4. ASSUME NEW x \in Range(s) PROVE x \in Range(a)
    <3>1. PICK i \in 1..Len(s) : x = s[i]
      BY <1>1, <2>4
    <3>2. i \in DOMAIN a /\ a[i] = x
      BY <2>1, <3>1
    <3> QED
      BY <3>2 DEF Range
  <2>5. ASSUME NEW x \in Range(t) PROVE x \in Range(a)
    <3>1. PICK i \in 1..Len(t) : x = t[i]
      BY <1>1, <2>5
    <3>2. Len(s) + i \in DOMAIN a /\ a[Len(s) + i] = x
      BY <2>1, <3>1
    <3> QED
      BY <3>2 DEF Range
  <2> QED
    BY <2>3, <2>4, <2>5 DEF a
<1>5. t # <<>> => Range(t) = Range(Tail(t)) \cup {Head(t)}
  <2> SUFFICES ASSUME t # <<>> PROVE Range(t) = Range(Tail(t)) \cup {Head(t)}
    OBVIOUS
  <2> DEFINE u == Tail(t)
  <2>1. /\ Len(t) \in Nat \ {0} /\ DOMAIN u = 1..(Len(t) - 1) /\ Head(t) = t[1]
        /\ \A i \in 1..(Len(t) - 1) : u[i] = t[i + 1]
    OBVIOUS
  <2> HIDE DEF u
  <2>2. ASSUME NEW x \in Range(t) PROVE x \in Range(u) \cup {Head(t)}
    <3>1. PICK i \in 1..Len(t) : x = t[i]
      BY <1>1, <2>2
    <3>2. i # 1 => i - 1 \in DOMAIN u /\ u[i - 1] = x
      BY <2>1, <3>1
    <3> QED
      BY <2>1, <3>1, <3>2 DEF Range
  <2>3. ASSUME NEW x \in Range(u) PROVE x \in Range(t)
    <3>1. PICK i \in 1..(Len(t) - 1) : x = u[i]
      BY <2>1, <2>3 DEF Range
    <3>2. i + 1 \in 1..Len(t) /\ t[i + 1] = x
      BY <2>1, <3>1
    <3> QED
      BY <1>1, <3>2
  <2>4. Head(t) \in Range(t)
    BY <1>1, <2>1
  <2> QED
    BY <2>2, <2>3, <2>4 DEF u
<1> QED
  BY <1>1, <1>2, <1>3, <1>4, <1>5

-----------------------------------------------------------------------------
(* Removing entries *)

\* d has the entries of b but for drop, in their order; what was selected still is.
Removed(b, drop, d) ==
    /\ d.turn = b.turn
    /\ \E q : /\ Enumerates(q, Len(d.entries), DOMAIN b.entries \ drop)
              /\ \A k \in 1..Len(d.entries) : d.entries[k] = b.entries[q[k]]
              /\ b.selected # 0 /\ b.selected \notin drop
                    => d.selected # 0 /\ q[d.selected] = b.selected
    /\ b.selected \in {0} \cup drop => d.selected = 0

LEMMA Removing ==
    ASSUME NEW F, NEW b, OutboxOf(b, F), NEW drop \in SUBSET (DOMAIN b.entries)
    PROVE  OutboxOf(Without(b, drop), F) /\ Removed(b, drop, Without(b, drop))
<1> DEFINE n == Len(b.entries)
           K == DOMAIN b.entries \ drop
           m == Cardinality(K)
           q == [k \in 1..m |-> Kth(K, k)]
           kept == [k \in 1..m |-> b.entries[Kth(K, k)]]
           sel == IF b.selected \in drop THEN 0
                  ELSE b.selected - Cardinality({i \in drop : i < b.selected})
           d == Without(b, drop)
<1>1. n \in Nat /\ DOMAIN b.entries = 1..n /\ K \in SUBSET (1..n) /\ drop \in SUBSET (1..n)
  BY DEF OutboxOf
<1>2. /\ m \in Nat /\ m <= n /\ Enumerates(q, m, K)
      /\ \A i \in K : Cardinality({j \in K : j <= i}) \in 1..m
                      /\ Kth(K, Cardinality({j \in K : j <= i})) = i
  <2> HIDE DEF K
  <2> QED
    BY <1>1, Ranked
<1>3. \A k \in 1..m : Kth(K, k) \in K /\ q[k] = Kth(K, k)
  <2> HIDE DEF K
  <2> QED
    BY <1>2 DEF Enumerates
<1>4. kept \in Seq(Entries(F)) /\ Len(kept) = m /\ \A k \in 1..m : kept[k] = b.entries[q[k]]
  <2>1. \A i \in K : b.entries[i] \in Entries(F)
    BY <1>1 DEF OutboxOf
  <2> HIDE DEF K, m
  <2>2. kept \in [1..m -> Entries(F)]
    BY <1>3, <2>1
  <2> QED
    BY <1>2, <1>3, <2>2
<1>5. b.selected \in {0} \cup drop => sel = 0
  <2>1. CASE b.selected = 0
    <3>1. {i \in drop : i < b.selected} = {}
      BY <1>1, <2>1
    <3>2. Cardinality({i \in drop : i < b.selected}) = 0
      BY <3>1, FS_EmptySet
    <3> QED
      BY <1>1, <2>1, <3>2
  <2> QED
    BY <2>1
<1>6. ASSUME b.selected # 0, b.selected \notin drop
      PROVE  sel \in 1..m /\ q[sel] = b.selected
  <2> DEFINE s == b.selected
             gone == {i \in drop : i < s}
             left == {j \in K : j <= s}
  <2>1. s \in 1..n /\ s \in K /\ s \in Nat
    BY <1>1, <1>6 DEF OutboxOf
  <2>2. left = (1..s) \ gone /\ (1..s) \cap gone = gone
    BY <1>1, <1>6, <2>1
  <2>3. IsFiniteSet(1..s) /\ Cardinality(1..s) = s
    BY <2>1, FS_Interval
  <2>4. Cardinality(left) = s - Cardinality(gone)
    <3> HIDE DEF left, gone, s
    <3>1. Cardinality((1..s) \ gone) = Cardinality(1..s) - Cardinality((1..s) \cap gone)
      BY <2>3, FS_Difference
    <3> QED
      BY <2>2, <2>3, <3>1
  <2>5. sel = Cardinality(left)
    BY <1>6, <2>4
  <2> HIDE DEF K, m, sel
  <2> QED
    BY <1>2, <1>3, <2>1, <2>5
<1>7. DOMAIN d = {"entries", "turn", "selected"} /\ d.entries = kept /\ d.selected = sel
      /\ d.turn = b.turn
  BY DEF Without, OutboxOf
<1> HIDE DEF d, kept, K, m, q, sel
<1>8. sel \in 0..m
  BY <1>2, <1>5, <1>6
<1>9. OutboxOf(d, F)
  BY <1>4, <1>7, <1>8 DEF OutboxOf
<1>10. Removed(b, drop, d)
  <2>1. Enumerates(q, Len(d.entries), K) /\ \A k \in 1..Len(d.entries) : d.entries[k] = b.entries[q[k]]
    BY <1>2, <1>4, <1>7
  <2>2. b.selected # 0 /\ b.selected \notin drop => d.selected # 0 /\ q[d.selected] = b.selected
    BY <1>6, <1>7
  <2> QED
    BY <1>5, <1>7, <2>1, <2>2 DEF Removed, K
<1> QED
  BY <1>9, <1>10 DEF d

\* What is held afterwards.
LEMMA HeldOfRemoved ==
    ASSUME NEW F, NEW b, OutboxOf(b, F), NEW drop \in SUBSET (DOMAIN b.entries), NEW d,
           OutboxOf(d, F), Removed(b, drop, d)
    PROVE  Held(d) = {b.entries[i].frame : i \in DOMAIN b.entries \ drop}
<1>1. PICK q : /\ Enumerates(q, Len(d.entries), DOMAIN b.entries \ drop)
               /\ \A k \in 1..Len(d.entries) : d.entries[k] = b.entries[q[k]]
  BY DEF Removed
<1>2. DOMAIN d.entries = 1..Len(d.entries)
  BY DEF OutboxOf
<1>3. ASSUME NEW f \in Held(d) PROVE f \in {b.entries[i].frame : i \in DOMAIN b.entries \ drop}
  <2>1. PICK k \in 1..Len(d.entries) : f = d.entries[k].frame
    BY <1>2, <1>3 DEF Held
  <2>2. q[k] \in DOMAIN b.entries \ drop /\ f = b.entries[q[k]].frame
    BY <1>1, <2>1 DEF Enumerates
  <2> QED
    BY <2>2
<1>4. ASSUME NEW i \in DOMAIN b.entries \ drop PROVE b.entries[i].frame \in Held(d)
  <2>1. PICK k \in 1..Len(d.entries) : q[k] = i
    BY <1>1 DEF Enumerates
  <2>2. d.entries[k].frame = b.entries[i].frame
    BY <1>1, <2>1
  <2> QED
    BY <1>2, <2>2 DEF Held
<1> QED
  BY <1>3, <1>4

-----------------------------------------------------------------------------
(* The operations *)

LEMMA Emptied == \A F : \A turn : OutboxOf([EmptyBox EXCEPT !.turn = turn], F) /\ OutboxOf(EmptyBox, F)
                                  /\ Held(EmptyBox) = {}
  BY DEF OutboxOf, EmptyBox, Held

\* More frames are allowed.
LEMMA OutboxGrows ==
    ASSUME NEW F, NEW G, F \subseteq G, NEW b, OutboxOf(b, F)
    PROVE  OutboxOf(b, G)
<1>1. Entries(F) \subseteq Entries(G)
  BY DEF Entries
<1>2. \A i \in 1..Len(b.entries) : b.entries[i] \in Entries(G)
  BY <1>1 DEF OutboxOf
<1> HIDE DEF Entries
<1>3. b.entries \in Seq(Entries(G))
  BY <1>2 DEF OutboxOf
<1> QED
  BY <1>3 DEF OutboxOf

LEMMA HeldInside ==
    ASSUME NEW F, NEW b, OutboxOf(b, F)
    PROVE  /\ Held(b) \subseteq F
           /\ \A i \in DOMAIN b.entries : b.entries[i].frame \in Held(b)
<1>1. ASSUME NEW i \in DOMAIN b.entries PROVE b.entries[i].frame \in F
  <2>1. b.entries[i] \in Entries(F)
    BY DEF OutboxOf
  <2> QED
    BY <2>1 DEF Entries
<1> QED
  BY <1>1, Zenon DEF Held

\* The entry to be sent next is an unsent one.
LEMMA NextIsUnsent ==
    ASSUME NEW F, NEW b, OutboxOf(b, F)
    PROVE  /\ NextIndex(b) \in 0..Len(b.entries)
           /\ NextIndex(b) # 0 => NextIndex(b) \in Unsent(b)
           /\ Unsent(b) # {} => NextIndex(b) # 0
<1> DEFINE U == Unsent(b)
           first == Min(U)
           others == {i \in first..Len(b.entries) :
                         (\A j \in first..i : j \in U /\ b.entries[j].frame.kind = "output")
                         /\ b.entries[i].frame.of # b.turn}
<1>1. NextIndex(b) = IF U = {} THEN 0 ELSE IF others = {} THEN first ELSE Min(others)
  BY DEF NextIndex
<1>2. U \subseteq 1..Len(b.entries) /\ Len(b.entries) \in Nat
  BY DEF Unsent, OutboxOf
<1>3. CASE U = {}
  BY <1>1, <1>2, <1>3
<1>4. CASE U # {}
  <2>1. U \subseteq Nat
    BY <1>2
  <2>2. first \in U
    BY <1>4, <2>1, LeastNatural
  <2>3. CASE others = {}
    BY <1>1, <1>2, <1>4, <2>2, <2>3
  <2>4. CASE others # {}
    <3>0. first \in Nat
      BY <2>1, <2>2
    <3>1. others \subseteq Nat
      BY <3>0
    <3>2. Min(others) \in others
      BY <2>4, <3>1, LeastNatural
    <3>3. \A i \in others : i \in U
      BY <3>0
    <3> HIDE DEF others
    <3>4. Min(others) \in U
      BY <3>2, <3>3
    <3> QED
      BY <1>1, <1>2, <1>4, <2>4, <3>4
  <2> QED
    BY <2>3, <2>4
<1> QED
  BY <1>3, <1>4

\* Statuses that an error retires: never the frame in flight, and nothing else.
RetiredAt(b, session) ==
    {i \in DOMAIN b.entries \ {b.selected} :
        b.entries[i].frame.kind \in Statuses /\ b.entries[i].frame.of = session}

LEMMA Preparing ==
    ASSUME NEW F, NEW b, OutboxOf(b, F), NEW f
    PROVE  /\ OutboxOf(Prepared(b, f), F)
           /\ \/ f.kind # "error" /\ Prepared(b, f) = b
              \/ f.kind = "error" /\ Removed(b, RetiredAt(b, f.of), Prepared(b, f))
<1> DEFINE drop == RetiredAt(b, f.of)
<1>1. drop \in SUBSET (DOMAIN b.entries)
  BY DEF RetiredAt
<1>2. f.kind = "error" => Prepared(b, f) = Without(b, drop)
  BY DEF Prepared, Retired, RetiredAt
<1>3. f.kind # "error" => Prepared(b, f) = b
  BY DEF Prepared
<1> HIDE DEF drop
<1>4. OutboxOf(Without(b, drop), F) /\ Removed(b, drop, Without(b, drop))
  BY <1>1, Removing
<1> QED
  BY <1>2, <1>3, <1>4 DEF drop

\* A frame is put at the end, an error in front, or not at all.
LEMMA Pushing ==
    ASSUME NEW F, NEW b, OutboxOf(b, F), NEW f \in F
    PROVE  LET p == Prepared(b, f)
               d == Pushed(b, f)
               entry == [frame |-> f, sent |-> FALSE]
           IN  /\ OutboxOf(d, F) /\ d.turn = b.turn
               /\ \/ ~Admits(b, f) /\ d = p
                  \/ /\ Admits(b, f) /\ f.kind = "error"
                     /\ d.entries = <<entry>> \o p.entries
                     /\ d.selected = IF p.selected = 0 THEN 0 ELSE p.selected + 1
                  \/ /\ Admits(b, f) /\ f.kind # "error"
                     /\ d.entries = Append(p.entries, entry) /\ d.selected = p.selected
<1> DEFINE p == Prepared(b, f)
           entry == [frame |-> f, sent |-> FALSE]
           d == Pushed(b, f)
<1>1. OutboxOf(p, F) /\ p.turn = b.turn
  BY Preparing DEF Removed
<1>2. entry \in Entries(F)
  BY DEF Entries
<1>3. CASE ~Admits(b, f)
  BY <1>1, <1>3 DEF Pushed
<1>4. CASE Admits(b, f) /\ f.kind = "error"
  <2>1. d = [p EXCEPT !.entries = <<entry>> \o @, !.selected = IF @ = 0 THEN 0 ELSE @ + 1]
    BY <1>4 DEF Pushed
  <2> HIDE DEF p, entry
  <2>2. /\ DOMAIN d = {"entries", "turn", "selected"} /\ d.entries = <<entry>> \o p.entries
        /\ d.selected = (IF p.selected = 0 THEN 0 ELSE p.selected + 1) /\ d.turn = p.turn
    BY <1>1, <2>1 DEF OutboxOf
  <2> HIDE DEF d
  <2>3. d.entries \in Seq(Entries(F)) /\ Len(d.entries) = Len(p.entries) + 1
    <3> HIDE DEF Entries
    <3>1. p.entries \in Seq(Entries(F))
      BY <1>1 DEF OutboxOf
    <3>2. <<entry>> \in Seq(Entries(F)) /\ Len(<<entry>>) = 1
      BY <1>2
    <3> QED
      BY <2>2, <3>1, <3>2
  <2>4. OutboxOf(d, F)
    BY <1>1, <2>2, <2>3 DEF OutboxOf
  <2> QED
    BY <1>1, <1>4, <2>2, <2>4 DEF p, entry, d
<1>5. CASE Admits(b, f) /\ f.kind # "error"
  <2>1. d = [p EXCEPT !.entries = Append(@, entry)]
    BY <1>5 DEF Pushed
  <2> HIDE DEF p, entry
  <2>2. /\ DOMAIN d = {"entries", "turn", "selected"} /\ d.entries = Append(p.entries, entry)
        /\ d.selected = p.selected /\ d.turn = p.turn
    BY <1>1, <2>1 DEF OutboxOf
  <2> HIDE DEF d
  <2>3. d.entries \in Seq(Entries(F)) /\ Len(d.entries) = Len(p.entries) + 1
    <3> HIDE DEF Entries
    <3>1. p.entries \in Seq(Entries(F))
      BY <1>1 DEF OutboxOf
    <3> QED
      BY <1>2, <2>2, <3>1
  <2>4. OutboxOf(d, F)
    BY <1>1, <2>2, <2>3 DEF OutboxOf
  <2> QED
    BY <1>1, <1>5, <2>2, <2>4 DEF p, entry, d
<1> QED
  BY <1>3, <1>4, <1>5

\* The broken connection leaves every entry to be sent.
LEMMA Reconnecting ==
    ASSUME NEW F, NEW b, OutboxOf(b, F)
    PROVE  LET d == Reconnected(b)
           IN  /\ OutboxOf(d, F) /\ d.selected = 0 /\ d.turn = b.turn
               /\ Len(d.entries) = Len(b.entries)
               /\ \A i \in 1..Len(b.entries) : /\ d.entries[i].frame = b.entries[i].frame
                                               /\ i \in Unsent(d)
               /\ Held(d) = Held(b)
<1> DEFINE d == Reconnected(b)
           n == Len(b.entries)
           es == [i \in DOMAIN b.entries |-> [b.entries[i] EXCEPT !.sent = FALSE]]
<1>1. n \in Nat /\ DOMAIN b.entries = 1..n /\ \A i \in 1..n : b.entries[i] \in Entries(F)
  BY DEF OutboxOf
<1>2. /\ DOMAIN d = {"entries", "turn", "selected"} /\ d.entries = es /\ d.selected = 0
      /\ d.turn = b.turn
  BY DEF Reconnected, OutboxOf
<1>3. ASSUME NEW i \in 1..n
      PROVE  es[i] \in Entries(F) /\ es[i].frame = b.entries[i].frame /\ es[i].sent = FALSE
  BY <1>1 DEF Entries
<1>4. es \in Seq(Entries(F)) /\ Len(es) = n /\ DOMAIN es = 1..n
  <2>1. es \in [1..n -> Entries(F)]
    <3> HIDE DEF n
    <3> QED
      BY <1>1, <1>3
  <2> HIDE DEF es, n, Entries
  <2> QED
    BY <1>1, <2>1
<1> HIDE DEF d, es, n
<1>5. OutboxOf(d, F)
  BY <1>1, <1>2, <1>4 DEF OutboxOf
<1>6. \A i \in 1..n : i \in Unsent(d)
  BY <1>2, <1>3, <1>4 DEF Unsent
<1>7. Held(d) = Held(b)
  BY <1>1, <1>2, <1>3, <1>4 DEF Held
<1> QED
  BY <1>2, <1>3, <1>4, <1>5, <1>6, <1>7 DEF d, n

-----------------------------------------------------------------------------
(* What an operation leaves of the entries *)

\* The entries of d are entries of b in their order, the frames of S marked as sent.
Follows(b, d, S) ==
    \E q \in [1..Len(d.entries) -> 1..Len(b.entries)] :
        /\ \A i, j \in 1..Len(d.entries) : i < j => q[i] < q[j]
        /\ \A k \in 1..Len(d.entries) :
              /\ d.entries[k].frame = b.entries[q[k]].frame
              /\ d.entries[k].sent => b.entries[q[k]].sent \/ d.entries[k].frame \in S

\* The frame f is reserved for sending.
Reserved(b, f) == b.selected # 0 /\ b.entries[b.selected].frame = f

LEMMA RemovedFollows ==
    ASSUME NEW F, NEW b, OutboxOf(b, F), NEW drop \in SUBSET (DOMAIN b.entries), NEW d,
           Removed(b, drop, d)
    PROVE  Follows(b, d, {})
<1>1. PICK q : /\ Enumerates(q, Len(d.entries), DOMAIN b.entries \ drop)
               /\ \A k \in 1..Len(d.entries) : d.entries[k] = b.entries[q[k]]
  BY DEF Removed
<1>2. DOMAIN b.entries = 1..Len(b.entries)
  BY DEF OutboxOf
<1>3. q \in [1..Len(d.entries) -> 1..Len(b.entries)]
  BY <1>1, <1>2 DEF Enumerates
<1> QED
  BY <1>1, <1>3 DEF Follows, Enumerates

LEMMA SameFollows ==
    ASSUME NEW F, NEW b, OutboxOf(b, F), NEW d, Len(d.entries) = Len(b.entries), NEW S,
           \A k \in 1..Len(b.entries) :
              /\ d.entries[k].frame = b.entries[k].frame
              /\ d.entries[k].sent => b.entries[k].sent \/ d.entries[k].frame \in S
    PROVE  Follows(b, d, S)
<1> DEFINE q == [k \in 1..Len(b.entries) |-> k]
<1>1. q \in [1..Len(d.entries) -> 1..Len(b.entries)] /\ \A k \in 1..Len(b.entries) : q[k] = k
  OBVIOUS
<1> HIDE DEF q
<1> QED
  BY <1>1 DEF Follows

LEMMA RemovedReserved ==
    ASSUME NEW F, NEW b, OutboxOf(b, F), NEW drop \in SUBSET (DOMAIN b.entries), NEW d,
           OutboxOf(d, F), Removed(b, drop, d), b.selected \notin drop, NEW f, Reserved(b, f)
    PROVE  Reserved(d, f)
<1>1. PICK q : /\ Enumerates(q, Len(d.entries), DOMAIN b.entries \ drop)
               /\ \A k \in 1..Len(d.entries) : d.entries[k] = b.entries[q[k]]
               /\ d.selected # 0 /\ q[d.selected] = b.selected
  BY DEF Removed, Reserved
<1>2. d.selected \in 1..Len(d.entries)
  BY <1>1 DEF OutboxOf
<1> QED
  BY <1>1, <1>2 DEF Reserved

\* sent: the frame chosen before, or else the next one, is marked or leaves.
LEMMA Sending ==
    ASSUME NEW F, NEW b, OutboxOf(b, F)
    PROVE  LET index == IF b.selected # 0 THEN b.selected ELSE NextIndex(b)
               frame == b.entries[index].frame
               d == Sent(b)
           IN  /\ OutboxOf(d, F) /\ d.selected = 0
               /\ index = 0 => d = b
               /\ index # 0 /\ frame.kind \in Acknowledged
                    => /\ Len(d.entries) = Len(b.entries)
                       /\ \A k \in 1..Len(b.entries) :
                             /\ d.entries[k].frame = b.entries[k].frame
                             /\ d.entries[k].sent <=> b.entries[k].sent \/ k = index
               /\ index # 0 /\ frame.kind \notin Acknowledged
                    => \E c : /\ c.entries = b.entries /\ OutboxOf(c, F)
                              /\ {index} \in SUBSET (DOMAIN c.entries)
                              /\ Removed(c, {index}, d)
<1> DEFINE index == IF b.selected # 0 THEN b.selected ELSE NextIndex(b)
           frame == b.entries[index].frame
           turn == IF frame.kind = "output" THEN frame.of ELSE b.turn
           c == [b EXCEPT !.selected = 0, !.turn = IF frame.kind = "output" THEN frame.of ELSE @]
           m == [c EXCEPT !.entries[index].sent = TRUE]
           d == Sent(b)
<1>1. DOMAIN b = {"entries", "turn", "selected"} /\ b.entries \in Seq(Entries(F))
      /\ index \in 0..Len(b.entries) /\ Len(b.entries) \in Nat
      /\ DOMAIN b.entries = 1..Len(b.entries)
  BY NextIsUnsent DEF OutboxOf
<1>2. Selected(b).selected = index
  BY <1>1 DEF Selected
<1>3. d = IF index = 0 THEN b ELSE IF frame.kind \in Acknowledged THEN m ELSE Without(c, {index})
  BY <1>2 DEF Sent
<1>4. /\ DOMAIN c = {"entries", "turn", "selected"} /\ c.entries = b.entries
      /\ c.selected = 0
  BY <1>1
<1>5. /\ DOMAIN m = {"entries", "turn", "selected"}
      /\ m.entries = [b.entries EXCEPT ![index] = [b.entries[index] EXCEPT !.sent = TRUE]]
      /\ m.selected = 0
  BY <1>1
<1> HIDE DEF c, m, d, index
<1>6. OutboxOf(c, F)
  BY <1>1, <1>4 DEF OutboxOf
<1>7. CASE index = 0
  <2>1. b.selected = 0
    BY <1>7, <1>1 DEF index, OutboxOf
  <2> QED
    BY <1>3, <1>7, <2>1 DEF d, index
<1>8. CASE index # 0 /\ frame.kind \in Acknowledged
  <2> DEFINE e == b.entries[index]
             marked == [e EXCEPT !.sent = TRUE]
  <2>1. index \in 1..Len(b.entries) /\ e \in Entries(F)
    BY <1>1, <1>8
  <2>2. marked \in Entries(F) /\ marked.frame = e.frame /\ marked.sent = TRUE
    BY <2>1 DEF Entries
  <2>3. m.entries = [b.entries EXCEPT ![index] = marked]
    BY <1>5
  <2> HIDE DEF marked, e, Entries
  <2>4. /\ m.entries \in Seq(Entries(F)) /\ Len(m.entries) = Len(b.entries)
        /\ \A k \in 1..Len(b.entries) :
              m.entries[k] = IF k = index THEN marked ELSE b.entries[k]
    BY <1>1, <2>1, <2>2, <2>3
  <2>5. OutboxOf(m, F)
    BY <1>5, <1>1, <2>4 DEF OutboxOf
  <2>6. \A k \in 1..Len(b.entries) : /\ m.entries[k].frame = b.entries[k].frame
                                     /\ m.entries[k].sent <=> b.entries[k].sent \/ k = index
    BY <2>2, <2>4 DEF e
  <2>7. d = m
    BY <1>3, <1>8
  <2> QED
    BY <1>5, <1>8, <2>4, <2>5, <2>6, <2>7 DEF d, index
<1>9. CASE index # 0 /\ frame.kind \notin Acknowledged
  <2>1. d = Without(c, {index}) /\ {index} \in SUBSET (DOMAIN c.entries)
    BY <1>1, <1>3, <1>4, <1>9
  <2>2. OutboxOf(d, F) /\ Removed(c, {index}, d)
    BY <1>6, <2>1, Removing
  <2>3. d.selected = 0
    BY <1>4, <2>2 DEF Removed
  <2> QED
    BY <1>4, <1>6, <1>9, <2>1, <2>2, <2>3 DEF d, index
<1> QED
  BY <1>7, <1>8, <1>9

\* sent leaves a part of the entries in their order, the reserved frame marked.
LEMMA SentFollows ==
    ASSUME NEW F, NEW b, OutboxOf(b, F)
    PROVE  /\ \A f : Reserved(b, f) => Follows(b, Sent(b), {f})
           /\ Follows(b, Sent(b), Held(b))
           /\ \A f \in Held(b) : f.kind \in Acknowledged => f \in Held(Sent(b))
<1> DEFINE index == IF b.selected # 0 THEN b.selected ELSE NextIndex(b)
           frame == b.entries[index].frame
           d == Sent(b)
<1>1. /\ OutboxOf(d, F) /\ d.selected = 0
      /\ index = 0 => d = b
      /\ index # 0 /\ frame.kind \in Acknowledged
           => /\ Len(d.entries) = Len(b.entries)
              /\ \A k \in 1..Len(b.entries) :
                    /\ d.entries[k].frame = b.entries[k].frame
                    /\ d.entries[k].sent <=> b.entries[k].sent \/ k = index
      /\ index # 0 /\ frame.kind \notin Acknowledged
           => \E c : /\ c.entries = b.entries /\ OutboxOf(c, F)
                     /\ {index} \in SUBSET (DOMAIN c.entries)
                     /\ Removed(c, {index}, d)
  BY Sending
<1>2. /\ index \in 0..Len(b.entries) /\ DOMAIN b.entries = 1..Len(b.entries)
      /\ Len(b.entries) \in Nat /\ DOMAIN d.entries = 1..Len(d.entries)
  BY <1>1, NextIsUnsent DEF OutboxOf
<1>3. \A f : Reserved(b, f) => index # 0 /\ frame = f
  BY <1>2 DEF Reserved, OutboxOf
<1>4. \A k \in 1..Len(b.entries) : b.entries[k].frame \in Held(b)
  BY <1>2, HeldInside
<1> HIDE DEF d, index
<1>5. CASE index = 0
  <2>1. Follows(b, d, Held(b))
    BY <1>1, <1>5, SameFollows
  <2> QED
    BY <1>1, <1>3, <1>5, <2>1 DEF d
<1>6. CASE index # 0 /\ frame.kind \in Acknowledged
  <2>1. /\ Len(d.entries) = Len(b.entries)
        /\ \A k \in 1..Len(b.entries) : /\ d.entries[k].frame = b.entries[k].frame
                                        /\ d.entries[k].sent <=> b.entries[k].sent \/ k = index
    BY <1>1, <1>6
  <2>2. frame \in Held(b)
    BY <1>2, <1>4, <1>6
  <2>3. \A k \in 1..Len(b.entries) :
            /\ d.entries[k].frame = b.entries[k].frame
            /\ d.entries[k].sent => b.entries[k].sent \/ d.entries[k].frame \in {frame}
    BY <2>1
  <2>4. Follows(b, d, {frame})
    BY <2>1, <2>3, SameFollows
  <2>5. Follows(b, d, Held(b))
    <3>1. \A k \in 1..Len(b.entries) :
            /\ d.entries[k].frame = b.entries[k].frame
            /\ d.entries[k].sent => b.entries[k].sent \/ d.entries[k].frame \in Held(b)
      BY <2>2, <2>3
    <3> QED
      BY <2>1, <3>1, SameFollows
  <2>6. Held(b) \subseteq Held(d)
    BY <1>2, <2>1 DEF Held
  <2> QED
    BY <1>3, <2>4, <2>5, <2>6 DEF d
<1>7. CASE index # 0 /\ frame.kind \notin Acknowledged
  <2>1. PICK c : /\ c.entries = b.entries /\ OutboxOf(c, F)
                 /\ {index} \in SUBSET (DOMAIN c.entries) /\ Removed(c, {index}, d)
    BY <1>1, <1>7
  <2>2. Follows(c, d, {})
    BY <2>1, RemovedFollows
  <2>3. \A S : Follows(b, d, S)
    BY <2>1, <2>2 DEF Follows
  <2>4. Held(d) = {c.entries[i].frame : i \in DOMAIN c.entries \ {index}}
    <3> DEFINE drop == {index}
    <3>1. OutboxOf(d, F) /\ OutboxOf(c, F) /\ Removed(c, drop, d)
          /\ drop \in SUBSET (DOMAIN c.entries)
      BY <1>1, <2>1
    <3> HIDE DEF drop
    <3>2. Held(d) = {c.entries[i].frame : i \in DOMAIN c.entries \ drop}
      BY <3>1, HeldOfRemoved
    <3> QED
      BY <3>2 DEF drop
  <2>5. ASSUME NEW f \in Held(b), f.kind \in Acknowledged PROVE f \in Held(d)
    <3>1. PICK i \in DOMAIN b.entries : f = b.entries[i].frame
      BY <2>5 DEF Held
    <3>2. i # index
      BY <1>7, <2>5, <3>1
    <3> QED
      BY <2>1, <2>4, <3>1, <3>2
  <2> QED
    BY <2>3, <2>5 DEF d
<1> QED
  BY <1>2, <1>5, <1>6, <1>7

LEMMA EventLeaves ==
    ASSUME NEW F, NEW b, OutboxOf(b, F), NEW f
    PROVE  LET d == EventAcknowledged(b, f)
           IN  /\ OutboxOf(d, F) /\ Follows(b, d, {}) /\ Held(b) \subseteq Held(d) \cup {f}
               /\ b.selected = 0 => d.selected = 0
<1> DEFINE drop == {i \in DOMAIN b.entries : b.entries[i].frame = f}
           d == Without(b, drop)
<1>1. drop \in SUBSET (DOMAIN b.entries)
  OBVIOUS
<1>2. EventAcknowledged(b, f) = d
  BY DEF EventAcknowledged
<1>3. OutboxOf(d, F) /\ Removed(b, drop, d)
  <2> HIDE DEF drop
  <2> QED
    BY <1>1, Removing
<1> HIDE DEF d, drop
<1>4. Follows(b, d, {}) /\ Held(d) = {b.entries[i].frame : i \in DOMAIN b.entries \ drop}
  BY <1>1, <1>3, RemovedFollows, HeldOfRemoved
<1>5. ASSUME NEW g \in Held(b), g # f PROVE g \in Held(d)
  <2>1. PICK i \in DOMAIN b.entries : g = b.entries[i].frame
    BY <1>5 DEF Held
  <2>2. i \notin drop
    BY <1>5, <2>1 DEF drop
  <2> QED
    BY <1>4, <2>1, <2>2
<1>6. b.selected = 0 => d.selected = 0
  BY <1>3 DEF Removed
<1> QED
  BY <1>2, <1>3, <1>4, <1>5, <1>6

LEMMA OperationLeaves ==
    ASSUME NEW F, NEW b, OutboxOf(b, F), NEW o, NEW status
    PROVE  LET d == OperationAcknowledged(b, o, status)
           IN  OutboxOf(d, F) /\ Follows(b, d, {}) /\ (b.selected = 0 => d.selected = 0)
<1> DEFINE settled == CASE status \in TerminalStatuses -> {"accepted", "running", "completed"}
                        [] status = "running" -> {"accepted", "running"}
                        [] status = "accepted" -> {"accepted"}
                        [] OTHER -> {}
           drop == {i \in DOMAIN b.entries : /\ b.entries[i].frame.of = o
                                             /\ b.entries[i].frame.kind \in settled}
           d == Without(b, drop)
<1>1. drop \in SUBSET (DOMAIN b.entries)
  <2> HIDE DEF settled
  <2> QED
    OBVIOUS
<1>2. OperationAcknowledged(b, o, status) = d
  BY DEF OperationAcknowledged
<1> HIDE DEF drop
<1>3. OutboxOf(d, F) /\ Removed(b, drop, d)
  BY <1>1, Removing
<1>4. Follows(b, d, {})
  BY <1>1, <1>3, RemovedFollows
<1> QED
  BY <1>2, <1>3, <1>4 DEF Removed

\* What follows a box holds nothing new.
LEMMA FollowsHeld ==
    ASSUME NEW F, NEW b, OutboxOf(b, F), NEW d, OutboxOf(d, F), NEW S, Follows(b, d, S)
    PROVE  Held(d) \subseteq Held(b)
<1>1. PICK q \in [1..Len(d.entries) -> 1..Len(b.entries)] :
           \A k \in 1..Len(d.entries) : d.entries[k].frame = b.entries[q[k]].frame
  BY DEF Follows
<1>2. DOMAIN d.entries = 1..Len(d.entries) /\ DOMAIN b.entries = 1..Len(b.entries)
  BY DEF OutboxOf
<1>3. \A k \in DOMAIN d.entries : d.entries[k].frame \in Held(b)
  BY <1>1, <1>2 DEF Held
<1> QED
  BY <1>3, Zenon DEF Held

\* A push that does not retire anything only adds its frame; the frame in flight stays
\* reserved, whatever was retired around it.
LEMMA PushLeaves ==
    ASSUME NEW F, NEW b, OutboxOf(b, F), NEW f \in F
    PROVE  LET p == Prepared(b, f)
               d == Pushed(b, f)
           IN  /\ Follows(b, p, {}) /\ OutboxOf(p, F)
               /\ Held(d) = IF Admits(b, f) THEN Held(p) \cup {f} ELSE Held(p)
               /\ b.selected = 0 => d.selected = 0
               /\ \A g : Reserved(b, g) => Reserved(d, g)
<1> DEFINE p == Prepared(b, f)
           d == Pushed(b, f)
           entry == [frame |-> f, sent |-> FALSE]
           drop == RetiredAt(b, f.of)
<1>1. OutboxOf(p, F) /\ (p = b \/ Removed(b, drop, p))
  <2>1. \/ f.kind # "error" /\ p = b
        \/ f.kind = "error" /\ Removed(b, drop, p)
    BY Preparing, Zenon
  <2> QED
    BY <2>1, Preparing, Zenon
<1>2. drop \in SUBSET (DOMAIN b.entries) /\ b.selected \notin drop
  BY DEF RetiredAt
<1> HIDE DEF drop, p
<1>3. Follows(b, p, {})
  <2>1. Follows(b, b, {})
    BY SameFollows
  <2> QED
    BY <1>1, <1>2, <2>1, RemovedFollows
<1>4. (b.selected = 0 => p.selected = 0) /\ \A g : Reserved(b, g) => Reserved(p, g)
  <2>1. Removed(b, drop, p) => \A g : Reserved(b, g) => Reserved(p, g)
    BY <1>1, <1>2, RemovedReserved
  <2>2. Removed(b, drop, p) => (b.selected = 0 => p.selected = 0)
    BY DEF Removed
  <2> QED
    BY <1>1, <2>1, <2>2
<1>5. /\ OutboxOf(d, F)
      /\ \/ ~Admits(b, f) /\ d = p
         \/ /\ Admits(b, f) /\ f.kind = "error" /\ d.entries = <<entry>> \o p.entries
            /\ d.selected = IF p.selected = 0 THEN 0 ELSE p.selected + 1
         \/ /\ Admits(b, f) /\ f.kind # "error" /\ d.entries = Append(p.entries, entry)
            /\ d.selected = p.selected
  BY Pushing DEF p
<1>6. /\ p.entries \in Seq(Entries(F)) /\ Len(p.entries) \in Nat /\ p.selected \in 0..Len(p.entries)
      /\ DOMAIN p.entries = 1..Len(p.entries)
  BY <1>1 DEF OutboxOf
<1>7. entry \in Entries(F) /\ entry.frame = f
  BY DEF Entries
<1> HIDE DEF d, entry, Entries
<1>8. CASE ~Admits(b, f)
  BY <1>1, <1>3, <1>4, <1>5, <1>8 DEF p, d
<1>9. CASE Admits(b, f) /\ f.kind = "error"
  <2>1. d.entries = <<entry>> \o p.entries /\ d.selected = IF p.selected = 0 THEN 0 ELSE p.selected + 1
    BY <1>5, <1>9
  <2>2. /\ Len(d.entries) = Len(p.entries) + 1 /\ d.entries[1] = entry
        /\ DOMAIN d.entries = 1..Len(p.entries) + 1
        /\ \A i \in 1..Len(p.entries) : d.entries[i + 1] = p.entries[i]
    BY <1>6, <1>7, <2>1
  <2>3. \A k \in 1..Len(p.entries) + 1 : k # 1 => k - 1 \in 1..Len(p.entries)
                                                   /\ d.entries[k] = p.entries[k - 1]
    BY <1>6, <2>2
  <2>4. Held(d) = Held(p) \cup {f}
    <3>1. ASSUME NEW g \in Held(d) PROVE g \in Held(p) \cup {f}
      <4>1. PICK k \in 1..Len(p.entries) + 1 : g = d.entries[k].frame
        BY <2>2, <3>1 DEF Held
      <4>2. CASE k = 1
        BY <1>7, <2>2, <4>1, <4>2
      <4>3. CASE k # 1
        <5>1. k - 1 \in DOMAIN p.entries /\ g = p.entries[k - 1].frame
          BY <1>6, <2>3, <4>1, <4>3
        <5> QED
          BY <5>1 DEF Held
      <4> QED
        BY <4>2, <4>3
    <3>2. ASSUME NEW g \in Held(p) PROVE g \in Held(d)
      <4>1. PICK i \in 1..Len(p.entries) : g = p.entries[i].frame
        BY <1>6, <3>2 DEF Held
      <4>2. i + 1 \in DOMAIN d.entries /\ d.entries[i + 1].frame = g
        BY <1>6, <2>2, <4>1
      <4> QED
        BY <4>2 DEF Held
    <3>3. f \in Held(d)
      BY <1>6, <1>7, <2>2 DEF Held
    <3> QED
      BY <3>1, <3>2, <3>3
  <2>5. \A g : Reserved(p, g) => Reserved(d, g)
    <3>1. p.selected # 0 => /\ p.selected \in 1..Len(p.entries)
                            /\ d.selected = p.selected + 1
      BY <1>6, <2>1
    <3>2. p.selected # 0 => d.selected # 0 /\ d.entries[d.selected] = p.entries[p.selected]
      BY <1>6, <2>2, <3>1
    <3> QED
      BY <3>2 DEF Reserved
  <2> QED
    BY <1>1, <1>3, <1>4, <1>9, <2>1, <2>4, <2>5 DEF p, d
<1>10. CASE Admits(b, f) /\ f.kind # "error"
  <2>1. d.entries = Append(p.entries, entry) /\ d.selected = p.selected
    BY <1>5, <1>10
  <2>2. /\ Len(d.entries) = Len(p.entries) + 1 /\ d.entries[Len(p.entries) + 1] = entry
        /\ DOMAIN d.entries = 1..Len(p.entries) + 1
        /\ \A i \in 1..Len(p.entries) : d.entries[i] = p.entries[i]
    BY <1>6, <1>7, <2>1
  <2>4. Held(d) = Held(p) \cup {f}
    <3>1. ASSUME NEW g \in Held(d) PROVE g \in Held(p) \cup {f}
      <4>1. PICK k \in 1..Len(p.entries) + 1 : g = d.entries[k].frame
        BY <2>2, <3>1 DEF Held
      <4>2. k \in 1..Len(p.entries) \/ k = Len(p.entries) + 1
        BY <1>6
      <4> QED
        BY <1>6, <1>7, <2>2, <4>1, <4>2 DEF Held
    <3>2. ASSUME NEW g \in Held(p) PROVE g \in Held(d)
      <4>1. PICK i \in 1..Len(p.entries) : g = p.entries[i].frame
        BY <1>6, <3>2 DEF Held
      <4>2. i \in DOMAIN d.entries /\ d.entries[i].frame = g
        BY <1>6, <2>2, <4>1
      <4> QED
        BY <4>2 DEF Held
    <3>3. f \in Held(d)
      BY <1>6, <1>7, <2>2 DEF Held
    <3> QED
      BY <3>1, <3>2, <3>3
  <2>5. \A g : Reserved(p, g) => Reserved(d, g)
    BY <1>6, <2>1, <2>2 DEF Reserved
  <2> QED
    BY <1>1, <1>3, <1>4, <1>10, <2>1, <2>4, <2>5 DEF p, d
<1> QED
  BY <1>8, <1>9, <1>10
=============================================================================

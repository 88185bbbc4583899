-------------------------- MODULE ConnectionProofs --------------------------
(***************************************************************************)
(* Proofs about Channel, for any threads and consumers, any filter and any *)
(* number of messages, and about Connection, which uses its channel as any *)
(* two threads may: no listener outlives its owner, and nothing that is    *)
(* read for a listed client is lost.                                       *)
(***************************************************************************)
EXTENDS Connection, SequenceTheorems, TLAPS

-----------------------------------------------------------------------------
(* Sequences. *)

\* The elements of a suffix, and what comes off its front.
LEMMA Suffix ==
    ASSUME NEW S, NEW s \in Seq(S), NEW k \in 0..Len(s)
    PROVE  LET w == SubSeq(s, k + 1, Len(s))
           IN  /\ w \in Seq(S) /\ Len(w) = Len(s) - k
               /\ \A i \in 1..Len(s) - k : w[i] = s[k + i]
               /\ w # <<>> => /\ k + 1 \in 0..Len(s) /\ Head(w) = s[k + 1]
                              /\ Tail(w) = SubSeq(s, k + 2, Len(s))
<1> DEFINE w == SubSeq(s, k + 1, Len(s))
<1>0. Len(s) \in Nat /\ k \in Int /\ k + 1 \in Int
  BY LenProperties
<1>1. \A i \in k + 1 .. Len(s) : s[i] \in S
  BY <1>0, ElementOfSeq
<1>2. /\ w \in Seq(S)
      /\ Len(w) = IF k + 1 <= Len(s) THEN Len(s) - (k + 1) + 1 ELSE 0
      /\ \A i \in 1 .. Len(s) - (k + 1) + 1 : w[i] = s[k + 1 + i - 1]
  BY <1>0, <1>1, SubSeqProperties
<1>3. Len(w) = Len(s) - k /\ \A i \in 1..Len(s) - k : w[i] = s[k + i]
  <2>1. Len(w) = Len(s) - k
    BY <1>0, <1>2
  <2>2. ASSUME NEW i \in 1..Len(s) - k PROVE w[i] = s[k + i]
    <3>1. i \in 1 .. Len(s) - (k + 1) + 1 /\ k + 1 + i - 1 = k + i
      BY <1>0
    <3>. QED  BY <1>2, <3>1
  <2>. QED  BY <2>1, <2>2
<1>4. ASSUME w # <<>>
      PROVE  /\ k + 1 \in 0..Len(s) /\ Head(w) = s[k + 1]
             /\ Tail(w) = SubSeq(s, k + 2, Len(s))
  <2>1. k + 1 \in 1..Len(s) /\ Len(s) \in k + 1 .. Len(s)
    <3>1. Len(w) # 0
      BY <1>2, <1>4, EmptySeq
    <3>. QED  BY <1>0, <1>3, <3>1
  <2>2. Head(w) = s[k + 1] /\ Tail(w) = SubSeq(s, k + 1 + 1, Len(s))
    BY <2>1, HeadTailOfSubSeq
  <2>3. k + 1 + 1 = k + 2
    BY <1>0
  <2>. QED  BY <2>1, <2>2, <2>3
<1>. QED  BY <1>2, <1>3, <1>4

\* Appending to a sequence appends to its suffixes.
LEMMA SuffixAppend ==
    ASSUME NEW S, NEW s \in Seq(S), NEW k \in 0..Len(s), NEW e \in S
    PROVE  Append(SubSeq(s, k + 1, Len(s)), e)
             = SubSeq(Append(s, e), k + 1, Len(Append(s, e)))
<1> DEFINE w == SubSeq(s, k + 1, Len(s))
           a == Append(s, e)
           v == SubSeq(a, k + 1, Len(a))
<1>0. Len(s) \in Nat /\ k \in Nat
  BY LenProperties
<1>1. /\ a \in Seq(S) /\ Len(a) = Len(s) + 1
      /\ \A i \in 1..Len(s) : a[i] = s[i]
      /\ a[Len(s) + 1] = e
  BY AppendProperties
<1>2. /\ w \in Seq(S) /\ Len(w) = Len(s) - k
      /\ \A i \in 1..Len(s) - k : w[i] = s[k + i]
  BY Suffix
<1> HIDE DEF a
<1>3. /\ v \in Seq(S) /\ Len(v) = Len(a) - k
      /\ \A i \in 1..Len(a) - k : v[i] = a[k + i]
  <2>1. k \in 0..Len(a)
    BY <1>0, <1>1
  <2>. QED  BY <1>1, <2>1, Suffix
<1> HIDE DEF w, v
<1>4. /\ Append(w, e) \in Seq(S) /\ Len(Append(w, e)) = Len(w) + 1
      /\ \A i \in 1..Len(w) : Append(w, e)[i] = w[i]
      /\ Append(w, e)[Len(w) + 1] = e
  BY <1>2, AppendProperties
<1>5. ASSUME NEW i \in 1..Len(Append(w, e)) PROVE Append(w, e)[i] = v[i]
  <2>0. Len(w) \in Nat /\ Len(Append(w, e)) = Len(w) + 1
    BY <1>0, <1>2, <1>4
  <2>1. CASE i = Len(w) + 1
    <3>1. i \in 1..Len(a) - k /\ k + i = Len(s) + 1
      BY <1>0, <1>1, <1>2, <2>1
    <3>2. v[i] = a[k + i]
      BY <1>3, <3>1
    <3>3. v[i] = e
      BY <1>1, <3>1, <3>2
    <3>. QED  BY <1>4, <2>1, <3>3
  <2>2. CASE i # Len(w) + 1
    <3>0. i \in 1..Len(w)
      <4>1. i \in 1..Len(w) + 1
        BY <2>0
      <4>2. Len(w) \in Nat
        BY <2>0
      <4>. QED  BY <2>2, <4>1, <4>2
    <3>1. /\ i \in 1..Len(w) /\ i \in 1..Len(s) - k /\ i \in 1..Len(a) - k
          /\ k + i \in 1..Len(s)
      BY <1>0, <1>1, <1>2, <3>0
    <3>2. v[i] = a[k + i] /\ a[k + i] = s[k + i] /\ w[i] = s[k + i]
      BY <1>1, <1>2, <1>3, <3>1
    <3>. QED  BY <1>4, <3>1, <3>2
  <2>. QED  BY <2>1, <2>2
<1>6. Len(Append(w, e)) = Len(v)
  BY <1>0, <1>1, <1>2, <1>3, <1>4
<1>7. Append(w, e) = v
  BY <1>3, <1>4, <1>5, <1>6, SeqEqual
<1>. QED  BY <1>7 DEF w, v, a

\* WeakVector::remove takes at most one container away and moves those behind it
\* up by one place.
LEMMA Erased ==
    ASSUME NEW S, NEW s \in Seq(S), NEW c, NEW r \in erased(s, c)
    PROVE  /\ r \in Seq(S)
           /\ \/ r = s
              \/ \E p \in 1..Len(s) :
                   /\ s[p] = c
                   /\ Len(r) = Len(s) - 1
                   /\ \A i \in 1..Len(s) - 1 : r[i] = IF i < p THEN s[i] ELSE s[i + 1]
<1>1. CASE r = s
  BY <1>1
<1>2. CASE r # s
  <2>1. PICK p \in DOMAIN s : /\ s[p] = c
                              /\ r = SubSeq(s, 1, p - 1) \o SubSeq(s, p + 1, Len(s))
    BY <1>2 DEF erased
  <2>2. Len(s) \in Nat /\ p \in 1..Len(s) /\ \A i \in 1..Len(s) : s[i] \in S
    BY <2>1, LenProperties, ElementOfSeq
  <2> DEFINE a == SubSeq(s, 1, p - 1)
             b == SubSeq(s, p + 1, Len(s))
  <2>3. /\ a \in Seq(S) /\ Len(a) = p - 1
        /\ \A i \in 1..p - 1 : a[i] = s[i]
    <3>1. /\ a \in Seq(S) /\ Len(a) = IF 1 <= p - 1 THEN p - 1 - 1 + 1 ELSE 0
          /\ \A i \in 1..p - 1 - 1 + 1 : a[i] = s[1 + i - 1]
      BY <2>2, SubSeqProperties
    <3>2. ASSUME NEW i \in 1..p - 1 PROVE a[i] = s[i]
      <4>1. i \in 1..p - 1 - 1 + 1 /\ 1 + i - 1 = i
        BY <2>2
      <4>. QED  BY <3>1, <4>1
    <3>. QED  BY <2>2, <3>1, <3>2
  <2>4. /\ b \in Seq(S) /\ Len(b) = Len(s) - p
        /\ \A i \in 1..Len(s) - p : b[i] = s[p + i]
    <3>1. p \in 0..Len(s)
      BY <2>2
    <3>. QED  BY <3>1, Suffix
  <2> HIDE DEF a, b
  <2>5. /\ a \o b \in Seq(S)
        /\ Len(a \o b) = Len(a) + Len(b)
        /\ \A i \in 1 .. Len(a) + Len(b) :
             (a \o b)[i] = IF i <= Len(a) THEN a[i] ELSE b[i - Len(a)]
    BY <2>3, <2>4, ConcatProperties
  <2>6. r = a \o b
    BY <2>1 DEF a, b
  <2>7. Len(a) + Len(b) = Len(s) - 1
    BY <2>2, <2>3, <2>4
  <2>8. ASSUME NEW i \in 1..Len(s) - 1
        PROVE  r[i] = IF i < p THEN s[i] ELSE s[i + 1]
    <3>1. CASE i < p
      BY <2>2, <2>3, <2>5, <2>6, <2>7, <3>1
    <3>2. CASE ~(i < p)
      <4>1. ~(i <= Len(a)) /\ i - Len(a) \in 1..Len(s) - p /\ p + (i - Len(a)) = i + 1
        BY <2>2, <2>3, <3>2
      <4>. QED  BY <2>2, <2>4, <2>5, <2>6, <2>7, <3>2, <4>1
    <3>. QED  BY <3>1, <3>2
  <2>. QED  BY <2>1, <2>2, <2>5, <2>6, <2>7, <2>8
<1>. QED  BY <1>1, <1>2

\* So nothing else leaves the vector, and nothing that was there once is there twice.
LEMMA ErasedElements ==
    ASSUME NEW S, NEW s \in Seq(S), NEW c, NEW r \in erased(s, c)
    PROVE  /\ \A i \in DOMAIN r : \E j \in DOMAIN s : s[j] = r[i]
           /\ \A j \in DOMAIN s : s[j] # c => \E i \in DOMAIN r : r[i] = s[j]
           /\ (\A i, j \in DOMAIN s : s[i] = s[j] => i = j)
                => \A i, j \in DOMAIN r : r[i] = r[j] => i = j
<1>1. CASE r = s
  BY <1>1
<1>2. CASE r # s
  <2>1. PICK n \in Nat : n = Len(s) /\ DOMAIN s = 1..n
    BY LenProperties
  <2>2. PICK p \in 1..n :
          /\ s[p] = c
          /\ Len(r) = n - 1
          /\ \A i \in 1..n - 1 : r[i] = IF i < p THEN s[i] ELSE s[i + 1]
    BY <1>2, <2>1, Erased
  <2>3. DOMAIN r = 1..n - 1
    BY <2>2, Erased, LenProperties
  <2>4. ASSUME NEW i \in DOMAIN r PROVE \E j \in DOMAIN s : s[j] = r[i]
    <3>1. i \in 1..n /\ i + 1 \in 1..n
      BY <2>3
    <3>. QED  BY <2>1, <2>2, <2>3, <3>1
  <2>5. ASSUME NEW j \in DOMAIN s, s[j] # c PROVE \E i \in DOMAIN r : r[i] = s[j]
    <3>1. CASE j < p
      <4>1. j \in 1..n - 1
        BY <2>1, <3>1
      <4>. QED  BY <2>2, <2>3, <3>1, <4>1
    <3>2. CASE j > p
      <4>1. j - 1 \in 1..n - 1 /\ ~(j - 1 < p) /\ (j - 1) + 1 = j
        BY <2>1, <3>2
      <4>2. r[j - 1] = s[j]
        BY <2>2, <4>1
      <4>. QED  BY <2>3, <4>1, <4>2
    <3>3. j # p
      BY <2>2, <2>5
    <3>. QED  BY <2>1, <3>1, <3>2, <3>3
  <2>6. ASSUME \A i, j \in DOMAIN s : s[i] = s[j] => i = j,
               NEW i \in DOMAIN r, NEW j \in DOMAIN r, r[i] = r[j]
        PROVE  i = j
    <3> DEFINE at(m) == IF m < p THEN m ELSE m + 1
    <3>1. at(i) \in 1..n /\ at(j) \in 1..n
      BY <2>3
    <3>2. r[i] = s[at(i)] /\ r[j] = s[at(j)]
      BY <2>2, <2>3
    <3>3. at(i) = at(j)
      BY <2>1, <2>6, <3>1, <3>2
    <3>. QED  BY <2>3, <3>3
  <2>. QED  BY <2>4, <2>5, <2>6
<1>. QED  BY <1>1, <1>2

\* Where the elements of a suffix and those of its tail are.
LEMMA Indexes ==
    ASSUME NEW n \in Nat, NEW k \in Nat, k + 1 \in 1..n
    PROVE  /\ \A i \in 1..n - (k + 1) :
                /\ (k + 1) + i = k + (i + 1) /\ i + 1 \in 1..n - k
                /\ (k + 1) + i \in 1..n /\ (k + 1) + i # k + 1
           /\ \A j \in 1..n - k : j # 1 =>
                j - 1 \in 1..n - (k + 1) /\ (k + 1) + (j - 1) = k + j
OBVIOUS

\* w is s without its first k elements, v is s without its first k + 1, and no
\* element occurs twice in s.
Suffixes(n, k, s, w, v) ==
  /\ DOMAIN s = 1..n /\ DOMAIN w = 1..n - k /\ DOMAIN v = 1..n - (k + 1)
  /\ \A i \in 1..n - k : w[i] = s[k + i]
  /\ \A i \in 1..n - (k + 1) : v[i] = s[(k + 1) + i]
  /\ \A i, j \in DOMAIN s : s[i] = s[j] => i = j

\* The elements of v are those of w without h.
Rest(v, w, h) ==
  \A d : (\E i \in DOMAIN v : v[i] = d) <=> d # h /\ \E i \in DOMAIN w : w[i] = d

\* The elements that come after the first of a part of s without duplicates.
LEMMA Shift ==
    ASSUME NEW n \in Nat, NEW k \in Nat, k + 1 \in 1..n, NEW s, NEW w, NEW v,
           Suffixes(n, k, s, w, v)
    PROVE  Rest(v, w, s[k + 1])
<1>0. /\ DOMAIN s = 1..n /\ DOMAIN w = 1..n - k /\ DOMAIN v = 1..n - (k + 1)
      /\ \A i \in 1..n - k : w[i] = s[k + i]
      /\ \A i \in 1..n - (k + 1) : v[i] = s[(k + 1) + i]
      /\ \A i, j \in DOMAIN s : s[i] = s[j] => i = j
  BY DEF Suffixes
<1>1. ASSUME NEW i \in 1..n - (k + 1)
      PROVE  v[i] # s[k + 1] /\ i + 1 \in 1..n - k /\ w[i + 1] = v[i]
  <2>1. /\ (k + 1) + i = k + (i + 1) /\ i + 1 \in 1..n - k
        /\ (k + 1) + i \in 1..n /\ (k + 1) + i # k + 1
    BY Indexes
  <2>2. v[i] = s[(k + 1) + i] /\ w[i + 1] = v[i]
    BY <1>0, <2>1, Zenon
  <2>. QED  BY <1>0, <2>1, <2>2, Zenon
<1>2. ASSUME NEW j \in 1..n - k, w[j] # s[k + 1]
      PROVE  j - 1 \in 1..n - (k + 1) /\ v[j - 1] = w[j]
  <2>1. j # 1
    BY <1>0, <1>2, Zenon
  <2>2. j - 1 \in 1..n - (k + 1) /\ (k + 1) + (j - 1) = k + j
    BY <2>1, Indexes
  <2>. QED  BY <1>0, <2>2, Zenon
<1>3. ASSUME NEW d
      PROVE  (\E i \in 1..n - (k + 1) : v[i] = d)
                <=> d # s[k + 1] /\ \E i \in 1..n - k : w[i] = d
  BY <1>1, <1>2, Zenon
<1>. QED  BY <1>0, <1>3, Zenon DEF Rest

\* A walk over a suffix of a sequence without duplicates: its head is an element
\* of the sequence, and the tail is the suffix of the other elements.
LEMMA WalkOn ==
    ASSUME NEW S, NEW s \in Seq(S), NEW k \in 0..Len(s),
           \A i, j \in DOMAIN s : s[i] = s[j] => i = j
    PROVE  LET w == SubSeq(s, k + 1, Len(s))
           IN  w # <<>> =>
                 /\ k + 1 \in 0..Len(s) /\ k + 1 \in DOMAIN s
                 /\ Head(w) = s[k + 1] /\ Head(w) \in S
                 /\ Tail(w) \in Seq(S)
                 /\ Tail(w) = SubSeq(s, (k + 1) + 1, Len(s))
                 /\ 1 \in DOMAIN w /\ w[1] = Head(w)
                 /\ Rest(Tail(w), w, Head(w))
<1> DEFINE w == SubSeq(s, k + 1, Len(s))
           m == k + 1
           v == SubSeq(s, m + 1, Len(s))
           n == Len(s)
<1> SUFFICES ASSUME w # <<>>
             PROVE  /\ m \in 0..n /\ m \in DOMAIN s
                    /\ Head(w) = s[m] /\ Head(w) \in S
                    /\ Tail(w) \in Seq(S) /\ Tail(w) = v
                    /\ 1 \in DOMAIN w /\ w[1] = Head(w)
                    /\ Rest(Tail(w), w, Head(w))
  OBVIOUS
<1>1. n \in Nat /\ DOMAIN s = 1..n
  BY LenProperties
<1>2. /\ w \in Seq(S) /\ Len(w) = n - k
      /\ \A i \in 1..n - k : w[i] = s[k + i]
      /\ m \in 0..n /\ Head(w) = s[m] /\ Tail(w) = SubSeq(s, k + 2, n)
  BY Suffix
<1>3. m + 1 = k + 2 /\ m \in 1..n /\ 1 \in 1..n - k
  BY <1>1, <1>2
<1>4. Tail(w) = v
  BY <1>2, <1>3
<1> HIDE DEF m
<1>5. /\ v \in Seq(S) /\ Len(v) = n - m
      /\ \A i \in 1..n - m : v[i] = s[m + i]
  BY <1>2, Suffix
<1> HIDE DEF w, v, n
<1>6. DOMAIN w = 1..n - k /\ DOMAIN v = 1..n - m
  BY <1>2, <1>5, LenProperties
<1>7. Rest(v, w, s[m])
  <2>1. k \in Nat /\ m = k + 1 /\ k + 1 \in 1..n
    BY <1>1, <1>3 DEF m, n
  <2>2. Suffixes(n, k, s, w, v)
    BY <1>1, <1>2, <1>5, <1>6, <2>1, Zenon DEF Suffixes
  <2>3. Rest(v, w, s[k + 1])
    BY <1>1, <2>1, <2>2, Shift
  <2>. QED  BY <2>1, <2>3
<1>8. w[1] = s[m] /\ s[m] \in S
  <2>1. w[1] = s[k + 1] /\ k + 1 = m
    BY <1>2, <1>3 DEF m
  <2>2. s[m] \in S
    BY <1>1, <1>3, ElementOfSeq DEF n
  <2>. QED  BY <2>1, <2>2
<1>. QED  BY <1>1, <1>2, <1>3, <1>4, <1>5, <1>6, <1>7, <1>8

-----------------------------------------------------------------------------
(* The invariant holds initially and is preserved by every action. *)

\* Nobody is in send() while the mutex of the vector is free.
LEMMA NobodyWalks ==
    ASSUME ChannelTypeOK, _lock = NoThread
    PROVE  \A t \in Threads : pc[t].at \notin {"send", "crashed", "stuck"}
BY ChannelAssumption DEF ChannelTypeOK

\* An idle thread holds no copy of a shared_ptr and walks over nothing.
LEMMA IdleIs ==
    ASSUME NEW t, pc[t] = Idle
    PROVE  pc[t].at = "idle" /\ pc[t].todo = <<>> /\ pc[t].held = {}
BY DEF Idle

\* What a consumer got are messages of the threads.
LEMMA MessagesAre ==
    ASSUME ChannelTypeOK, NEW c \in Consumers, NEW i \in DOMAIN got[c]
    PROVE  got[c][i] \in AnyMessage /\ got[c][i].from \in Threads /\ got[c][i].n \in Nat
<1>1. got[c] \in Seq(AnyMessage) /\ DOMAIN got[c] = 1..Len(got[c])
  BY LenProperties DEF ChannelTypeOK
<1>2. got[c][i] \in AnyMessage
  BY <1>1, ElementOfSeq
<1>. QED  BY <1>2, ChannelAssumption DEF AnyMessage

\* A step that puts nothing into a queue and takes nothing out of one.
LEMMA QueuesStay ==
    ASSUME ChannelInvariant, UNCHANGED <<_queue, got>>
    PROVE  NoGapsNoDuplicates'
BY DEF ChannelInvariant, NoGapsNoDuplicates, QueuedIsLast, InOrder, is_rejected

\* What a thread is doing, with another set of shared_ptrs.
LEMMA Holding ==
    ASSUME ChannelTypeOK, NEW t \in Threads, NEW h
    PROVE  [pc[t] EXCEPT !.held = h] = [at |-> pc[t].at, todo |-> pc[t].todo, held |-> h]
<1>1. PICK r \in [at   : {"idle", "send", "remove", "crashed", "stuck"},
                  todo : Seq(Consumers),
                  held : SUBSET Consumers] : r = pc[t]
  BY DEF ChannelTypeOK
<1>2. [r EXCEPT !.held = h] = [at |-> r.at, todo |-> r.todo, held |-> h]
  OBVIOUS
<1>. QED  BY <1>1, <1>2, Zenon

\* The empty channel satisfies the invariant.
LEMMA InitInvariant == ChannelInit => ChannelInvariant
<1> SUFFICES ASSUME ChannelInit PROVE ChannelInvariant
  OBVIOUS
<1> USE DEF ChannelInit
<1>0. \A t \in Threads : pc[t] = Idle /\ pc[t].at = "idle" /\ pc[t].held = {} /\ pc[t].todo = <<>>
  BY DEF Idle
<1>1. ChannelTypeOK
  <2>1. Idle \in [at   : {"idle", "send", "remove", "crashed", "stuck"},
                  todo : Seq(Consumers),
                  held : SUBSET Consumers]
    BY DEF Idle
  <2>2. <<>> \in Seq(AnyMessage) /\ <<>> \in Seq(Consumers)
    OBVIOUS
  <2>3. \A t \in Threads : (_lock = t) <=> (pc[t].at \in {"send", "crashed", "stuck"})
    BY <1>0, ChannelAssumption
  <2>. QED  BY <2>1, <2>2, <2>3, ChannelAssumption DEF ChannelTypeOK
<1>2. WalkIsStable
  BY <1>0, <1>1 DEF WalkIsStable
<1>3. UsedConsumerLives
  BY <1>0 DEF UsedConsumerLives
<1>4. NoGapsNoDuplicates
  <2> SUFFICES ASSUME NEW c \in Consumers
               PROVE  \E k \in 0..Len(got[c]) : _queue[c] = SubSeq(got[c], k + 1, Len(got[c]))
    BY DEF NoGapsNoDuplicates, QueuedIsLast, InOrder
  <2>1. _queue[c] = <<>> /\ got[c] = <<>> /\ Len(<<>>) = 0 /\ SubSeq(<<>>, 1, 0) = <<>>
    OBVIOUS
  <2>. QED  BY <2>1
<1>5. KeepsUp
  BY DEF KeepsUp, UpToDate
<1>6. OnceOnly
  BY DEF OnceOnly
<1>7. Departures
  BY <1>0 DEF Departures
<1>8. Walkers
  BY <1>0 DEF Walkers
<1>. QED  BY <1>2, <1>3, <1>4, <1>5, <1>6, <1>7, <1>8 DEF ChannelInvariant

\* Copying a shared_ptr, WeakVector's sharing of a consumer.
LEMMA ShareStep ==
    ASSUME ChannelInvariant, NEW t \in Threads, NEW u \in Threads, NEW c \in Consumers,
           share(t, u, c)
    PROVE  ChannelInvariant'
<1> USE DEF share
<1>1. WalkIsStable'
  <2>1. owners' \in [Consumers -> SUBSET Threads]
    BY DEF ChannelInvariant, WalkIsStable, ChannelTypeOK
  <2>. QED  BY <2>1 DEF ChannelInvariant, WalkIsStable, ChannelTypeOK
<1>2. UsedConsumerLives'
  <2> SUFFICES ASSUME NEW d \in Consumers, NEW v \in Threads,
                      pc[v].at = "remove", pc[v].todo = <<d>>
               PROVE  holders(d)' = {}
    BY DEF UsedConsumerLives
  <2>1. holders(d) = {}
    BY DEF ChannelInvariant, UsedConsumerLives
  <2>2. d # c
    BY <2>1 DEF holders
  <2>3. owners'[d] = owners[d]
    BY <2>2 DEF ChannelInvariant, WalkIsStable, ChannelTypeOK
  <2>. QED  BY <2>1, <2>3 DEF holders
<1>3. NoGapsNoDuplicates'
  BY QueuesStay
<1>4. KeepsUp'
  BY DEF ChannelInvariant, KeepsUp, UpToDate, is_rejected, Awaits, Attached
<1>5. OnceOnly' /\ Departures' /\ Walkers'
  BY DEF ChannelInvariant, OnceOnly, Departures, Walkers, Attached
<1>. QED  BY <1>1, <1>2, <1>3, <1>4, <1>5 DEF ChannelInvariant

\* Destroying the channel.
LEMMA RemoveAllStep ==
    ASSUME ChannelInvariant, NEW t \in Threads, remove_all(t)
    PROVE  ChannelInvariant'
<1> USE DEF remove_all
<1>1. WalkIsStable'
  BY DEF ChannelInvariant, WalkIsStable, ChannelTypeOK
<1>2. UsedConsumerLives'
  BY DEF ChannelInvariant, UsedConsumerLives, holders
<1>3. NoGapsNoDuplicates'
  BY QueuesStay
<1>4. KeepsUp'
  BY DEF ChannelInvariant, KeepsUp, UpToDate, is_rejected, Awaits, Attached
<1>5. OnceOnly' /\ Departures' /\ Walkers'
  BY DEF ChannelInvariant, OnceOnly, Departures, Walkers, Attached
<1>. QED  BY <1>1, <1>2, <1>3, <1>4, <1>5 DEF ChannelInvariant

\* ChannelSingleQueue::receive.
LEMMA ReceiveStep ==
    ASSUME ChannelInvariant, NEW t \in Threads, NEW c \in Consumers, receive(t, c)
    PROVE  ChannelInvariant'
<1> USE DEF receive
<1>0. ChannelTypeOK
  BY DEF ChannelInvariant, WalkIsStable
<1>1. WalkIsStable'
  <2>1. _queue[c] \in Seq(AnyMessage) /\ Tail(_queue[c]) \in Seq(AnyMessage)
    BY <1>0 DEF ChannelTypeOK
  <2>2. _queue' \in [Consumers -> Seq(AnyMessage)]
    BY <1>0, <2>1 DEF ChannelTypeOK
  <2>3. ChannelTypeOK'
    BY <1>0, <2>2 DEF ChannelTypeOK
  <2>. QED  BY <2>3 DEF ChannelInvariant, WalkIsStable
<1>2. UsedConsumerLives'
  BY DEF ChannelInvariant, UsedConsumerLives, holders
<1>3. NoGapsNoDuplicates'
  <2>1. ASSUME NEW d \in Consumers PROVE QueuedIsLast(d)'
    <3>1. CASE d = c
      <4>1. PICK k \in 0..Len(got[c]) : _queue[c] = SubSeq(got[c], k + 1, Len(got[c]))
        BY DEF ChannelInvariant, NoGapsNoDuplicates, QueuedIsLast
      <4>2. got[c] \in Seq(AnyMessage) /\ Len(got[c]) \in Nat
        BY <1>0 DEF ChannelTypeOK
      <4>3. /\ k + 1 \in 0..Len(got[c])
            /\ Tail(_queue[c]) = SubSeq(got[c], k + 2, Len(got[c]))
        BY <4>1, <4>2, Suffix
      <4>4. _queue'[c] = SubSeq(got[c], (k + 1) + 1, Len(got[c]))
        <5>1. (k + 1) + 1 = k + 2
          BY <4>2
        <5>. QED  BY <1>0, <4>3, <5>1 DEF ChannelTypeOK
      <4>. QED  BY <3>1, <4>3, <4>4 DEF QueuedIsLast
    <3>2. CASE d # c
      BY <1>0, <3>2 DEF ChannelInvariant, NoGapsNoDuplicates, QueuedIsLast, ChannelTypeOK
    <3>. QED  BY <3>1, <3>2
  <2>2. ASSUME NEW d \in Consumers, NEW u \in Threads PROVE InOrder(d, u)'
    BY DEF ChannelInvariant, NoGapsNoDuplicates, InOrder, is_rejected
  <2>. QED  BY <2>1, <2>2 DEF NoGapsNoDuplicates
<1>4. KeepsUp'
  BY DEF ChannelInvariant, KeepsUp, UpToDate, is_rejected, Awaits, Attached
<1>5. OnceOnly' /\ Departures' /\ Walkers'
  BY DEF ChannelInvariant, OnceOnly, Departures, Walkers, Attached
<1>. QED  BY <1>1, <1>2, <1>3, <1>4, <1>5 DEF ChannelInvariant

\* WeakVector::emplace: the mutex is free, and the new consumer has got nothing.
LEMMA CreateStep ==
    ASSUME ChannelInvariant, NEW t \in Threads, NEW c \in Consumers, create_consumer(t, c)
    PROVE  ChannelInvariant'
<1> USE DEF create_consumer
<1>0. ChannelTypeOK
  BY DEF ChannelInvariant, WalkIsStable
<1>a. \A u \in Threads : pc[u].at \notin {"send", "crashed", "stuck"}
  BY <1>0, NobodyWalks
<1>b. /\ _collection' \in Seq(Consumers) /\ Len(_collection') = Len(_collection) + 1
      /\ \A i \in 1..Len(_collection) : _collection'[i] = _collection[i]
      /\ _collection'[Len(_collection) + 1] = c
      /\ Len(_collection) \in Nat
      /\ DOMAIN _collection = 1..Len(_collection)
      /\ DOMAIN _collection' = 1..Len(_collection) + 1
  BY <1>0, AppendProperties, LenProperties DEF ChannelTypeOK
<1>c. ASSUME NEW d PROVE Attached(d)' <=> Attached(d) \/ d = c
  BY <1>b DEF Attached
<1>d. ~Attached(c)
  BY DEF Attached
<1>1. WalkIsStable'
  <2>1. ChannelTypeOK'
    <3>1. owners' \in [Consumers -> SUBSET Threads] /\ collection_ptr' \subseteq Consumers
      BY <1>0 DEF ChannelTypeOK
    <3>. QED  BY <1>0, <1>b, <3>1 DEF ChannelTypeOK
  <2>. QED  BY <1>a, <2>1 DEF WalkIsStable
<1>2. UsedConsumerLives'
  <2> SUFFICES ASSUME NEW d \in Consumers, NEW v \in Threads,
                      pc[v].at = "remove", pc[v].todo = <<d>>
               PROVE  holders(d)' = {}
    BY DEF UsedConsumerLives
  <2>1. holders(d) = {}
    BY DEF ChannelInvariant, UsedConsumerLives
  <2>2. Attached(d)
    <3>1. PICK e \in Consumers : pc[v].todo = <<e>> /\ Attached(e)
      BY DEF ChannelInvariant, Departures
    <3>. QED  BY <3>1
  <2>3. owners'[d] = owners[d]
    BY <1>0, <1>d, <2>2 DEF ChannelTypeOK
  <2>. QED  BY <2>1, <2>3 DEF holders
<1>3. NoGapsNoDuplicates'
  BY QueuesStay
<1>4. KeepsUp'
  <2> SUFFICES ASSUME NEW d \in Consumers, NEW u \in Threads PROVE UpToDate(d, u)'
    BY DEF KeepsUp
  <2>1. CASE d = c
    BY <2>1 DEF UpToDate
  <2>2. CASE d # c
    <3>1. UpToDate(d, u) /\ (Attached(d)' <=> Attached(d)) /\ (Awaits(d, u)' <=> Awaits(d, u))
      BY <1>c, <2>2 DEF ChannelInvariant, KeepsUp, Awaits
    <3>. QED  BY <3>1 DEF UpToDate, is_rejected
  <2>. QED  BY <2>1, <2>2
<1>5. OnceOnly'
  BY <1>b DEF ChannelInvariant, OnceOnly
<1>6. Departures'
  <2>1. \A d \in collection_ptr' : Attached(d)'
    BY <1>c DEF ChannelInvariant, Departures
  <2>2. ASSUME NEW u \in Threads, pc[u].at = "remove"
        PROVE  \E d \in Consumers : pc[u].todo = <<d>> /\ Attached(d)' /\ d \notin collection_ptr'
    <3>1. PICK d \in Consumers : pc[u].todo = <<d>> /\ Attached(d) /\ d \notin collection_ptr
      BY <2>2 DEF ChannelInvariant, Departures
    <3>. QED  BY <1>c, <1>d, <3>1
  <2>. QED  BY <2>1, <2>2 DEF ChannelInvariant, Departures
<1>7. Walkers'
  BY DEF ChannelInvariant, Walkers
<1>. QED  BY <1>1, <1>2, <1>3, <1>4, <1>5, <1>6, <1>7 DEF ChannelInvariant

\* Dropping a shared_ptr: when it was the last one, the thread goes on to remove.
LEMMA ReleaseStep ==
    ASSUME ChannelInvariant, NEW t \in Threads, NEW c \in Consumers, release(t, c)
    PROVE  ChannelInvariant'
<1> USE DEF release
<1>0. ChannelTypeOK
  BY DEF ChannelInvariant, WalkIsStable
<1> DEFINE leaving == holders(c) = {t} /\ c \in collection_ptr
           gone == [at |-> "remove", todo |-> <<c>>, held |-> {}]
<1>a. /\ pc[t].at = "idle" /\ pc[t].held = {} /\ pc[t].todo = <<>>
  BY IdleIs
<1>b. /\ owners' \in [Consumers -> SUBSET Threads]
      /\ owners'[c] = owners[c] \ {t}
      /\ \A d \in Consumers : d # c => owners'[d] = owners[d]
  BY <1>0 DEF ChannelTypeOK
<1>c. leaving => pc'[t] = gone
  BY <1>0 DEF ChannelTypeOK
<1>d. ~leaving => pc' = pc /\ collection_ptr' = collection_ptr
  OBVIOUS
<1>e. /\ \A u \in Threads : u # t => pc'[u] = pc[u]
      /\ pc' \in [Threads -> [at   : {"idle", "send", "remove", "crashed", "stuck"},
                              todo : Seq(Consumers),
                              held : SUBSET Consumers]]
  <2>1. gone \in [at   : {"idle", "send", "remove", "crashed", "stuck"},
                  todo : Seq(Consumers),
                  held : SUBSET Consumers]
    OBVIOUS
  <2>. QED  BY <1>0, <2>1 DEF ChannelTypeOK
<1>f. pc'[t].at \in {"idle", "remove"} /\ pc'[t].held = {}
  BY <1>a, <1>c, <1>d
<1> HIDE DEF leaving, gone
<1>g. \A d, u : u \in Threads => (Awaits(d, u)' <=> Awaits(d, u))
  BY <1>a, <1>e, <1>f DEF Awaits
<1>h. \A d : Attached(d)' <=> Attached(d)
  BY DEF Attached
<1>i. \A u \in Threads : pc[u].at = "remove" => pc[u].todo # <<c>>
  BY DEF ChannelInvariant, UsedConsumerLives, holders
<1>j. leaving => \A d \in Consumers : holders(d)' = IF d = c THEN {} ELSE holders(d)
  <2> SUFFICES ASSUME leaving, NEW d \in Consumers
               PROVE  holders(d)' = IF d = c THEN {} ELSE holders(d)
    OBVIOUS
  <2>1. {u \in Threads : d \in pc'[u].held} = {u \in Threads : d \in pc[u].held}
    BY <1>a, <1>e, <1>f
  <2>. QED  BY <1>a, <1>b, <2>1 DEF leaving, holders
<1>k. \A d \in Consumers : holders(d)' \subseteq holders(d)
  BY <1>a, <1>b, <1>e, <1>f DEF holders
<1>1. WalkIsStable'
  <2>1. ChannelTypeOK'
    <3>1. \A u \in Threads : (_lock' = u) <=> (pc'[u].at \in {"send", "crashed", "stuck"})
      BY <1>0, <1>a, <1>e, <1>f DEF ChannelTypeOK
    <3>2. collection_ptr' \subseteq Consumers
      BY <1>0 DEF ChannelTypeOK
    <3>. QED  BY <1>0, <1>b, <1>e, <3>1, <3>2 DEF ChannelTypeOK
  <2>2. ASSUME NEW u \in Threads, pc'[u].at = "send" PROVE u # t /\ pc'[u] = pc[u]
    BY <1>e, <1>f, <2>2
  <2>. QED  BY <2>1, <2>2 DEF ChannelInvariant, WalkIsStable
<1>2. UsedConsumerLives'
  <2> SUFFICES ASSUME NEW d \in Consumers, NEW v \in Threads,
                      pc'[v].at = "remove", pc'[v].todo = <<d>>
               PROVE  holders(d)' = {}
    BY DEF UsedConsumerLives
  <2>1. CASE v # t
    BY <1>e, <1>k, <2>1 DEF ChannelInvariant, UsedConsumerLives
  <2>2. CASE v = t
    <3>1. leaving
      BY <1>a, <1>d, <2>2
    <3>2. d = c
      BY <1>c, <2>2, <3>1 DEF gone
    <3>. QED  BY <1>j, <3>1, <3>2
  <2>. QED  BY <2>1, <2>2
<1>3. NoGapsNoDuplicates'
  BY QueuesStay
<1>4. KeepsUp'
  <2> SUFFICES ASSUME NEW d \in Consumers, NEW u \in Threads PROVE UpToDate(d, u)'
    BY DEF KeepsUp
  <2>1. UpToDate(d, u)
    BY DEF ChannelInvariant, KeepsUp
  <2>2. pc[u].at \in {"crashed", "stuck"} <=> pc'[u].at \in {"crashed", "stuck"}
    BY <1>a, <1>e, <1>f
  <2>. QED  BY <1>g, <1>h, <2>1, <2>2 DEF UpToDate, is_rejected
<1>5. OnceOnly'
  BY DEF ChannelInvariant, OnceOnly
<1>6. Departures'
  <2>1. \A d \in collection_ptr' : Attached(d)'
    BY <1>h DEF ChannelInvariant, Departures
  <2>2. ASSUME NEW u \in Threads, pc'[u].at = "remove"
        PROVE  \E d \in Consumers : pc'[u].todo = <<d>> /\ Attached(d)' /\ d \notin collection_ptr'
    <3>1. CASE u # t
      <4>1. PICK d \in Consumers : pc[u].todo = <<d>> /\ Attached(d) /\ d \notin collection_ptr
        BY <1>e, <2>2, <3>1 DEF ChannelInvariant, Departures
      <4>. QED  BY <1>e, <1>h, <3>1, <4>1
    <3>2. CASE u = t
      <4>1. leaving
        BY <1>a, <1>d, <2>2, <3>2
      <4>2. pc'[u].todo = <<c>> /\ c \notin collection_ptr' /\ Attached(c)
        BY <1>c, <3>2, <4>1 DEF leaving, gone, ChannelInvariant, Departures
      <4>. QED  BY <1>h, <4>2
    <3>. QED  BY <3>1, <3>2
  <2>3. ASSUME NEW u \in Threads, NEW v \in Threads,
               pc'[u].at = "remove", pc'[v].at = "remove", pc'[u].todo = pc'[v].todo
        PROVE  u = v
    <3>1. CASE u # t /\ v # t
      BY <1>e, <2>3, <3>1 DEF ChannelInvariant, Departures
    <3>2. ASSUME NEW w \in Threads, w # t, pc'[w].at = "remove", pc'[t].at = "remove"
          PROVE  pc'[w].todo # pc'[t].todo
      <4>1. leaving
        BY <1>a, <1>d, <3>2
      <4>2. pc'[t].todo = <<c>>
        BY <1>c, <4>1 DEF gone
      <4>3. pc[w].at = "remove" /\ pc'[w].todo = pc[w].todo
        BY <1>e, <3>2
      <4>. QED  BY <1>i, <4>2, <4>3
    <3>. QED  BY <2>3, <3>1, <3>2
  <2>. QED  BY <2>1, <2>2, <2>3 DEF Departures
<1>7. Walkers'
  BY <1>e, <1>f DEF ChannelInvariant, Walkers
<1>. QED  BY <1>1, <1>2, <1>3, <1>4, <1>5, <1>6, <1>7 DEF ChannelInvariant

\* WeakVector::remove: the mutex is free, and the consumer that leaves is the one
\* that nobody holds any more.
LEMMA RemoveStep ==
    ASSUME ChannelInvariant, NEW t \in Threads, remove(t)
    PROVE  ChannelInvariant'
<1> USE DEF remove
<1>0. ChannelTypeOK
  BY DEF ChannelInvariant, WalkIsStable
<1>a. \A u \in Threads : pc[u].at \notin {"send", "crashed", "stuck"}
  BY <1>0, NobodyWalks
<1>b. PICK c \in Consumers : pc[t].todo = <<c>> /\ Attached(c) /\ c \notin collection_ptr
  BY DEF ChannelInvariant, Departures
<1>c. /\ pc'[t] = Idle /\ pc'[t].at = "idle" /\ pc'[t].held = {}
      /\ \A u \in Threads : u # t => pc'[u] = pc[u]
  BY <1>0 DEF ChannelTypeOK, Idle
<1>d. \A u \in Threads : u # t /\ pc[u].at = "remove" => pc[u].todo # <<c>>
  BY <1>b DEF ChannelInvariant, Departures
<1>e. _collection \in Seq(Consumers) /\ _collection' \in erased(_collection, c)
  <2>1. pc[t].todo[1] = c
    BY <1>b
  <2>. QED  BY <1>0, <2>1 DEF ChannelTypeOK
<1>f. /\ _collection' \in Seq(Consumers)
      /\ \A d : /\ Attached(d)' => Attached(d)
                /\ Attached(d) /\ d # c => Attached(d)'
  BY <1>e, Erased, ErasedElements DEF Attached
<1>1. WalkIsStable'
  <2>1. ChannelTypeOK'
    <3>1. \A u \in Threads : (_lock' = u) <=> (pc'[u].at \in {"send", "crashed", "stuck"})
      BY <1>0, <1>a, <1>c DEF ChannelTypeOK
    <3>2. pc' \in [Threads -> [at   : {"idle", "send", "remove", "crashed", "stuck"},
                              todo : Seq(Consumers),
                              held : SUBSET Consumers]]
      BY <1>0 DEF ChannelTypeOK, Idle
    <3>. QED  BY <1>0, <1>f, <3>1, <3>2 DEF ChannelTypeOK
  <2>2. \A u \in Threads : pc'[u].at # "send"
    BY <1>a, <1>c
  <2>. QED  BY <2>1, <2>2 DEF WalkIsStable
<1>2. UsedConsumerLives'
  <2> SUFFICES ASSUME NEW d \in Consumers, NEW v \in Threads,
                      pc'[v].at = "remove", pc'[v].todo = <<d>>
               PROVE  holders(d)' = {}
    BY DEF UsedConsumerLives
  <2>1. v # t /\ pc'[v] = pc[v]
    BY <1>c
  <2>2. holders(d) = {}
    BY <2>1 DEF ChannelInvariant, UsedConsumerLives
  <2>. QED  BY <1>c, <2>2 DEF holders
<1>3. NoGapsNoDuplicates'
  BY QueuesStay
<1>4. KeepsUp'
  <2> SUFFICES ASSUME NEW d \in Consumers, NEW u \in Threads PROVE UpToDate(d, u)'
    BY DEF KeepsUp
  <2>1. UpToDate(d, u)
    BY DEF ChannelInvariant, KeepsUp
  <2>2. ~Awaits(d, u) /\ ~Awaits(d, u)' /\ pc[u].at \notin {"crashed", "stuck"}
    BY <1>a, <1>c DEF Awaits
  <2>. QED  BY <1>f, <2>1, <2>2 DEF UpToDate, is_rejected
<1>5. OnceOnly'
  BY <1>e, ErasedElements DEF ChannelInvariant, OnceOnly
<1>6. Departures'
  <2>1. \A d \in collection_ptr' : Attached(d)'
    BY <1>b, <1>f DEF ChannelInvariant, Departures
  <2>2. ASSUME NEW u \in Threads, pc'[u].at = "remove"
        PROVE  \E d \in Consumers : pc'[u].todo = <<d>> /\ Attached(d)' /\ d \notin collection_ptr'
    <3>1. u # t /\ pc'[u] = pc[u]
      BY <1>c, <2>2
    <3>2. PICK d \in Consumers : pc[u].todo = <<d>> /\ Attached(d) /\ d \notin collection_ptr
      BY <2>2, <3>1 DEF ChannelInvariant, Departures
    <3>3. d # c
      BY <1>d, <2>2, <3>1, <3>2
    <3>. QED  BY <1>f, <3>1, <3>2, <3>3
  <2>3. ASSUME NEW u \in Threads, NEW v \in Threads,
               pc'[u].at = "remove", pc'[v].at = "remove", pc'[u].todo = pc'[v].todo
        PROVE  u = v
    <3>1. u # t /\ v # t
      BY <1>c, <2>3
    <3>. QED  BY <1>c, <2>3, <3>1 DEF ChannelInvariant, Departures
  <2>. QED  BY <2>1, <2>2, <2>3 DEF Departures
<1>7. Walkers'
  BY <1>c DEF ChannelInvariant, Walkers
<1>. QED  BY <1>1, <1>2, <1>3, <1>4, <1>5, <1>6, <1>7 DEF ChannelInvariant

\* What a thread that is in send() will visit next is on the vector, only once;
\* after it come the others that the thread has to visit.
LEMMA NextInLine ==
    ASSUME ChannelInvariant, NEW t \in Threads, pc[t].at = "send", pc[t].todo # <<>>
    PROVE  /\ Head(pc[t].todo) \in Consumers
           /\ Attached(Head(pc[t].todo)) /\ Awaits(Head(pc[t].todo), t)
           /\ Tail(pc[t].todo) \in Seq(Consumers)
           /\ \A d : (\E i \in DOMAIN Tail(pc[t].todo) : Tail(pc[t].todo)[i] = d)
                      <=> Awaits(d, t) /\ d # Head(pc[t].todo)
           /\ \E k \in 0..Len(_collection) :
                Tail(pc[t].todo) = SubSeq(_collection, k + 1, Len(_collection))
<1>1. /\ _collection \in Seq(Consumers)
      /\ \A i, j \in DOMAIN _collection : _collection[i] = _collection[j] => i = j
  BY DEF ChannelInvariant, WalkIsStable, ChannelTypeOK, OnceOnly
<1>2. PICK k \in 0..Len(_collection) : pc[t].todo = SubSeq(_collection, k + 1, Len(_collection))
  BY DEF ChannelInvariant, WalkIsStable
<1> DEFINE w == SubSeq(_collection, k + 1, Len(_collection))
<1>3. w # <<>> =>
        /\ k + 1 \in 0..Len(_collection) /\ k + 1 \in DOMAIN _collection
        /\ Head(w) = _collection[k + 1] /\ Head(w) \in Consumers
        /\ Tail(w) \in Seq(Consumers)
        /\ Tail(w) = SubSeq(_collection, (k + 1) + 1, Len(_collection))
        /\ 1 \in DOMAIN w /\ w[1] = Head(w)
        /\ Rest(Tail(w), w, Head(w))
  BY <1>1, WalkOn, Zenon
<1> HIDE DEF w
<1>4. pc[t].todo = w /\ w # <<>>
  BY <1>2 DEF w
<1>5. Attached(Head(w)) /\ Awaits(Head(w), t)
  BY <1>3, <1>4 DEF Attached, Awaits
<1>6. \A d : (\E i \in DOMAIN Tail(w) : Tail(w)[i] = d) <=> Awaits(d, t) /\ d # Head(w)
  BY <1>3, <1>4 DEF Awaits, Rest
<1>. QED  BY <1>3, <1>4, <1>5, <1>6

\* ChannelMultiQueue::send takes the mutex and has all of the vector before it.
LEMMA SendStep ==
    ASSUME ChannelInvariant, NEW t \in Threads, send(t)
    PROVE  ChannelInvariant'
<1> USE DEF send
<1> DEFINE next == [at |-> "send", todo |-> _collection, held |-> {}]
<1>0. ChannelTypeOK
  BY DEF ChannelInvariant, WalkIsStable
<1>a. \A u \in Threads : pc[u].at \notin {"send", "crashed", "stuck"}
  BY <1>0, NobodyWalks
<1>b. pc[t].at = "idle" /\ pc[t].held = {} /\ pc[t].todo = <<>>
  BY IdleIs
<1>c. /\ pc'[t] = next /\ \A u \in Threads : u # t => pc'[u] = pc[u]
      /\ pc' \in [Threads -> [at   : {"idle", "send", "remove", "crashed", "stuck"},
                              todo : Seq(Consumers),
                              held : SUBSET Consumers]]
  <2>1. next \in [at   : {"idle", "send", "remove", "crashed", "stuck"},
                  todo : Seq(Consumers),
                  held : SUBSET Consumers]
    BY <1>0 DEF ChannelTypeOK
  <2>. QED  BY <1>0, <2>1 DEF ChannelTypeOK
<1>d. pc'[t].at = "send" /\ pc'[t].held = {} /\ pc'[t].todo = _collection
  BY <1>c
<1> HIDE DEF next
<1>e. /\ sent' \in [Threads -> 0..MaxMessages] /\ sent[t] \in Nat /\ sent'[t] = sent[t] + 1
      /\ \A u \in Threads : u # t => sent'[u] = sent[u]
  BY <1>0, ChannelAssumption DEF ChannelTypeOK
<1>f. \A d : Attached(d)' <=> Attached(d)
  BY DEF Attached
<1>g. \A d \in Consumers : holders(d)' = holders(d)
  BY <1>b, <1>c, <1>d DEF holders
<1>1. WalkIsStable'
  <2>1. ChannelTypeOK'
    <3>1. \A u \in Threads : (_lock' = u) <=> (pc'[u].at \in {"send", "crashed", "stuck"})
      BY <1>a, <1>c, <1>d
    <3>. QED  BY <1>0, <1>c, <1>e, <3>1 DEF ChannelTypeOK
  <2>2. ASSUME NEW u \in Threads, pc'[u].at = "send"
        PROVE  \E k \in 0..Len(_collection) :
                 pc'[u].todo = SubSeq(_collection, k + 1, Len(_collection))
    <3>1. u = t
      BY <1>a, <1>c, <2>2
    <3>2. _collection = SubSeq(_collection, 0 + 1, Len(_collection)) /\ 0 \in 0..Len(_collection)
      BY <1>0, SubSeqFull, LenProperties DEF ChannelTypeOK
    <3>. QED  BY <1>d, <3>1, <3>2
  <2>. QED  BY <2>1, <2>2 DEF WalkIsStable
<1>2. UsedConsumerLives'
  <2> SUFFICES ASSUME NEW d \in Consumers, NEW v \in Threads,
                      pc'[v].at = "remove", pc'[v].todo = <<d>>
               PROVE  holders(d)' = {}
    BY DEF UsedConsumerLives
  <2>1. v # t /\ pc'[v] = pc[v]
    BY <1>c, <1>d
  <2>. QED  BY <1>g, <2>1 DEF ChannelInvariant, UsedConsumerLives
<1>3. NoGapsNoDuplicates'
  BY QueuesStay
<1>4. KeepsUp'
  <2> SUFFICES ASSUME NEW d \in Consumers, NEW u \in Threads PROVE UpToDate(d, u)'
    BY DEF KeepsUp
  <2>1. UpToDate(d, u) /\ ~Awaits(d, u) /\ pc[u].at \notin {"crashed", "stuck"}
    BY <1>a DEF ChannelInvariant, KeepsUp, Awaits
  <2>2. CASE u # t
    <3>1. sent'[u] = sent[u] /\ ~Awaits(d, u)'
      BY <1>c, <1>e, <2>1, <2>2 DEF Awaits
    <3>. QED  BY <1>f, <2>1, <3>1 DEF UpToDate, is_rejected
  <2>3. CASE u = t
    <3>1. Attached(d) => Awaits(d, t)'
      BY <1>d DEF Attached, Awaits
    <3> SUFFICES ASSUME NEW i \in DOMAIN got[d], got[d][i].from = t
                 PROVE  /\ got[d][i].n < sent'[t] /\ got[d][i].n <= sent'[t]
                        /\ Attached(d) => \A n \in got[d][i].n + 1 .. sent'[t] :
                             \/ is_rejected(d, [from |-> t, n |-> n])
                             \/ \E k \in DOMAIN got[d] : k > i /\ got[d][k] = [from |-> t, n |-> n]
                             \/ n = sent'[t] /\ Awaits(d, t)'
      BY <1>f, <2>3 DEF UpToDate, is_rejected
    <3>2. got[d][i].n \in Nat
      BY <1>0, MessagesAre
    <3>3. /\ got[d][i].n <= sent[t]
          /\ Attached(d) => \A n \in got[d][i].n + 1 .. sent[t] :
               \/ is_rejected(d, [from |-> t, n |-> n])
               \/ \E k \in DOMAIN got[d] : k > i /\ got[d][k] = [from |-> t, n |-> n]
      BY <2>1, <2>3 DEF UpToDate
    <3>4. got[d][i].n < sent'[t] /\ got[d][i].n <= sent'[t]
      BY <1>e, <3>2, <3>3
    <3>5. ASSUME Attached(d), NEW n \in got[d][i].n + 1 .. sent'[t]
          PROVE  n \in got[d][i].n + 1 .. sent[t] \/ n = sent'[t]
      BY <1>e, <3>2
    <3>. QED  BY <3>1, <3>3, <3>4, <3>5
  <2>. QED  BY <2>2, <2>3
<1>5. OnceOnly'
  BY DEF ChannelInvariant, OnceOnly
<1>6. Departures'
  <2>1. \A u \in Threads : pc'[u].at = "remove" => u # t /\ pc'[u] = pc[u]
    BY <1>c, <1>d
  <2>2. \A u \in Threads : pc'[u].at = "remove" => pc[u].at = "remove" /\ pc'[u].todo = pc[u].todo
    BY <2>1
  <2>. QED  BY <1>f, <2>2 DEF ChannelInvariant, Departures
<1>7. Walkers'
  BY <1>a, <1>c, <1>d, <1>e DEF ChannelInvariant, Walkers
<1>. QED  BY <1>1, <1>2, <1>3, <1>4, <1>5, <1>6, <1>7 DEF ChannelInvariant

\* The end of send(): nobody is left to be visited.
LEMMA SendReturnsStep ==
    ASSUME ChannelInvariant, NEW t \in Threads, send_returns(t)
    PROVE  ChannelInvariant'
<1> USE DEF send_returns
<1>0. ChannelTypeOK
  BY DEF ChannelInvariant, WalkIsStable
<1>a. /\ pc'[t] = Idle /\ \A u \in Threads : u # t => pc'[u] = pc[u]
      /\ pc' \in [Threads -> [at   : {"idle", "send", "remove", "crashed", "stuck"},
                              todo : Seq(Consumers),
                              held : SUBSET Consumers]]
  BY <1>0 DEF ChannelTypeOK, Idle
<1>b. pc'[t].at = "idle" /\ pc'[t].held = {} /\ pc'[t].todo = <<>>
  BY <1>a DEF Idle
<1>c. _lock = t
  BY <1>0 DEF ChannelTypeOK
<1>d. \A d : Attached(d)' <=> Attached(d)
  BY DEF Attached
<1>e. \A d, u : u \in Threads => (Awaits(d, u)' <=> Awaits(d, u))
  BY <1>a, <1>b DEF Awaits
<1>f. \A d \in Consumers : holders(d)' = holders(d)
  BY <1>a, <1>b DEF holders
<1>1. WalkIsStable'
  <2>1. ChannelTypeOK'
    <3>1. \A u \in Threads : (_lock' = u) <=> (pc'[u].at \in {"send", "crashed", "stuck"})
      BY <1>0, <1>a, <1>b, <1>c, ChannelAssumption DEF ChannelTypeOK
    <3>. QED  BY <1>0, <1>a, <3>1 DEF ChannelTypeOK
  <2>2. \A u \in Threads : pc'[u].at # "send"
    BY <1>0, <1>a, <1>b, <1>c DEF ChannelTypeOK
  <2>. QED  BY <2>1, <2>2 DEF WalkIsStable
<1>2. UsedConsumerLives'
  <2> SUFFICES ASSUME NEW d \in Consumers, NEW v \in Threads,
                      pc'[v].at = "remove", pc'[v].todo = <<d>>
               PROVE  holders(d)' = {}
    BY DEF UsedConsumerLives
  <2>1. v # t /\ pc'[v] = pc[v]
    BY <1>a, <1>b
  <2>. QED  BY <1>f, <2>1 DEF ChannelInvariant, UsedConsumerLives
<1>3. NoGapsNoDuplicates'
  BY QueuesStay
<1>4. KeepsUp'
  <2> SUFFICES ASSUME NEW d \in Consumers, NEW u \in Threads PROVE UpToDate(d, u)'
    BY DEF KeepsUp
  <2>1. UpToDate(d, u)
    BY DEF ChannelInvariant, KeepsUp
  <2>2. pc[u].at \in {"crashed", "stuck"} <=> pc'[u].at \in {"crashed", "stuck"}
    BY <1>a, <1>b
  <2>. QED  BY <1>d, <1>e, <2>1, <2>2 DEF UpToDate, is_rejected
<1>5. OnceOnly'
  BY DEF ChannelInvariant, OnceOnly
<1>6. Departures'
  <2>1. \A u \in Threads : pc'[u].at = "remove" => u # t /\ pc'[u] = pc[u]
    BY <1>a, <1>b
  <2>2. \A u \in Threads : pc'[u].at = "remove" => pc[u].at = "remove" /\ pc'[u].todo = pc[u].todo
    BY <2>1
  <2>. QED  BY <1>d, <2>2 DEF ChannelInvariant, Departures
<1>7. Walkers'
  BY <1>a, <1>b DEF ChannelInvariant, Walkers
<1>. QED  BY <1>1, <1>2, <1>3, <1>4, <1>5, <1>6, <1>7 DEF ChannelInvariant

\* The weak pointer of the next consumer: it gives a shared_ptr only to a consumer
\* that somebody holds, so to none that is about to leave.
LEMMA SendNextStep ==
    ASSUME ChannelInvariant, NEW t \in Threads, send_next(t)
    PROVE  ChannelInvariant'
<1> USE DEF send_next
<1> DEFINE c == Head(pc[t].todo)
           lost == [at |-> "crashed", todo |-> <<>>, held |-> {}]
           next == [at |-> "send", todo |-> pc[t].todo, held |-> {c}]
<1>0. ChannelTypeOK
  BY DEF ChannelInvariant, WalkIsStable
<1>a. c \in Consumers /\ pc[t].todo \in Seq(Consumers) /\ Len(pc[t].todo) \in Nat
  BY <1>0, NextInLine DEF ChannelTypeOK
<1>b. \A u \in Threads : u # t => pc'[u] = pc[u]
  BY <1>0 DEF ChannelTypeOK
<1>c. pc'[t] = IF holders(c) = {} THEN lost ELSE next
  <2>1. [pc[t] EXCEPT !.held = {c}] = next
    <3>1. [pc[t] EXCEPT !.held = {c}] = [at |-> pc[t].at, todo |-> pc[t].todo, held |-> {c}]
      BY <1>0, Holding, Zenon
    <3>. QED  BY <3>1
  <2>2. pc'[t] = IF holders(c) = {} THEN lost ELSE [pc[t] EXCEPT !.held = {c}]
    BY <1>0, Zenon DEF ChannelTypeOK
  <2>. QED  BY <2>1, <2>2, Zenon
<1>d. /\ holders(c) = {} => pc'[t].at = "crashed" /\ pc'[t].todo = <<>> /\ pc'[t].held = {}
      /\ holders(c) # {} => pc'[t].at = "send" /\ pc'[t].todo = pc[t].todo /\ pc'[t].held = {c}
      /\ pc' \in [Threads -> [at   : {"idle", "send", "remove", "crashed", "stuck"},
                              todo : Seq(Consumers),
                              held : SUBSET Consumers]]
  <2>1. /\ lost \in [at   : {"idle", "send", "remove", "crashed", "stuck"},
                    todo : Seq(Consumers),
                    held : SUBSET Consumers]
        /\ next \in [at   : {"idle", "send", "remove", "crashed", "stuck"},
                    todo : Seq(Consumers),
                    held : SUBSET Consumers]
    BY <1>a
  <2>. QED  BY <1>0, <1>c, <2>1 DEF ChannelTypeOK
<1> HIDE DEF lost, next
<1>e. \A d : Attached(d)' <=> Attached(d)
  BY DEF Attached
<1>f. \A d \in Consumers : d # c => holders(d)' = holders(d)
  BY <1>b, <1>d DEF holders
<1>g. \A u \in Threads : pc'[u].at = "remove" => u # t /\ pc'[u] = pc[u]
  BY <1>b, <1>d
<1>1. WalkIsStable'
  <2>1. ChannelTypeOK'
    <3>1. \A u \in Threads : (_lock' = u) <=> (pc'[u].at \in {"send", "crashed", "stuck"})
      BY <1>0, <1>b, <1>d DEF ChannelTypeOK
    <3>. QED  BY <1>0, <1>d, <3>1 DEF ChannelTypeOK
  <2>2. ASSUME NEW u \in Threads, pc'[u].at = "send"
        PROVE  pc[u].at = "send" /\ pc'[u].todo = pc[u].todo
    BY <1>b, <1>d, <2>2
  <2>. QED  BY <2>1, <2>2 DEF ChannelInvariant, WalkIsStable
<1>2. UsedConsumerLives'
  <2> SUFFICES ASSUME NEW d \in Consumers, NEW v \in Threads,
                      pc'[v].at = "remove", pc'[v].todo = <<d>>
               PROVE  holders(d)' = {}
    BY DEF UsedConsumerLives
  <2>1. v # t /\ pc'[v] = pc[v]
    BY <1>g
  <2>2. holders(d) = {}
    BY <2>1 DEF ChannelInvariant, UsedConsumerLives
  <2>3. CASE d # c
    BY <1>f, <2>2, <2>3
  <2>4. CASE d = c
    BY <1>b, <1>d, <2>2, <2>4 DEF holders
  <2>. QED  BY <2>3, <2>4
<1>3. NoGapsNoDuplicates'
  BY QueuesStay
<1>4. KeepsUp'
  <2> SUFFICES ASSUME NEW d \in Consumers, NEW u \in Threads PROVE UpToDate(d, u)'
    BY DEF KeepsUp
  <2>1. UpToDate(d, u)
    BY DEF ChannelInvariant, KeepsUp
  <2>2. /\ Awaits(d, u)' => Awaits(d, u)
        /\ Awaits(d, u) => Awaits(d, u)' \/ pc'[u].at \in {"crashed", "stuck"}
        /\ pc[u].at \in {"crashed", "stuck"} => pc'[u].at \in {"crashed", "stuck"}
    BY <1>b, <1>d DEF Awaits
  <2>. QED  BY <1>e, <2>1, <2>2 DEF UpToDate, is_rejected
<1>5. OnceOnly'
  BY DEF ChannelInvariant, OnceOnly
<1>6. Departures'
  <2>1. \A u \in Threads : pc'[u].at = "remove" => pc[u].at = "remove" /\ pc'[u].todo = pc[u].todo
    BY <1>g
  <2>. QED  BY <1>e, <2>1 DEF ChannelInvariant, Departures
<1>7. Walkers'
  <2> SUFFICES ASSUME NEW u \in Threads
               PROVE  /\ pc'[u].at = "send" => sent[u] > 0
                      /\ pc'[u].held # {} => /\ pc'[u].at = "send" /\ pc'[u].todo # <<>>
                                             /\ pc'[u].held = {Head(pc'[u].todo)}
    BY DEF Walkers
  <2>. QED  BY <1>b, <1>d DEF ChannelInvariant, Walkers
<1>. QED  BY <1>1, <1>2, <1>3, <1>4, <1>5, <1>6, <1>7 DEF ChannelInvariant

\* A message that a consumer accepts comes after what the consumer has, and the
\* sender's messages in between are there.
LEMMA PushInOrder ==
    ASSUME ChannelInvariant, NEW t \in Threads, NEW c \in Consumers, NEW u \in Threads,
           Attached(c), Awaits(c, t), sent[t] > 0,
           got'[c] = Append(got[c], Message(t))
    PROVE  InOrder(c, u)'
<1>0. /\ got[c] \in Seq(AnyMessage) /\ Len(got[c]) \in Nat
      /\ DOMAIN got[c] = 1..Len(got[c])
      /\ sent[t] \in 1..MaxMessages
  BY LenProperties, ChannelAssumption
  DEF ChannelInvariant, WalkIsStable, ChannelTypeOK
<1>1. Message(t) \in AnyMessage /\ Message(t).from = t /\ Message(t).n = sent[t]
  BY <1>0 DEF Message, AnyMessage
<1>2. PICK m \in Nat : m = Len(got[c])
  BY <1>0
<1>3. /\ DOMAIN got'[c] = 1..m + 1
      /\ \A i \in 1..m : got'[c][i] = got[c][i]
      /\ got'[c][m + 1] = Message(t)
  BY <1>0, <1>1, <1>2, AppendProperties, LenProperties
<1>4. UpToDate(c, u) /\ InOrder(c, u)
  BY DEF ChannelInvariant, KeepsUp, NoGapsNoDuplicates
<1>5. SUFFICES ASSUME NEW i \in 1..m + 1, NEW j \in 1..m + 1, i < j,
                      got'[c][i].from = u, got'[c][j].from = u
               PROVE  /\ got'[c][i].n < got'[c][j].n
                      /\ \A n \in got'[c][i].n + 1 .. got'[c][j].n - 1 :
                           \/ is_rejected(c, [from |-> u, n |-> n])
                           \/ \E k \in i+1 .. j-1 : got'[c][k] = [from |-> u, n |-> n]
  BY <1>3 DEF InOrder, is_rejected
<1>6. i \in 1..m /\ i \in DOMAIN got[c] /\ got'[c][i] = got[c][i] /\ got[c][i].n \in Nat
  <2>1. i \in 1..m
    BY <1>5
  <2>2. got[c][i].n \in Nat
    BY <1>0, <1>2, <2>1, MessagesAre DEF ChannelInvariant, WalkIsStable
  <2>. QED  BY <1>0, <1>2, <1>3, <2>1, <2>2
<1>7. CASE j \in 1..m
  <2>1. got'[c][j] = got[c][j] /\ j \in DOMAIN got[c]
    BY <1>0, <1>2, <1>3, <1>7
  <2>2. /\ got[c][i].n < got[c][j].n
        /\ \A n \in got[c][i].n + 1 .. got[c][j].n - 1 :
             \/ is_rejected(c, [from |-> u, n |-> n])
             \/ \E k \in i+1 .. j-1 : got[c][k] = [from |-> u, n |-> n]
    BY <1>4, <1>5, <1>6, <2>1 DEF InOrder
  <2>3. \A k \in i+1 .. j-1 : got'[c][k] = got[c][k]
    <3>1. \A k \in i+1 .. j-1 : k \in 1..m
      BY <1>6, <1>7
    <3>. QED  BY <1>3, <3>1
  <2>. QED  BY <1>6, <2>1, <2>2, <2>3
<1>8. CASE j = m + 1
  <2>1. u = t /\ got'[c][j].n = sent[t]
    BY <1>1, <1>3, <1>5, <1>8
  <2>2. got[c][i].n < sent[t]
    BY <1>4, <1>5, <1>6, <2>1 DEF UpToDate
  <2>3. ASSUME NEW n \in got[c][i].n + 1 .. sent[t] - 1
        PROVE  \/ is_rejected(c, [from |-> u, n |-> n])
               \/ \E k \in i+1 .. j-1 : got'[c][k] = [from |-> u, n |-> n]
    <3>1. n \in got[c][i].n + 1 .. sent[t] /\ n # sent[t]
      BY <1>0, <1>6
    <3>2. \/ is_rejected(c, [from |-> u, n |-> n])
          \/ \E k \in DOMAIN got[c] : k > i /\ got[c][k] = [from |-> u, n |-> n]
      BY <1>4, <1>5, <1>6, <2>1, <3>1 DEF UpToDate
    <3>3. ASSUME NEW k \in DOMAIN got[c], k > i
          PROVE  k \in i+1 .. j-1 /\ got'[c][k] = got[c][k]
      BY <1>0, <1>2, <1>3, <1>8, <3>3
    <3>. QED  BY <3>2, <3>3
  <2>. QED  BY <1>6, <2>1, <2>2, <2>3
<1>. QED  BY <1>2, <1>7, <1>8

\* The consumer that has just got the message, or did not want it, is up to date.
LEMMA PushKeepsUp ==
    ASSUME ChannelInvariant, NEW t \in Threads, NEW c \in Consumers, NEW u \in Threads,
           Attached(c), Awaits(c, t), sent[t] > 0,
           UNCHANGED <<sent, _collection>>,
           ~Awaits(c, t)', u # t => pc'[u] = pc[u],
           IF is_rejected(c, Message(t)) THEN got'[c] = got[c]
           ELSE got'[c] = Append(got[c], Message(t))
    PROVE  UpToDate(c, u)'
<1>0. /\ got[c] \in Seq(AnyMessage) /\ Len(got[c]) \in Nat
      /\ DOMAIN got[c] = 1..Len(got[c])
      /\ sent[t] \in 1..MaxMessages /\ sent[u] \in Nat
  BY LenProperties, ChannelAssumption
  DEF ChannelInvariant, WalkIsStable, ChannelTypeOK
<1>1. Message(t) \in AnyMessage /\ Message(t) = [from |-> t, n |-> sent[t]]
  BY <1>0 DEF Message, AnyMessage
<1>2. UpToDate(c, u)
  BY DEF ChannelInvariant, KeepsUp
<1>3. Attached(c)' <=> Attached(c)
  BY DEF Attached
<1>4. u # t => (Awaits(c, u)' <=> Awaits(c, u))
  BY DEF Awaits
<1>5. pc[t].at \notin {"crashed", "stuck"}
  BY DEF Awaits
<1>6. CASE is_rejected(c, Message(t))
  <2>1. got'[c] = got[c]
    BY <1>6
  <2>2. CASE u # t
    BY <1>2, <1>3, <1>4, <2>1, <2>2 DEF UpToDate, is_rejected
  <2>3. CASE u = t
    <3>1. is_rejected(c, [from |-> t, n |-> sent[t]])
      BY <1>1, <1>6
    <3>. QED  BY <1>2, <1>3, <1>5, <2>1, <2>3, <3>1 DEF UpToDate, is_rejected
  <2>. QED  BY <2>2, <2>3
<1>7. CASE ~is_rejected(c, Message(t))
  <2>1. PICK m \in Nat : m = Len(got[c]) /\ DOMAIN got[c] = 1..m
    BY <1>0
  <2>2. /\ DOMAIN got'[c] = 1..m + 1
        /\ \A i \in 1..m : got'[c][i] = got[c][i]
        /\ got'[c][m + 1] = [from |-> t, n |-> sent[t]]
    BY <1>0, <1>1, <1>7, <2>1, AppendProperties, LenProperties
  <2>3. SUFFICES ASSUME NEW i \in 1..m + 1, got'[c][i].from = u
                 PROVE  /\ got'[c][i].n <= sent[u]
                        /\ Awaits(c, u)' => got'[c][i].n < sent[u]
                        /\ Attached(c) => \A n \in got'[c][i].n + 1 .. sent[u] :
                             \/ is_rejected(c, [from |-> u, n |-> n])
                             \/ \E k \in 1..m + 1 : k > i /\ got'[c][k] = [from |-> u, n |-> n]
                             \/ n = sent[u] /\ (Awaits(c, u)' \/ pc'[u].at \in {"crashed", "stuck"})
    BY <1>3, <2>2 DEF UpToDate, is_rejected
  <2>4. CASE i = m + 1
    <3>1. u = t /\ got'[c][i].n = sent[t]
      BY <2>2, <2>3, <2>4
    <3>2. \A n \in sent[t] + 1 .. sent[t] : FALSE
      BY <1>0
    <3>. QED  BY <1>0, <3>1, <3>2
  <2>5. CASE i \in 1..m
    <3>1. got'[c][i] = got[c][i] /\ i \in DOMAIN got[c]
      BY <2>1, <2>2, <2>5
    <3>2. /\ got[c][i].n <= sent[u]
          /\ Awaits(c, u) => got[c][i].n < sent[u]
          /\ \A n \in got[c][i].n + 1 .. sent[u] :
               \/ is_rejected(c, [from |-> u, n |-> n])
               \/ \E k \in DOMAIN got[c] : k > i /\ got[c][k] = [from |-> u, n |-> n]
               \/ n = sent[u] /\ (Awaits(c, u) \/ pc[u].at \in {"crashed", "stuck"})
      BY <1>2, <2>3, <3>1 DEF UpToDate
    <3>3. ASSUME NEW k \in DOMAIN got[c]
          PROVE  k \in 1..m + 1 /\ got'[c][k] = got[c][k]
      BY <2>1, <2>2
    <3>4. m + 1 \in 1..m + 1 /\ m + 1 > i
      BY <2>5
    <3>5. CASE u = t
      BY <1>5, <2>2, <3>1, <3>2, <3>3, <3>4, <3>5
    <3>6. CASE u # t
      BY <1>4, <3>1, <3>2, <3>3, <3>6
    <3>. QED  BY <3>5, <3>6
  <2>. QED  BY <2>4, <2>5
<1>. QED  BY <1>6, <1>7

\* ChannelSingleQueue::send on the consumer whose turn it is, and the end of the
\* copy of its shared_ptr.
LEMMA QueueSendStep ==
    ASSUME ChannelInvariant, NEW t \in Threads, queue_send(t)
    PROVE  ChannelInvariant'
<1>0. ChannelTypeOK
  BY DEF ChannelInvariant, WalkIsStable
<1>a. /\ pc[t].at = "send" /\ pc[t].held # {}
      /\ UNCHANGED <<_lock, _collection, collection_ptr, owners, sent>>
  BY DEF queue_send
<1>b. /\ pc[t].todo # <<>> /\ pc[t].held = {Head(pc[t].todo)} /\ sent[t] > 0
  BY <1>a DEF ChannelInvariant, Walkers
<1>c. PICK c \in Consumers :
      /\ c = Head(pc[t].todo) /\ Attached(c) /\ Awaits(c, t)
      /\ Tail(pc[t].todo) \in Seq(Consumers)
      /\ \A d : (\E i \in DOMAIN Tail(pc[t].todo) : Tail(pc[t].todo)[i] = d)
                 <=> Awaits(d, t) /\ d # c
      /\ \E k \in 0..Len(_collection) :
           Tail(pc[t].todo) = SubSeq(_collection, k + 1, Len(_collection))
  BY <1>a, <1>b, NextInLine
<1>d. /\ IF is_rejected(c, Message(t)) THEN UNCHANGED <<_queue, got>>
         ELSE /\ _queue' = [_queue EXCEPT ![c] = Append(@, Message(t))]
              /\ got' = [got EXCEPT ![c] = Append(@, Message(t))]
      /\ pc' = [pc EXCEPT ![t] = after_push(t, c)]
  BY <1>b, <1>c DEF queue_send
<1>e. Message(t) \in AnyMessage
  <2>1. sent[t] \in 1..MaxMessages
    BY <1>0, <1>b, ChannelAssumption DEF ChannelTypeOK
  <2>. QED  BY <2>1 DEF Message, AnyMessage
<1>f. /\ \A u \in Threads : u # t => pc'[u] = pc[u]
      /\ pc'[t] = after_push(t, c)
  BY <1>0, <1>d DEF ChannelTypeOK
<1>g. /\ pc'[t].held = {}
      /\ \/ pc'[t].at = "stuck" /\ pc'[t].todo = <<>>
         \/ pc'[t].at = "send" /\ pc'[t].todo = Tail(pc[t].todo)
  BY <1>f DEF after_push
<1>h. pc' \in [Threads -> [at   : {"idle", "send", "remove", "crashed", "stuck"},
                              todo : Seq(Consumers),
                              held : SUBSET Consumers]]
  <2>1. after_push(t, c) \in [at   : {"idle", "send", "remove", "crashed", "stuck"},
                              todo : Seq(Consumers),
                              held : SUBSET Consumers]
    BY <1>c DEF after_push
  <2>. QED  BY <1>0, <1>d, <2>1 DEF ChannelTypeOK
<1>i. /\ \A d \in Consumers : d # c => got'[d] = got[d] /\ _queue'[d] = _queue[d]
      /\ IF is_rejected(c, Message(t)) THEN got'[c] = got[c] /\ _queue'[c] = _queue[c]
         ELSE got'[c] = Append(got[c], Message(t)) /\ _queue'[c] = Append(_queue[c], Message(t))
  BY <1>0, <1>c, <1>d DEF ChannelTypeOK
<1>j. got' \in [Consumers -> Seq(AnyMessage)] /\ _queue' \in [Consumers -> Seq(AnyMessage)]
  <2>1. /\ got[c] \in Seq(AnyMessage) /\ _queue[c] \in Seq(AnyMessage)
    BY <1>0, <1>c DEF ChannelTypeOK
  <2>2. /\ Append(got[c], Message(t)) \in Seq(AnyMessage)
        /\ Append(_queue[c], Message(t)) \in Seq(AnyMessage)
    BY <1>e, <2>1, AppendProperties
  <2>. QED  BY <1>0, <1>c, <1>d, <2>2 DEF ChannelTypeOK
<1>k. \A d : Attached(d)' <=> Attached(d)
  BY <1>a DEF Attached
<1>l. \A d \in Consumers : holders(d)' \subseteq holders(d)
  BY <1>a, <1>f, <1>g DEF holders
<1>m. \A u \in Threads : pc'[u].at = "remove" => u # t /\ pc'[u] = pc[u]
  BY <1>f, <1>g
<1>n. /\ ~Awaits(c, t)'
      /\ \A d : d # c => /\ Awaits(d, t)' => Awaits(d, t)
                         /\ Awaits(d, t) => Awaits(d, t)' \/ pc'[t].at = "stuck"
      /\ \A d, u : u \in Threads /\ u # t => (Awaits(d, u)' <=> Awaits(d, u))
  <2>1. ASSUME NEW d
        PROVE  Awaits(d, t)' <=> pc'[t].at = "send" /\ Awaits(d, t) /\ d # c
    <3>1. CASE pc'[t].at = "stuck"
      BY <3>1 DEF Awaits
    <3>2. CASE pc'[t].at = "send" /\ pc'[t].todo = Tail(pc[t].todo)
      <4>1. Awaits(d, t)' <=> \E i \in DOMAIN Tail(pc[t].todo) : Tail(pc[t].todo)[i] = d
        BY <3>2, Zenon DEF Awaits
      <4>. QED  BY <1>c, <3>2, <4>1, Zenon
    <3>. QED  BY <1>g, <3>1, <3>2
  <2>2. \A d, u : u \in Threads /\ u # t => (Awaits(d, u)' <=> Awaits(d, u))
    BY <1>f DEF Awaits
  <2>3. pc'[t].at \in {"send", "stuck"}
    BY <1>g
  <2>. QED  BY <2>1, <2>2, <2>3
<1>1. WalkIsStable'
  <2>1. ChannelTypeOK'
    <3>1. \A u \in Threads : (_lock' = u) <=> (pc'[u].at \in {"send", "crashed", "stuck"})
      BY <1>0, <1>a, <1>f, <1>g DEF ChannelTypeOK
    <3>. QED  BY <1>0, <1>a, <1>h, <1>j, <3>1 DEF ChannelTypeOK
  <2>2. ASSUME NEW u \in Threads, pc'[u].at = "send"
        PROVE  \E k \in 0..Len(_collection) :
                 pc'[u].todo = SubSeq(_collection, k + 1, Len(_collection))
    <3>1. CASE u = t
      BY <1>c, <1>g, <2>2, <3>1
    <3>2. CASE u # t
      BY <1>f, <2>2, <3>2 DEF ChannelInvariant, WalkIsStable
    <3>. QED  BY <3>1, <3>2
  <2>. QED  BY <1>a, <2>1, <2>2 DEF WalkIsStable
<1>2. UsedConsumerLives'
  <2> SUFFICES ASSUME NEW d \in Consumers, NEW v \in Threads,
                      pc'[v].at = "remove", pc'[v].todo = <<d>>
               PROVE  holders(d)' = {}
    BY DEF UsedConsumerLives
  <2>1. v # t /\ pc'[v] = pc[v]
    BY <1>m
  <2>. QED  BY <1>l, <2>1 DEF ChannelInvariant, UsedConsumerLives
<1>3. NoGapsNoDuplicates'
  <2>1. ASSUME NEW d \in Consumers PROVE QueuedIsLast(d)'
    <3>1. QueuedIsLast(d)
      BY DEF ChannelInvariant, NoGapsNoDuplicates
    <3>2. CASE got'[d] = got[d] /\ _queue'[d] = _queue[d]
      BY <3>1, <3>2 DEF QueuedIsLast
    <3>3. CASE got'[d] = Append(got[d], Message(t)) /\ _queue'[d] = Append(_queue[d], Message(t))
      <4>1. PICK k \in 0..Len(got[d]) : _queue[d] = SubSeq(got[d], k + 1, Len(got[d]))
        BY <3>1 DEF QueuedIsLast
      <4>2. got[d] \in Seq(AnyMessage)
        BY <1>0 DEF ChannelTypeOK
      <4>3. _queue'[d] = SubSeq(got'[d], k + 1, Len(got'[d]))
        BY <1>e, <3>3, <4>1, <4>2, SuffixAppend
      <4>4. k \in 0..Len(got'[d])
        <5>1. Len(got'[d]) = Len(got[d]) + 1 /\ Len(got[d]) \in Nat
          BY <1>e, <3>3, <4>2, AppendProperties, LenProperties
        <5>. QED  BY <5>1
      <4>. QED  BY <4>3, <4>4 DEF QueuedIsLast
    <3>. QED  BY <1>i, <3>2, <3>3
  <2>2. ASSUME NEW d \in Consumers, NEW u \in Threads PROVE InOrder(d, u)'
    <3>1. InOrder(d, u)
      BY DEF ChannelInvariant, NoGapsNoDuplicates
    <3>2. CASE got'[d] = got[d]
      BY <3>1, <3>2 DEF InOrder, is_rejected
    <3>3. CASE d = c /\ got'[c] = Append(got[c], Message(t))
      BY <1>b, <1>c, <3>3, PushInOrder
    <3>. QED  BY <1>i, <3>2, <3>3
  <2>. QED  BY <2>1, <2>2 DEF NoGapsNoDuplicates
<1>4. KeepsUp'
  <2> SUFFICES ASSUME NEW d \in Consumers, NEW u \in Threads PROVE UpToDate(d, u)'
    BY DEF KeepsUp
  <2>1. CASE d = c
    <3>1. IF is_rejected(c, Message(t)) THEN got'[c] = got[c]
          ELSE got'[c] = Append(got[c], Message(t))
      BY <1>i
    <3>2. u # t => pc'[u] = pc[u]
      BY <1>f
    <3>3. UNCHANGED <<sent, _collection>> /\ ~Awaits(c, t)'
      BY <1>a, <1>n
    <3>4. UpToDate(c, u)'
      BY <1>b, <1>c, <3>1, <3>2, <3>3, PushKeepsUp
    <3>. QED  BY <2>1, <3>4
  <2>2. CASE d # c
    <3>1. UpToDate(d, u) /\ got'[d] = got[d] /\ sent' = sent
      BY <1>a, <1>i, <2>2 DEF ChannelInvariant, KeepsUp
    <3>2. /\ Awaits(d, u)' => Awaits(d, u)
          /\ Awaits(d, u) => Awaits(d, u)' \/ pc'[u].at \in {"crashed", "stuck"}
          /\ pc[u].at \in {"crashed", "stuck"} => pc'[u].at \in {"crashed", "stuck"}
      BY <1>a, <1>f, <1>n, <2>2
    <3>. QED  BY <1>k, <3>1, <3>2 DEF UpToDate, is_rejected
  <2>. QED  BY <2>1, <2>2
<1>5. OnceOnly'
  BY <1>a DEF ChannelInvariant, OnceOnly
<1>6. Departures'
  <2>1. \A u \in Threads : pc'[u].at = "remove" => pc[u].at = "remove" /\ pc'[u].todo = pc[u].todo
    BY <1>m
  <2>. QED  BY <1>a, <1>k, <2>1 DEF ChannelInvariant, Departures
<1>7. Walkers'
  BY <1>a, <1>b, <1>f, <1>g DEF ChannelInvariant, Walkers
<1>. QED  BY <1>1, <1>2, <1>3, <1>4, <1>5, <1>6, <1>7 DEF ChannelInvariant

\* Every step of every thread preserves the invariant.
LEMMA NextInvariant == ChannelInvariant /\ [ChannelNext]_channel_vars => ChannelInvariant'
<1> SUFFICES ASSUME ChannelInvariant, [ChannelNext]_channel_vars PROVE ChannelInvariant'
  OBVIOUS
<1>1. ASSUME NEW t \in Threads, send(t) PROVE ChannelInvariant'
  BY <1>1, SendStep
<1>2. ASSUME NEW t \in Threads, sending(t) PROVE ChannelInvariant'
  BY <1>2, SendNextStep, QueueSendStep, SendReturnsStep DEF sending
<1>3. ASSUME NEW t \in Threads, remove(t) \/ remove_all(t) PROVE ChannelInvariant'
  BY <1>3, RemoveStep, RemoveAllStep
<1>4. ASSUME NEW t \in Threads, NEW c \in Consumers,
             create_consumer(t, c) \/ release(t, c) \/ receive(t, c)
      PROVE  ChannelInvariant'
  BY <1>4, CreateStep, ReleaseStep, ReceiveStep
<1>5. ASSUME NEW t \in Threads, NEW u \in Threads, NEW c \in Consumers, share(t, u, c)
      PROVE  ChannelInvariant'
  BY <1>5, ShareStep
<1>6. CASE UNCHANGED channel_vars
  <2> USE <1>6 DEF channel_vars
  <2>1. WalkIsStable'
    BY DEF ChannelInvariant, WalkIsStable, ChannelTypeOK
  <2>2. UsedConsumerLives'
    BY DEF ChannelInvariant, UsedConsumerLives, holders
  <2>3. NoGapsNoDuplicates'
    BY QueuesStay
  <2>4. KeepsUp'
    BY DEF ChannelInvariant, KeepsUp, UpToDate, is_rejected, Awaits, Attached
  <2>5. OnceOnly' /\ Departures' /\ Walkers'
    BY DEF ChannelInvariant, OnceOnly, Departures, Walkers, Attached
  <2>. QED  BY <2>1, <2>2, <2>3, <2>4, <2>5 DEF ChannelInvariant
<1>. QED  BY <1>1, <1>2, <1>3, <1>4, <1>5, <1>6 DEF ChannelNext

-----------------------------------------------------------------------------
(* What holds of every channel. *)

\* The inductive invariant holds for any threads and consumers.
THEOREM ChannelInvariantHolds == ChannelSpec => []ChannelInvariant
BY InitInvariant, NextInvariant, PTL DEF ChannelSpec

\* WeakVector's mutex protects the walk of ChannelMultiQueue::send over its
\* consumers, whatever the other threads create, share, release and send.
THEOREM StableWalk == ChannelSpec => []WalkIsStable
<1>1. ChannelInvariant => WalkIsStable
  BY DEF ChannelInvariant
<1>. QED  BY <1>1, ChannelInvariantHolds, PTL

\* No consumer takes itself off the vector while a shared_ptr to it exists.
THEOREM ConsumersLive == ChannelSpec => []UsedConsumerLives
<1>1. ChannelInvariant => UsedConsumerLives
  BY DEF ChannelInvariant
<1>. QED  BY <1>1, ChannelInvariantHolds, PTL

\* Every consumer gets what each thread sends in order, without a gap that its
\* filter did not make and without a duplicate.
THEOREM Delivery == ChannelSpec => []NoGapsNoDuplicates
<1>1. ChannelInvariant => NoGapsNoDuplicates
  BY DEF ChannelInvariant
<1>. QED  BY <1>1, ChannelInvariantHolds, PTL

-----------------------------------------------------------------------------
(* Connections. *)

\* What the handlers and the loop do to the channel are steps of the channel.
LEMMA ChannelStep == [Next]_vars => [ChannelNext]_channel_vars
<1> SUFFICES ASSUME [Next]_vars PROVE [ChannelNext]_channel_vars
  OBVIOUS
<1>0. Strand \in Threads /\ Loop \in Threads /\ Queue \in Consumers
  BY ConnectionAssumption
<1>1. CASE UNCHANGED channel_vars
  BY <1>1
<1>2. CASE \/ create_consumer(Strand, Queue) \/ release(Strand, Queue) \/ release(Loop, Queue)
           \/ receive(Loop, Queue) \/ share(Strand, Loop, Queue)
  BY <1>0, <1>2 DEF ChannelNext
<1>3. CASE \/ send(Strand) \/ sending(Strand) \/ \E t \in Threads : remove(t)
  BY <1>0, <1>3 DEF ChannelNext
<1>4. CASE UNCHANGED vars
  BY <1>4 DEF vars, channel_vars
<1>5. Accepting => UNCHANGED channel_vars \/ create_consumer(Strand, Queue)
  BY DEF Accepting, _on_async_accept, _on_async_accept_websocket, make_connection,
         emplace_client, add_user
<1>6. Handlers => UNCHANGED channel_vars
  BY DEF Handlers, _on_async_read, _handle_error
<1>7. Calls => UNCHANGED channel_vars \/ send(Strand) \/ sending(Strand) \/ release(Strand, Queue)
  BY DEF Calls, emit, emit_returns, queue_packet, sending_packet, forward, disconnect,
         erase_client, disconnect_returns
<1>8. LoopSteps => \/ UNCHANGED channel_vars \/ share(Strand, Loop, Queue)
                   \/ receive(Loop, Queue) \/ release(Loop, Queue)
  BY DEF LoopSteps, process_disconnections, copy_clients, process_packet, drop_queue, drop_client
<1>9. disassociate => \E t \in Threads : remove(t)
  BY DEF disassociate
<1>. QED  BY <1>1, <1>2, <1>3, <1>4, <1>5, <1>6, <1>7, <1>8, <1>9 DEF Next

\* So a connection's channel behaves as module Channel says.
THEOREM ConnectionRefinesChannel == Spec => ChannelSpec
<1>1. Init => ChannelInit
  BY DEF Init
<1>. QED  BY <1>1, ChannelStep, PTL DEF Spec, ChannelSpec

-----------------------------------------------------------------------------
(* The invariant. *)

\* A sequence of one element is given by it.
LEMMA OneLong ==
    ASSUME NEW S, NEW s \in Seq(S), NEW r \in Seq(S), Len(s) = 1, Len(r) = 1, s[1] = r[1]
    PROVE  s = r
<1>1. \A i \in 1..Len(s) : s[i] = r[i]
  OBVIOUS
<1>. QED  BY <1>1, SeqEqual

\* The same for two elements.
LEMMA TwoLong ==
    ASSUME NEW S, NEW s \in Seq(S), NEW r \in Seq(S), Len(s) = 2, Len(r) = 2,
           s[1] = r[1], s[2] = r[2]
    PROVE  s = r
<1>1. \A i \in 1..Len(s) : s[i] = r[i]
  <2>1. \A i \in 1..2 : i = 1 \/ i = 2
    OBVIOUS
  <2>. QED  BY <2>1
<1>. QED  BY <1>1, SeqEqual

\* What they begin with, end with and become.
LEMMA ShortSequences ==
    /\ \A l : Head(<<l>>) = l /\ Tail(<<l>>) = <<>> /\ <<l>> # <<>>
    /\ \A l, m : Head(<<l, m>>) = l /\ Tail(<<l, m>>) = <<m>> /\ <<l, m>> # <<>>
    /\ \A a, b : Append(<<a>>, b) = <<a, b>>
    /\ \A a : SubSeq(<<a>>, 1, 0) = <<>>
    /\ \A a, b : SubSeq(<<a, b>>, 1, 1) = <<a>>
<1>1. \A l : Head(<<l>>) = l /\ Tail(<<l>>) = <<>> /\ <<l>> # <<>>
  OBVIOUS
<1>2. \A l, m : Head(<<l, m>>) = l /\ Tail(<<l, m>>) = <<m>> /\ <<l, m>> # <<>>
  OBVIOUS
<1>3. ASSUME NEW a, NEW b PROVE Append(<<a>>, b) = <<a, b>>
  <2> DEFINE S == {a, b}
  <2>1. /\ <<a>> \in Seq(S) /\ Len(<<a>>) = 1 /\ <<a>>[1] = a /\ b \in S
        /\ <<a, b>> \in Seq(S) /\ Len(<<a, b>>) = 2 /\ <<a, b>>[1] = a /\ <<a, b>>[2] = b
    OBVIOUS
  <2>2. /\ Append(<<a>>, b) \in Seq(S) /\ Len(Append(<<a>>, b)) = 1 + 1
        /\ \A i \in 1..1 : Append(<<a>>, b)[i] = <<a>>[i]
        /\ Append(<<a>>, b)[1 + 1] = b
    BY <2>1, AppendProperties
  <2> HIDE DEF S
  <2>3. /\ Append(<<a>>, b) \in Seq(S) /\ Len(Append(<<a>>, b)) = 2
        /\ Append(<<a>>, b)[1] = a /\ Append(<<a>>, b)[2] = b
    <3>1. 1 \in 1..1 /\ 1 + 1 = 2
      OBVIOUS
    <3>. QED  BY <2>1, <2>2, <3>1, Zenon
  <2>. QED  BY <2>1, <2>3, TwoLong
<1>4. \A a : SubSeq(<<a>>, 1, 0) = <<>>
  OBVIOUS
<1>5. ASSUME NEW a, NEW b PROVE SubSeq(<<a, b>>, 1, 1) = <<a>>
  <2> DEFINE S == {a, b}
  <2>1. /\ <<a, b>> \in Seq(S) /\ Len(<<a, b>>) = 2 /\ <<a, b>>[1] = a
        /\ a \in S /\ <<a>> \in Seq(S) /\ Len(<<a>>) = 1 /\ <<a>>[1] = a
    OBVIOUS
  <2>2. \A i \in 1..1 : <<a, b>>[i] \in S
    BY <2>1
  <2>3. /\ SubSeq(<<a, b>>, 1, 1) \in Seq(S)
        /\ Len(SubSeq(<<a, b>>, 1, 1)) = IF 1 <= 1 THEN 1 - 1 + 1 ELSE 0
        /\ \A i \in 1..1 - 1 + 1 : SubSeq(<<a, b>>, 1, 1)[i] = <<a, b>>[1 + i - 1]
    BY <2>1, <2>2, SubSeqProperties
  <2>4. /\ 1 - 1 + 1 = 1 /\ 1 + 1 - 1 = 1 /\ 1 <= 1 /\ 1 \in 1..1
    OBVIOUS
  <2> HIDE DEF S
  <2>5. /\ Len(SubSeq(<<a, b>>, 1, 1)) = 1 /\ SubSeq(<<a, b>>, 1, 1)[1] = a
    BY <2>1, <2>3, <2>4, Zenon
  <2>. QED  BY <2>1, <2>3, <2>5, OneLong
<1>. QED  BY <1>1, <1>2, <1>3, <1>4, <1>5

\* An emission after one of its listeners.
LEMMA EmittingNext ==
    ASSUME NEW s, NEW w, NEW x
    PROVE  Emitting(s, w).todo = w /\ [Emitting(s, w) EXCEPT !.todo = x] = Emitting(s, x)
BY DEF Emitting

\* A stack of one signal, and what becomes of it.
LEMMA OneCall ==
    ASSUME NEW s, NEW w, calls = <<Emitting(s, w)>>
    PROVE  /\ calls # <<>> /\ calls[Len(calls)].todo = w
           /\ called = <<Emitting(s, Tail(w))>>
           /\ SubSeq(calls, 1, Len(calls) - 1) = <<>>
<1>1. Len(calls) = 1 /\ calls[1] = Emitting(s, w) /\ 1 - 1 = 0
  OBVIOUS
<1>2. Emitting(s, w).todo = w /\ [Emitting(s, w) EXCEPT !.todo = Tail(@)] = Emitting(s, Tail(w))
  BY EmittingNext, Zenon
<1>3. called = [calls EXCEPT ![1] = Emitting(s, Tail(w))]
  BY <1>1, <1>2 DEF called
<1>4. called = <<Emitting(s, Tail(w))>>
  BY <1>3
<1>. QED  BY <1>1, <1>2, <1>4, ShortSequences

\* A signal that is emitted by a listener of another.
LEMMA TwoCalls ==
    ASSUME NEW r, NEW v, NEW s, NEW w, calls = <<Emitting(r, v), Emitting(s, w)>>
    PROVE  /\ calls # <<>> /\ calls[Len(calls)].todo = w
           /\ called = <<Emitting(r, v), Emitting(s, Tail(w))>>
           /\ SubSeq(calls, 1, Len(calls) - 1) = <<Emitting(r, v)>>
<1>1. Len(calls) = 2 /\ calls[2] = Emitting(s, w) /\ 2 - 1 = 1
  OBVIOUS
<1>2. Emitting(s, w).todo = w /\ [Emitting(s, w) EXCEPT !.todo = Tail(@)] = Emitting(s, Tail(w))
  BY EmittingNext, Zenon
<1>3. called = [calls EXCEPT ![2] = Emitting(s, Tail(w))]
  BY <1>1, <1>2 DEF called
<1>4. called = <<Emitting(r, v), Emitting(s, Tail(w))>>
  BY <1>3
<1>. QED  BY <1>1, <1>2, <1>4, ShortSequences

\* What a connection that is made listens to.
LEMMA Listening ==
    ASSUME listeners = attached
    PROVE  /\ Emission("on_data") = Emitting("on_data", <<"receive">>)
           /\ Emission("on_error") = Emitting("on_error", <<"forward_error">>)
           /\ Emission("on_close") = Emitting("on_close", <<"forward_close">>)
           /\ Emission("on_message") = Emitting("on_message", <<"queue">>)
           /\ Emission("adapter_on_error") = Emitting("adapter_on_error", <<>>)
           /\ Emission("adapter_on_close") = Emitting("adapter_on_close", <<"lost">>)
BY DEF Emission, Emitting, attached

\* Initially nothing is accepted.
LEMMA ConnectionInit == Init => ConnectionInvariant
<1> SUFFICES ASSUME Init PROVE ConnectionInvariant
  OBVIOUS
<1>1. ChannelInvariant
  BY InitInvariant DEF Init
<1>2. pc[Strand] = Idle /\ _collection = <<>> /\ got[Queue] = <<>>
  BY ConnectionAssumption DEF Init, ChannelInit
<1>. QED  BY <1>1, <1>2 DEF Init, ConnectionInvariant, BeforeOpen, IsHeld, ClientIsServed

\* While a packet is on its way the strand is in a listener for it.
LEMMA FlightShapes ==
    ASSUME InFlight, calls # <<>>, pc[Strand] = Idle
    PROVE  /\ emits = <<>>
           /\ \/ /\ calls[Len(calls)].todo = <<"receive">>
                 /\ called = <<Emitting("on_data", <<>>)>>
              \/ /\ calls[Len(calls)].todo = <<"queue">>
                 /\ called = <<Emitting("on_data", <<>>), Emitting("on_message", <<>>)>>
<1>0. SUFFICES \/ /\ calls[Len(calls)].todo = <<"receive">>
                  /\ called = <<Emitting("on_data", <<>>)>>
               \/ /\ calls[Len(calls)].todo = <<"queue">>
                  /\ called = <<Emitting("on_data", <<>>), Emitting("on_message", <<>>)>>
  <2>1. pc[Strand].at = "idle"
    BY DEF Idle
  <2>. QED  BY <2>1 DEF InFlight
<1>1. pc[Strand].at = "idle"
  BY DEF Idle
<1>2. CASE calls = <<Emitting("on_data", <<"receive">>)>>
  <2>1. Tail(<<"receive">>) = <<>>
    OBVIOUS
  <2>. QED  BY <1>2, <2>1, OneCall, Zenon
<1>3. CASE calls = <<Emitting("on_data", <<>>), Emitting("on_message", <<"queue">>)>>
  <2>1. Tail(<<"queue">>) = <<>>
    OBVIOUS
  <2>. QED  BY <1>3, <2>1, TwoCalls, Zenon
<1>. QED  BY <1>1, <1>2, <1>3 DEF InFlight

\* Otherwise it returns from one, or tells of an error or of the close.
LEMMA SettledShapes ==
    ASSUME Settled, calls # <<>>, pc[Strand] = Idle
    PROVE  LET top  == calls[Len(calls)].todo
               rest == SubSeq(calls, 1, Len(calls) - 1)
           IN  \/ emits = <<>> /\ top = <<>> /\ rest \in {<<>>, <<Emitting("on_data", <<>>)>>}
               \/ /\ emits = <<>> /\ top = <<"forward_close">>
                  /\ called = <<Emitting("on_close", <<>>)>>
               \/ emits = <<>> /\ top = <<"lost">>
               \/ /\ emits = <<"on_close">> /\ top = <<"forward_error">>
                  /\ called = <<Emitting("on_error", <<>>)>>
               \/ /\ emits = <<"on_close">> /\ top = <<>>
                  /\ rest \in {<<>>, <<Emitting("on_error", <<>>)>>}
<1>0. pc[Strand].at = "idle"
  BY DEF Idle
<1>1. CASE calls = <<Emitting("on_data", <<>>), Emitting("on_message", <<>>)>> /\ emits = <<>>
  BY <1>1, TwoCalls
<1>2. CASE calls = <<Emitting("on_data", <<>>)>> /\ emits = <<>>
  BY <1>2, OneCall
<1>3. CASE calls = <<Emitting("on_close", <<"forward_close">>)>> /\ emits = <<>>
  <2>1. Tail(<<"forward_close">>) = <<>>
    OBVIOUS
  <2>. QED  BY <1>3, <2>1, OneCall, Zenon
<1>4. CASE /\ calls = <<Emitting("on_close", <<>>), Emitting("adapter_on_close", <<"lost">>)>>
           /\ emits = <<>>
  BY <1>4, TwoCalls
<1>5. CASE calls = <<Emitting("on_error", <<"forward_error">>)>> /\ emits = <<"on_close">>
  <2>1. Tail(<<"forward_error">>) = <<>>
    OBVIOUS
  <2>. QED  BY <1>5, <2>1, OneCall, Zenon
<1>6. CASE /\ calls = <<Emitting("on_error", <<>>), Emitting("adapter_on_error", <<>>)>>
           /\ emits = <<"on_close">>
  BY <1>6, TwoCalls
<1>7. CASE calls = <<Emitting("on_error", <<>>)>> /\ emits = <<"on_close">>
  BY <1>7, OneCall
<1>. QED  BY <1>0, <1>1, <1>2, <1>3, <1>4, <1>5, <1>6, <1>7 DEF Settled

\* What a step of the open connection has to keep.
LEMMA OpenStep ==
    ASSUME ConnectionInvariant, ChannelInvariant', phase = "open", phase' = "open",
           arrived' \in Nat, "user" \in refs', listeners' = listeners, ClientIsServed'
    PROVE  ConnectionInvariant'
BY DEF ConnectionInvariant, BeforeOpen, IsHeld, attached

\* Of an open connection whose client is listed.
LEMMA OpenClient ==
    ASSUME ConnectionInvariant, phase = "open", "client" \in refs
    PROVE  /\ _collection = <<Queue>> /\ Strand \in owners[Queue] /\ "user" \in refs
           /\ \/ InFlight /\ arrived = Len(got[Queue]) + 1
              \/ Settled /\ arrived = Len(got[Queue])
           /\ listeners = attached /\ arrived \in Nat
BY DEF ConnectionInvariant, ClientIsServed, IsHeld, Accounted

\* The strand does something only when the connection is open.
LEMMA BusyIsOpen ==
    ASSUME ConnectionInvariant,
           calls # <<>> \/ emits # <<>> \/ pc[Strand] # Idle
    PROVE  phase = "open" /\ "user" \in refs
BY DEF ConnectionInvariant, BeforeOpen, IsHeld

\* Accepting a connection, up to the user that keeps it.
LEMMA AcceptingStep ==
    ASSUME ConnectionInvariant, ChannelInvariant', Accepting
    PROVE  ConnectionInvariant'
<1> USE DEF ConnectionInvariant
<1>1. CASE _on_async_accept
  BY <1>1 DEF _on_async_accept, channel_vars, BeforeOpen, IsHeld, ClientIsServed
<1>2. CASE _on_async_accept_websocket
  BY <1>2 DEF _on_async_accept_websocket, channel_vars, BeforeOpen, IsHeld, ClientIsServed
<1>3. CASE make_connection
  <2> USE <1>3 DEF make_connection, channel_vars
  <2>1. listeners' = attached
    <3>1. listeners = [s \in SocketSignals \cup AdapterSignals |-> <<>>]
      BY DEF BeforeOpen
    <3>2. \A s \in SocketSignals \cup AdapterSignals : <<>> \o attached[s] = attached[s]
      BY DEF SocketSignals, AdapterSignals, attached
    <3>3. DOMAIN attached = SocketSignals \cup AdapterSignals
      BY DEF SocketSignals, AdapterSignals, attached
    <3>4. attached = [s \in SocketSignals \cup AdapterSignals |-> attached[s]]
      BY <3>3 DEF attached
    <3>5. listeners' = [s \in SocketSignals \cup AdapterSignals |-> attached[s]]
      BY <3>1, <3>2 DEF listen
    <3>. QED  BY <3>4, <3>5
  <2>. QED  BY <2>1 DEF BeforeOpen, IsHeld, ClientIsServed, attached
<1>4. CASE emplace_client
  <2> USE <1>4 DEF emplace_client, create_consumer
  <2>1. _collection' = <<Queue>>
    BY DEF BeforeOpen
  <2>2. Strand \in owners'[Queue]
    BY ConnectionAssumption DEF ChannelInvariant, WalkIsStable, ChannelTypeOK
  <2>. QED  BY <2>1, <2>2 DEF BeforeOpen, IsHeld, ClientIsServed, attached
<1>5. CASE add_user
  <2> USE <1>5 DEF add_user, channel_vars
  <2>1. Settled' /\ Len(got'[Queue]) = 0
    BY DEF BeforeOpen, Settled
  <2>. QED  BY <2>1 DEF BeforeOpen, IsHeld, ClientIsServed, attached, Accounted
<1>. QED  BY <1>1, <1>2, <1>3, <1>4, <1>5 DEF Accepting

\* What a step of the strand that leaves the vector and the client alone has to
\* keep: where the packet is.
LEMMA StrandStep ==
    ASSUME ConnectionInvariant, ChannelInvariant', phase = "open", UNCHANGED phase,
           arrived' \in Nat,
           UNCHANGED <<_collection, owners, refs, listeners>>,
           "client" \in refs => Accounted'
    PROVE  ConnectionInvariant'
<1>1. ClientIsServed'
  BY DEF ConnectionInvariant, ClientIsServed
<1>2. "user" \in refs'
  BY DEF ConnectionInvariant, IsHeld
<1>. QED  BY <1>1, <1>2, OpenStep

\* The handlers of a read and of an error begin when the strand has nothing to do.
LEMMA HandlersStep ==
    ASSUME ConnectionInvariant, ChannelInvariant', Handlers
    PROVE  ConnectionInvariant'
<1>0. /\ phase = "open" /\ calls = <<>> /\ emits = <<>> /\ pc[Strand] = Idle
      /\ arrived \in Nat
  BY DEF Handlers, _on_async_read, _handle_error, strand_free, ConnectionInvariant
<1>1. "client" \in refs => arrived = Len(got[Queue])
  <2>1. ~InFlight
    <3>1. pc[Strand].at = "idle" /\ <<>> # <<"on_data">>
      BY <1>0 DEF Idle
    <3>. QED  BY <1>0, <3>1 DEF InFlight
  <2>. QED  BY <1>0, <2>1, OpenClient
<1>2. CASE _on_async_read
  <2> USE <1>2 DEF _on_async_read, channel_vars
  <2>1. InFlight' /\ arrived' = arrived + 1
    BY <1>0 DEF InFlight
  <2>2. "client" \in refs => Accounted'
    BY <1>1, <2>1 DEF Accounted
  <2>. QED  BY <1>0, <2>1, <2>2, StrandStep
<1>3. CASE _handle_error
  <2> USE <1>3 DEF _handle_error, channel_vars
  <2>1. Settled'
    BY <1>0 DEF Settled
  <2>2. "client" \in refs => Accounted'
    BY <1>1, <2>1 DEF Accounted
  <2>. QED  BY <1>0, <2>2, StrandStep
<1>. QED  BY <1>2, <1>3 DEF Handlers

\* Signal::emit begins with a copy of the listeners.
LEMMA EmitStep ==
    ASSUME ConnectionInvariant, ChannelInvariant', emit
    PROVE  ConnectionInvariant'
<1> USE DEF emit, channel_vars
<1>0. phase = "open" /\ arrived \in Nat /\ listeners = attached
  BY BusyIsOpen DEF ConnectionInvariant, IsHeld
<1>1. ASSUME "client" \in refs
      PROVE  Accounted'
  <2>0. pc[Strand].at = "idle"
    BY DEF Idle
  <2>1. CASE InFlight /\ arrived = Len(got[Queue]) + 1
    <3>1. emits = <<"on_data">>
      BY <2>0, <2>1 DEF InFlight
    <3>2. Head(emits) = "on_data" /\ Tail(emits) = <<>>
      BY <3>1
    <3>3. calls' = <<Emitting("on_data", <<"receive">>)>> /\ emits' = <<>>
      BY <1>0, <3>2, Listening
    <3>4. InFlight'
      BY <3>3 DEF InFlight
    <3>. QED  BY <2>1, <3>4 DEF Accounted
  <2>2. CASE Settled /\ arrived = Len(got[Queue])
    <3>1. emits \in {<<"on_close">>, <<"on_error", "on_close">>}
      BY <2>0, <2>2 DEF Settled
    <3>2. CASE emits = <<"on_close">>
      <4>1. Head(emits) = "on_close" /\ Tail(emits) = <<>>
        BY <3>2
      <4>2. calls' = <<Emitting("on_close", <<"forward_close">>)>> /\ emits' = <<>>
        BY <1>0, <4>1, Listening
      <4>3. Settled'
        BY <4>2 DEF Settled
      <4>. QED  BY <2>2, <4>3 DEF Accounted
    <3>3. CASE emits = <<"on_error", "on_close">>
      <4>1. Head(emits) = "on_error" /\ Tail(emits) = <<"on_close">>
        BY <3>3, ShortSequences
      <4>2. calls' = <<Emitting("on_error", <<"forward_error">>)>> /\ emits' = <<"on_close">>
        BY <1>0, <4>1, Listening
      <4>3. Settled'
        BY <4>2 DEF Settled
      <4>. QED  BY <2>2, <4>3 DEF Accounted
    <3>. QED  BY <3>1, <3>2, <3>3
  <2>. QED  BY <1>0, <1>1, <2>1, <2>2, OpenClient
<1>. QED  BY <1>0, <1>1, StrandStep

\* A listener is called, or the last one has returned.
LEMMA EmitReturnsStep ==
    ASSUME ConnectionInvariant, ChannelInvariant', emit_returns
    PROVE  ConnectionInvariant'
<1> USE DEF emit_returns, channel_vars
<1>0. phase = "open" /\ arrived \in Nat
  BY BusyIsOpen DEF ConnectionInvariant
<1>1. ASSUME "client" \in refs
      PROVE  Accounted'
  <2>1. ~InFlight
    <3>1. <<>> # <<"receive">> /\ <<>> # <<"queue">>
      OBVIOUS
    <3>. QED  BY <3>1, FlightShapes
  <2>2. Settled /\ arrived = Len(got[Queue])
    BY <1>0, <1>1, <2>1, OpenClient
  <2>3. \/ emits = <<>> /\ calls' \in {<<>>, <<Emitting("on_data", <<>>)>>}
        \/ emits = <<"on_close">> /\ calls' \in {<<>>, <<Emitting("on_error", <<>>)>>}
    <3>1. <<>> # <<"forward_close">> /\ <<>> # <<"forward_error">> /\ <<>> # <<"lost">>
      OBVIOUS
    <3>. QED  BY <2>2, <3>1, SettledShapes
  <2>4. Settled'
    BY <2>3 DEF Settled
  <2>. QED  BY <2>2, <2>4 DEF Accounted
<1>. QED  BY <1>0, <1>1, StrandStep

\* SocketAdapter's listeners pass a packet, an error or the close on.
LEMMA ForwardStep ==
    ASSUME ConnectionInvariant, ChannelInvariant',
           \/ forward("receive", "on_message") \/ forward("forward_error", "adapter_on_error")
           \/ forward("forward_close", "adapter_on_close")
    PROVE  ConnectionInvariant'
<1> USE DEF forward, calling, channel_vars
<1>0. phase = "open" /\ arrived \in Nat /\ listeners = attached
  BY BusyIsOpen DEF ConnectionInvariant, IsHeld
<1>a. /\ Head(<<"receive">>) = "receive" /\ Head(<<"queue">>) = "queue"
      /\ Head(<<"forward_close">>) = "forward_close" /\ Head(<<"lost">>) = "lost"
      /\ Head(<<"forward_error">>) = "forward_error"
  OBVIOUS
<1>1. ASSUME "client" \in refs
      PROVE  Accounted'
  <2>1. CASE InFlight /\ arrived = Len(got[Queue]) + 1
    <3>1. emits = <<>> /\ called = <<Emitting("on_data", <<>>)>> /\ forward("receive", "on_message")
      BY <1>a, <2>1, FlightShapes
    <3>2. calls' = <<Emitting("on_data", <<>>), Emitting("on_message", <<"queue">>)>>
      BY <1>0, <3>1, Listening, ShortSequences
    <3>3. InFlight'
      BY <3>1, <3>2 DEF InFlight
    <3>. QED  BY <2>1, <3>3 DEF Accounted
  <2>2. CASE Settled /\ arrived = Len(got[Queue])
    <3>1. \/ /\ emits = <<>> /\ called = <<Emitting("on_close", <<>>)>>
             /\ forward("forward_close", "adapter_on_close")
          \/ /\ emits = <<"on_close">> /\ called = <<Emitting("on_error", <<>>)>>
             /\ forward("forward_error", "adapter_on_error")
      BY <1>a, <2>2, SettledShapes
    <3>2. \/ /\ emits = <<>>
             /\ calls' = <<Emitting("on_close", <<>>), Emitting("adapter_on_close", <<"lost">>)>>
          \/ /\ emits = <<"on_close">>
             /\ calls' = <<Emitting("on_error", <<>>), Emitting("adapter_on_error", <<>>)>>
      BY <1>0, <3>1, Listening, ShortSequences
    <3>3. Settled'
      BY <3>2 DEF Settled
    <3>. QED  BY <2>2, <3>3 DEF Accounted
  <2>. QED  BY <1>0, <1>1, <2>1, <2>2, OpenClient
<1>. QED  BY <1>0, <1>1, StrandStep

\* Connection's listener begins to send the packet.
LEMMA QueuePacketStep ==
    ASSUME ConnectionInvariant, ChannelInvariant', queue_packet
    PROVE  ConnectionInvariant'
<1> USE DEF queue_packet, calling, send
<1>0. phase = "open" /\ arrived \in Nat /\ pc[Strand] = Idle /\ Head(calls[Len(calls)].todo) = "queue"
  BY BusyIsOpen DEF ConnectionInvariant
<1>a. /\ Head(<<"receive">>) = "receive" /\ Head(<<"forward_close">>) = "forward_close"
      /\ Head(<<"forward_error">>) = "forward_error" /\ Head(<<"lost">>) = "lost"
  OBVIOUS
<1>1. ASSUME "client" \in refs
      PROVE  Accounted'
  <2>1. ~Settled
    BY <1>0, <1>a, SettledShapes
  <2>2. InFlight /\ arrived = Len(got[Queue]) + 1 /\ _collection = <<Queue>>
    BY <1>0, <1>1, <2>1, OpenClient
  <2>3. emits = <<>> /\ calls' = <<Emitting("on_data", <<>>), Emitting("on_message", <<>>)>>
    BY <1>0, <1>a, <2>2, FlightShapes
  <2>4. pc'[Strand].at = "send" /\ pc'[Strand].todo = <<Queue>>
    BY <2>2, ConnectionAssumption
    DEF ConnectionInvariant, ChannelInvariant, WalkIsStable, ChannelTypeOK
  <2>5. InFlight'
    BY <2>3, <2>4 DEF InFlight
  <2>. QED  BY <2>2, <2>5 DEF Accounted
<1>. QED  BY <1>0, <1>1, StrandStep

\* The channel pushes the packet into the client's queue, which is held by the
\* strand and takes everything.
LEMMA SendingPacketStep ==
    ASSUME ConnectionInvariant, ChannelInvariant', sending_packet
    PROVE  ConnectionInvariant'
<1> USE DEF sending_packet, own_vars
<1>0. pc[Strand].at = "send" /\ pc[Strand] # Idle /\ UNCHANGED <<_collection, owners>>
  BY DEF sending, send_next, queue_send, send_returns, Idle
<1>a. phase = "open" /\ arrived \in Nat /\ Strand \in Threads /\ Queue \in Consumers
  BY <1>0, BusyIsOpen, ConnectionAssumption DEF ConnectionInvariant
<1>b. ChannelTypeOK /\ Walkers
  BY DEF ConnectionInvariant, ChannelInvariant, WalkIsStable
<1>1. ASSUME "client" \in refs PROVE Accounted'
  <2>1. \/ /\ emits = <<>> /\ pc[Strand].todo = <<Queue>> /\ arrived = Len(got[Queue]) + 1
           /\ calls = <<Emitting("on_data", <<>>), Emitting("on_message", <<>>)>>
        \/ /\ emits = <<>> /\ pc[Strand].todo = <<>> /\ arrived = Len(got[Queue])
           /\ calls = <<Emitting("on_data", <<>>), Emitting("on_message", <<>>)>>
    <3>1. \/ InFlight /\ arrived = Len(got[Queue]) + 1
          \/ Settled /\ arrived = Len(got[Queue])
      BY <1>a, <1>1, OpenClient
    <3>. QED  BY <1>0, <3>1 DEF InFlight, Settled
  <2>2. Strand \in owners[Queue] /\ Strand \in holders(Queue)
    BY <1>a, <1>1, OpenClient DEF holders
  <2>3. Head(<<Queue>>) = Queue /\ Tail(<<Queue>>) = <<>> /\ <<Queue>> # <<>>
    OBVIOUS
  <2>4. CASE send_next(Strand)
    <3>1. pc[Strand].todo = <<Queue>> /\ UNCHANGED got
      BY <2>1, <2>4 DEF send_next
    <3>2. [pc[Strand] EXCEPT !.held = {Queue}]
            = [at |-> pc[Strand].at, todo |-> pc[Strand].todo, held |-> {Queue}]
      BY <1>a, <1>b, Holding
    <3>3. pc'[Strand] = [pc[Strand] EXCEPT !.held = {Queue}]
      BY <1>a, <1>b, <2>2, <2>3, <2>4, <3>1 DEF send_next, ChannelTypeOK
    <3>4. pc'[Strand].at = "send" /\ pc'[Strand].todo = <<Queue>>
      BY <1>0, <3>1, <3>2, <3>3
    <3>5. InFlight' /\ arrived' = Len(got'[Queue]) + 1
      BY <2>1, <2>3, <3>1, <3>4 DEF InFlight
    <3>. QED  BY <3>5 DEF Accounted
  <2>5. CASE queue_send(Strand)
    <3>1. pc[Strand].todo = <<Queue>> /\ pc[Strand].held = {Queue}
      <4>1. pc[Strand].held # {}
        BY <2>5 DEF queue_send
      <4>. QED  BY <1>a, <1>b, <2>1, <2>3, <4>1 DEF Walkers
    <3>2. ~is_rejected(Queue, Message(Strand))
      BY ConnectionAssumption DEF is_rejected
    <3>3. /\ got' = [got EXCEPT ![Queue] = Append(@, Message(Strand))]
          /\ pc' = [pc EXCEPT ![Strand] = after_push(Strand, Queue)]
      BY <2>5, <3>1, <3>2 DEF queue_send
    <3>4. after_push(Strand, Queue) = [at |-> "send", todo |-> <<>>, held |-> {}]
      BY <2>2, <2>3, <3>1 DEF after_push
    <3>5. pc'[Strand].at = "send" /\ pc'[Strand].todo = <<>>
      BY <1>a, <1>b, <3>3, <3>4 DEF ChannelTypeOK
    <3>6. Len(got'[Queue]) = Len(got[Queue]) + 1
      <4>1. /\ got[Queue] \in Seq(AnyMessage)
            /\ got'[Queue] = Append(got[Queue], Message(Strand))
        BY <1>a, <1>b, <3>3 DEF ChannelTypeOK
      <4>2. sent[Strand] \in 1..MaxMessages
        BY <1>0, <1>a, <1>b, ChannelAssumption DEF ChannelTypeOK, Walkers
      <4>3. Message(Strand) \in AnyMessage
        BY <1>a, <4>2 DEF Message, AnyMessage
      <4>. QED  BY <4>1, <4>3, AppendProperties
    <3>7. arrived = Len(got[Queue]) + 1
      BY <2>1, <2>3, <3>1
    <3>8. Settled'
      BY <2>1, <3>5 DEF Settled
    <3>. QED  BY <3>6, <3>7, <3>8 DEF Accounted
  <2>6. CASE send_returns(Strand)
    <3>1. pc[Strand].todo = <<>> /\ UNCHANGED got
      BY <2>6 DEF send_returns
    <3>2. pc'[Strand] = Idle
      BY <1>a, <1>b, <2>6 DEF send_returns, ChannelTypeOK
    <3>3. arrived = Len(got[Queue])
      BY <2>1, <2>3, <3>1
    <3>4. Settled'
      BY <2>1, <3>2 DEF Settled
    <3>. QED  BY <3>1, <3>3, <3>4 DEF Accounted
  <2>. QED  BY <2>4, <2>5, <2>6 DEF sending
<1>. QED  BY <1>0, <1>a, <1>1, StrandStep

\* Server::disconnect: the user keeps the connection when the client goes.
LEMMA DisconnectStep ==
    ASSUME ConnectionInvariant, ChannelInvariant',
           disconnect \/ erase_client \/ disconnect_returns
    PROVE  ConnectionInvariant'
<1>0. phase = "open" /\ arrived \in Nat /\ "user" \in refs
  BY BusyIsOpen DEF disconnect, erase_client, disconnect_returns, calling, ConnectionInvariant
<1>1. CASE disconnect
  <2> USE <1>1 DEF disconnect, channel_vars
  <2>1. "user" \in refs' /\ ("client" \in refs' <=> "client" \in refs)
    BY <1>0
  <2>2. "client" \in refs => Accounted'
    BY <1>0 DEF ConnectionInvariant, ClientIsServed, Accounted, InFlight, Settled
  <2>3. ClientIsServed'
    BY <1>0, <2>1, <2>2 DEF ConnectionInvariant, ClientIsServed
  <2>. QED  BY <1>0, <2>1, <2>3, OpenStep
<1>2. CASE erase_client
  <2>1. "client" \notin refs' /\ "user" \in refs' /\ listeners' = listeners
    BY <1>0, <1>2 DEF erase_client, let_go
  <2>. QED  BY <1>0, <1>2, <2>1, OpenStep DEF erase_client, ClientIsServed
<1>3. CASE disconnect_returns
  <2>1. "client" \notin refs' /\ "user" \in refs' /\ listeners' = listeners
    BY <1>0, <1>3 DEF disconnect_returns, let_go
  <2>. QED  BY <1>0, <1>3, <2>1, OpenStep DEF disconnect_returns, ClientIsServed
<1>. QED  BY <1>1, <1>2, <1>3

\* What a step of the game loop has to keep.
LEMMA LoopKeeps ==
    ASSUME ConnectionInvariant, ChannelInvariant',
           UNCHANGED <<phase, calls, emits, arrived, listeners, got, _collection>>,
           pc'[Strand] = pc[Strand],
           \A who \in {"strand", "client", "user"} : who \in refs' <=> who \in refs,
           refs = {} => refs' = {},
           Strand \in owners[Queue] => Strand \in owners'[Queue],
           tick' \in {"packets", "done"} => tick \in {"packets", "done"} \/ "client" \in refs
    PROVE  ConnectionInvariant'
<1>1. BeforeOpen'
  BY DEF ConnectionInvariant, BeforeOpen, SocketSignals, AdapterSignals
<1>2. IsHeld'
  BY DEF ConnectionInvariant, IsHeld, attached
<1>3. ClientIsServed'
  <2>1. Accounted' <=> Accounted
    BY DEF Accounted, InFlight, Settled, Emitting, Idle
  <2>. QED  BY <2>1 DEF ConnectionInvariant, ClientIsServed
<1>. QED  BY <1>1, <1>2, <1>3 DEF ConnectionInvariant

\* The game loop takes nothing away from the strand.
LEMMA LoopStep ==
    ASSUME ConnectionInvariant, ChannelInvariant', LoopSteps
    PROVE  ConnectionInvariant'
<1>0. ChannelTypeOK /\ Strand \in Threads /\ Loop \in Threads /\ Strand # Loop /\ Queue \in Consumers
  BY ConnectionAssumption DEF ConnectionInvariant, ChannelInvariant, WalkIsStable
<1>1. CASE process_disconnections
  BY <1>1, LoopKeeps DEF process_disconnections, forget_user, channel_vars
<1>2. CASE copy_clients
  <2>1. CASE "client" \in refs
    <3>1. share(Strand, Loop, Queue) /\ refs' = refs \cup {"loop"}
      BY <1>2, <2>1 DEF copy_clients
    <3>2. Strand \in owners[Queue] => Strand \in owners'[Queue]
      BY <1>0, <3>1 DEF share, ChannelTypeOK
    <3>. QED  BY <1>2, <2>1, <3>1, <3>2, LoopKeeps DEF copy_clients, share
  <2>2. CASE "client" \notin refs
    BY <1>2, <2>2, LoopKeeps DEF copy_clients, channel_vars
  <2>. QED  BY <2>1, <2>2
<1>3. CASE process_packet
  BY <1>3, LoopKeeps DEF process_packet, receive, own_vars
<1>4. CASE drop_queue
  <2>1. /\ pc'[Strand] = pc[Strand]
        /\ Strand \in owners[Queue] => Strand \in owners'[Queue]
        /\ UNCHANGED <<got, _collection>>
    BY <1>0, <1>4 DEF drop_queue, release, ChannelTypeOK
  <2>. QED  BY <1>4, <2>1, LoopKeeps DEF drop_queue
<1>5. CASE drop_client
  <2>1. "strand" \in refs \/ "user" \in refs
    BY <1>5 DEF drop_client, ConnectionInvariant, BeforeOpen, IsHeld
  <2>2. listeners' = listeners /\ refs' = refs \ {"loop"}
    BY <1>5, <2>1 DEF drop_client, let_go
  <2>. QED  BY <1>5, <2>1, <2>2, LoopKeeps DEF drop_client, channel_vars
<1>. QED  BY <1>1, <1>2, <1>3, <1>4, <1>5 DEF LoopSteps

\* A queue comes off the vector only when its client is gone.
LEMMA DisassociateStep ==
    ASSUME ConnectionInvariant, ChannelInvariant', disassociate
    PROVE  ConnectionInvariant'
<1>1. PICK t \in Threads : remove(t)
  BY DEF disassociate
<1>2. UNCHANGED own_vars
  BY DEF disassociate
<1>3. PICK c \in Consumers : pc[t].todo = <<c>> /\ Attached(c)
  BY <1>1 DEF remove, ConnectionInvariant, ChannelInvariant, Departures
<1>4. c = Queue /\ holders(Queue) = {}
  BY <1>1, <1>3, ConnectionAssumption
  DEF remove, ConnectionInvariant, ChannelInvariant, UsedConsumerLives
<1>5. "client" \notin refs /\ _collection # <<>>
  BY <1>3, <1>4 DEF holders, Attached, ConnectionInvariant, ClientIsServed
<1>6. phase \in {"listed", "open"}
  BY <1>5 DEF ConnectionInvariant, BeforeOpen
<1>7. CASE phase = "open"
  <2>1. "user" \in refs' /\ arrived' \in Nat /\ ClientIsServed'
    BY <1>2, <1>5, <1>7 DEF own_vars, ConnectionInvariant, IsHeld, ClientIsServed
  <2>. QED  BY <1>2, <1>7, <2>1, OpenStep DEF own_vars
<1>8. CASE phase = "listed"
  <2>1. pc[Strand] = Idle /\ pc[Strand].at = "idle"
    BY <1>8 DEF ConnectionInvariant, BeforeOpen, Idle
  <2>2. t # Strand /\ pc'[Strand] = pc[Strand] /\ UNCHANGED got
    BY <1>1, <2>1, ConnectionAssumption
    DEF remove, ConnectionInvariant, ChannelInvariant, WalkIsStable, ChannelTypeOK
  <2>3. BeforeOpen'
    BY <1>2, <1>8, <2>1, <2>2 DEF own_vars, ConnectionInvariant, BeforeOpen
  <2>4. IsHeld' /\ ClientIsServed'
    BY <1>2, <1>5, <1>8 DEF own_vars, ConnectionInvariant, IsHeld, ClientIsServed, attached
  <2>. QED  BY <1>2, <2>3, <2>4 DEF own_vars, ConnectionInvariant
<1>. QED  BY <1>6, <1>7, <1>8

\* Every step of the strand and of the loop preserves the invariant.
LEMMA ConnectionNext == ConnectionInvariant /\ [Next]_vars => ConnectionInvariant'
<1> SUFFICES ASSUME ConnectionInvariant, [Next]_vars PROVE ConnectionInvariant'
  OBVIOUS
<1>0. ChannelInvariant'
  BY ChannelStep, NextInvariant DEF ConnectionInvariant
<1>1. CASE Accepting
  BY <1>0, <1>1, AcceptingStep
<1>2. CASE Handlers
  BY <1>0, <1>2, HandlersStep
<1>3. CASE Calls
  BY <1>0, <1>3, EmitStep, EmitReturnsStep, ForwardStep, QueuePacketStep, SendingPacketStep,
     DisconnectStep DEF Calls
<1>4. CASE LoopSteps
  BY <1>0, <1>4, LoopStep
<1>5. CASE disassociate
  BY <1>0, <1>5, DisassociateStep
<1>6. CASE UNCHANGED vars
  <2>1. UNCHANGED own_vars /\ UNCHANGED channel_vars
    BY <1>6 DEF vars
  <2>. QED  BY <1>0, <2>1, LoopKeeps DEF own_vars, channel_vars
<1>. QED  BY <1>1, <1>2, <1>3, <1>4, <1>5, <1>6 DEF Next

-----------------------------------------------------------------------------
(* Results *)

\* The inductive invariant holds, for any number of packets.
THEOREM ConnectionInvariantHolds == Spec => []ConnectionInvariant
BY ConnectionInit, ConnectionNext, PTL DEF Spec

\* Signal::emit calls no listener of a SocketAdapter or a Connection that is gone,
\* although it calls them from a copy: the user keeps the connection.
THEOREM ListenersLive == Spec => []NoDanglingListener
<1>1. ConnectionInvariant => NoDanglingListener
  <2> SUFFICES ASSUME ConnectionInvariant, refs = {}
               PROVE  (\A i \in DOMAIN calls : calls[i].todo = <<>>) /\ pc[Strand].at = "idle"
    BY DEF NoDanglingListener
  <2>1. calls = <<>> /\ pc[Strand] = Idle
    BY BusyIsOpen
  <2>. QED  BY <2>1 DEF Idle
<1>. QED  BY <1>1, ConnectionInvariantHolds, PTL

\* Every packet that the strand reads for a listed client is in the client's queue
\* when the handler has returned.
THEOREM NothingIsLost == Spec => []NothingReceivedIsLost
<1>1. ConnectionInvariant => NothingReceivedIsLost
  <2> SUFFICES ASSUME ConnectionInvariant, "client" \in refs,
                      calls = <<>>, emits = <<>>, pc[Strand] = Idle
               PROVE  Len(got[Queue]) = arrived
    BY DEF NothingReceivedIsLost
  <2>1. CASE phase = "open"
    <3>1. pc[Strand].at = "idle" /\ <<>> # <<"on_data">>
      BY DEF Idle
    <3>2. ~InFlight
      BY <3>1 DEF InFlight
    <3>. QED  BY <2>1, <3>2, OpenClient
  <2>2. CASE phase # "open"
    BY <2>2 DEF ConnectionInvariant, BeforeOpen
  <2>. QED  BY <2>1, <2>2
<1>. QED  BY <1>1, ConnectionInvariantHolds, PTL

\* What is proved of the channel holds of a connection's.
COROLLARY ConnectionDelivers == Spec => [](WalkIsStable /\ UsedConsumerLives /\ NoGapsNoDuplicates)
BY ConnectionRefinesChannel, StableWalk, ConsumersLive, Delivery, PTL
=============================================================================

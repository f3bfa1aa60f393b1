--------------------------- MODULE InboundProofs ---------------------------
(***************************************************************************)
(* Proofs about Inbound: for every set of channels, every page size and    *)
(* every capacity of the buffers, nothing a live process has read is lost, *)
(* repeated or reordered on its way, the cursors skip no message and       *)
(* return to none more often than a page is long, the end of stdin         *)
(* discards no line, and a penalty is not carried over to later events.    *)
(***************************************************************************)
EXTENDS Inbound, SequenceTheorems, FiniteSetTheorems, TLAPS

-----------------------------------------------------------------------------
(* Feeds, and the score Aegis gives.                                        *)

LEMMA FeedFacts ==
    /\ \A c \in Channels : c # Cli /\ Adapter(c) = Discord
    /\ Adapter(Cli) = Cli /\ Cli # Discord
    /\ \A f \in Feeds : Adapter(f) \in Adapters
    /\ Cli \in Feeds /\ Channels \subseteq Feeds
BY FeedAssumption DEF Adapter, Adapters, Feeds, Cli, Discord

LEMMA EventFacts ==
    ASSUME NEW ev \in Events
    PROVE  ev[1] \in Feeds /\ ev[2] \in Nat \ {0} /\ ev[3] \in 1..MaxPosts
BY DEF Events

LEMMA MinOfPair ==
    ASSUME NEW x \in Int, NEW y \in Int
    PROVE  Min({x, y}) = IF x =< y THEN x ELSE y
<1> DEFINE m == IF x =< y THEN x ELSE y
<1>1. m \in {x, y} /\ \A z \in {x, y} : m =< z
  OBVIOUS
<1>2. \A n \in {x, y} : (\A z \in {x, y} : n =< z) => n = m
  OBVIOUS
<1> QED  BY <1>1, <1>2 DEF Min

\* Division rounds down, and what is at least d times the divisor divides to d
\* at least.
LEMMA QuotientBound ==
    ASSUME NEW x \in Int, NEW d \in Int, NEW R \in Nat \ {0}, R * d =< x
    PROVE  x \div R \in Int /\ d =< x \div R
<1> DEFINE q == x \div R
<1>1. q \in Int /\ R * q =< x /\ x < R * (q + 1)
  BY SMTT(30)
<1> HIDE DEF q
<1>2. R * d < R * (q + 1)
  BY <1>1
<1>3. ASSUME d >= q + 1 PROVE FALSE
  <2>1. R * d >= R * (q + 1)
    BY <1>1, <1>3, SMTT(30)
  <2> QED  BY <1>1, <1>2, <2>1
<1> QED  BY <1>1, <1>3 DEF q

\* The blended score does not fall below what the stored score, the prior and
\* the ceiling do not fall below.
LEMMA BlendBounds ==
    ASSUME NEW row \in [score : 0..100, n : 0..Ramp, row : BOOLEAN],
           NEW lo \in Nat, lo =< Prior, lo =< MaxTrust, row.row => lo =< row.score
    PROVE  Blend(row) \in Nat /\ lo =< Blend(row) /\ Blend(row) =< MaxTrust
<1> DEFINE score == IF row.row THEN row.score ELSE Prior
           raw == IF row.n < Ramp THEN Prior + (row.n * (score - Prior)) \div Ramp ELSE score
<1>1. /\ Prior \in Nat /\ MaxTrust \in Nat /\ Ramp \in Nat \ {0}
      /\ row.n \in Nat /\ row.score \in Nat
  BY TrustAssumption
<1>2. score \in Nat /\ lo =< score
  BY <1>1
<1>3. Blend(row) = Min({MaxTrust, raw})
  BY DEF Blend
<1> HIDE DEF score
<1>4. raw \in Int /\ lo =< raw
  <2>1. CASE row.n < Ramp
    <3> DEFINE x == row.n * (score - Prior)
    <3>1. x \in Int
      BY <1>1, <1>2
    <3>2. Ramp * (lo - Prior) =< x
      <4>1. row.n * (lo - Prior) =< row.n * (score - Prior)
        BY <1>1, <1>2, SMTT(30)
      <4>2. Ramp * (lo - Prior) =< row.n * (lo - Prior)
        BY <1>1, <2>1, SMTT(30)
      <4> DEFINE u == row.n * (lo - Prior)
                 v == Ramp * (lo - Prior)
      <4>3. u \in Int /\ v \in Int
        BY <1>1
      <4> QED
        <5>1. v =< u /\ u =< x  BY <4>1, <4>2
        <5> HIDE DEF u, v, x
        <5>2. v =< x  BY <3>1, <4>3, <5>1
        <5> QED  BY <5>2 DEF v
    <3> HIDE DEF x
    <3>3. x \div Ramp \in Int /\ lo - Prior =< x \div Ramp
      <4>1. lo - Prior \in Int  BY <1>1
      <4> QED  BY <1>1, <3>1, <3>2, <4>1, QuotientBound, Zenon
    <3>4. raw = Prior + (x \div Ramp)
      BY <2>1 DEF x
    <3> DEFINE q == x \div Ramp
    <3> HIDE DEF raw, q
    <3>5. raw = Prior + q /\ q \in Int /\ lo - Prior =< q
      BY <3>3, <3>4 DEF q
    <3> QED  BY <1>1, <3>5
  <2>2. CASE ~(row.n < Ramp)
    BY <1>2, <2>2
  <2> QED  BY <2>1, <2>2
<1> HIDE DEF raw
<1>5. Blend(row) = IF MaxTrust =< raw THEN MaxTrust ELSE raw
  <2>1. MaxTrust \in Int /\ raw \in Int  BY <1>1, <1>4
  <2> QED  BY <1>3, <2>1, MinOfPair, Zenon
<1> QED  BY <1>1, <1>4, <1>5

LEMMA StoredTrustBounds ==
    ASSUME NEW row \in [score : 0..100, n : 0..Ramp, row : BOOLEAN],
           NEW msg, NEW failed,
           NEW lo \in Nat, lo =< Prior, lo =< MaxTrust, lo =< StoredPrior,
           row.row => lo =< row.score
    PROVE  LET stored == StoredTrust(row, msg, failed)
           IN  /\ stored \in [score : 0..100, n : 0..Ramp, row : BOOLEAN]
               /\ stored.row => lo =< stored.score
<1> DEFINE updated == IF "update" \in failed THEN row ELSE UpdateTrust(row, Blend(row))
           Row == [score : 0..100, n : 0..Ramp, row : BOOLEAN]
<1>1. Blend(row) \in 0..100 /\ lo =< Blend(row)
  <2>1. Blend(row) \in Nat /\ lo =< Blend(row) /\ Blend(row) =< MaxTrust  BY BlendBounds
  <2> QED  BY <2>1, TrustAssumption
<1>2. updated \in Row /\ (updated.row => lo =< updated.score)
  BY <1>1 DEF UpdateTrust
<1> HIDE DEF updated
<1>3. /\ IncrementInteractions(updated) \in Row
      /\ IncrementInteractions(updated).row => lo =< IncrementInteractions(updated).score
  <2>1. Ramp \in Nat \ {0} /\ StoredPrior \in 0..100  BY TrustAssumption
  <2>2. CASE updated.row
    BY <1>2, <2>1, <2>2 DEF IncrementInteractions
  <2>3. CASE ~updated.row
    <3>1. IncrementInteractions(updated) = [score |-> StoredPrior, n |-> 1, row |-> TRUE]
      BY <2>3 DEF IncrementInteractions
    <3> QED  BY <2>1, <3>1
  <2> QED  BY <2>2, <2>3
<1>4. StoredTrust(row, msg, failed) \in {updated, IncrementInteractions(updated)}
  BY DEF StoredTrust, updated
<1> QED  BY <1>2, <1>3, <1>4

-----------------------------------------------------------------------------
(* Type correctness.                                                        *)

\* A page is as long as the code asks for, and within what was posted.
LEMMA PageFacts ==
    ASSUME TypeOK, NEW c \in Channels, Page(c)[1] =< Page(c)[2]
    PROVE  /\ Page(c)[1] \in 1..MaxPosts /\ Page(c)[2] \in 1..MaxPosts
           /\ Page(c)[2] =< posted[c]
           /\ Page(c)[2] - Page(c)[1] + 1 =< PageSize
           /\ last[c] # 0 => Page(c)[1] = last[c] + 1
<1>1. posted[c] \in 0..MaxPosts /\ last[c] \in 0..MaxPosts
  BY FeedFacts DEF TypeOK
<1>2. PageSize \in Nat \ {0} /\ MaxPosts \in Nat
  BY CapAssumption, BoundAssumption
<1>3. CASE last[c] = 0
  BY <1>1, <1>2, <1>3 DEF Page
<1>4. CASE last[c] # 0
  BY <1>1, <1>2, <1>4 DEF Page
<1> QED  BY <1>3, <1>4

\* The batch made of a page, and the IDs in it.
LEMMA BatchFacts ==
    ASSUME TypeOK, NEW f \in Feeds, NEW lo \in 1..MaxPosts, NEW hi \in 1..MaxPosts, lo =< hi
    PROVE  /\ Batch(f, lo, hi) \in Seq(Events)
           /\ Len(Batch(f, lo, hi)) = hi - lo + 1
           /\ DOMAIN Batch(f, lo, hi) = 1..(hi - lo + 1)
           /\ \A i \in 1..(hi - lo + 1) :
                 Batch(f, lo, hi)[i] = <<f, Len(fetched[f]) + i, hi - i + 1>>
<1> DEFINE n == hi - lo + 1
           s == Batch(f, lo, hi)
<1>1. n \in Nat /\ MaxPosts \in Nat /\ Len(fetched[f]) \in Nat
  BY BoundAssumption, LenProperties DEF TypeOK
<1>2. \A i \in 1..n : <<f, Len(fetched[f]) + i, hi - i + 1>> \in Events
  <2> SUFFICES ASSUME NEW i \in 1..n
               PROVE  Len(fetched[f]) + i \in Nat \ {0} /\ hi - i + 1 \in 1..MaxPosts
    BY DEF Events
  <2> QED  BY <1>1
<1>3. s \in [1..n -> Events] /\ \A i \in 1..n : s[i] = <<f, Len(fetched[f]) + i, hi - i + 1>>
  BY <1>2 DEF Batch
<1>4. s \in Seq(Events)
  BY <1>1, <1>3, SeqDef
<1>5. DOMAIN s = 1..n /\ Len(s) = n
  <2> HIDE DEF s, n
  <2>1. DOMAIN s = 1..n  BY <1>3
  <2>2. Len(s) \in Nat /\ DOMAIN s = 1..Len(s)  BY <1>4, LenProperties
  <2> QED  BY <1>1, <2>1, <2>2
<1> QED  BY <1>3, <1>4, <1>5

LEMMA IdsFacts ==
    ASSUME NEW lo \in 1..MaxPosts, NEW hi \in 1..MaxPosts, lo =< hi
    PROVE  /\ Ids(lo, hi) \in Seq(1..MaxPosts)
           /\ Len(Ids(lo, hi)) = hi - lo + 1
           /\ \A i \in 1..(hi - lo + 1) : Ids(lo, hi)[i] = hi - i + 1
<1> DEFINE n == hi - lo + 1
           s == Ids(lo, hi)
<1>1. n \in Nat /\ MaxPosts \in Nat  BY BoundAssumption
<1>2. \A i \in 1..n : hi - i + 1 \in 1..MaxPosts  BY <1>1
<1>3. s \in [1..n -> 1..MaxPosts] /\ \A i \in 1..n : s[i] = hi - i + 1
  BY <1>2 DEF Ids
<1>4. s \in Seq(1..MaxPosts)  BY <1>1, <1>3, SeqDef
<1>5. Len(s) = n
  <2> HIDE DEF s, n
  <2>1. DOMAIN s = 1..n  BY <1>3
  <2>2. Len(s) \in Nat /\ DOMAIN s = 1..Len(s)  BY <1>4, LenProperties
  <2> QED  BY <1>1, <2>1, <2>2
<1> QED  BY <1>3, <1>4, <1>5

\* A line that is read is the next of those there are.
LEMMA ScanFacts ==
    ASSUME TypeOK, Scan
    PROVE  /\ Cli \in Feeds /\ last[Cli] \in Nat
           /\ last[Cli] + 1 \in 1..MaxPosts /\ last[Cli] + 1 =< last[Cli] + 1
<1>1. /\ Cli \in Feeds /\ last[Cli] \in 0..MaxPosts /\ posted[Cli] \in 0..MaxPosts
      /\ last[Cli] < posted[Cli] /\ MaxPosts \in Nat
  BY FeedFacts, BoundAssumption DEF Scan, TypeOK
<1> QED  BY <1>1

\* What is added to, and taken from, a sequence of a bounded length.
LEMMA QueueTypes ==
    ASSUME NEW S, NEW s \in Seq(S)
    PROVE  /\ \A x \in S : Append(s, x) \in Seq(S) /\ Len(Append(s, x)) = Len(s) + 1
           /\ s # <<>> => /\ Head(s) \in S /\ Head(s) = s[1] /\ 1 \in DOMAIN s
                          /\ Tail(s) \in Seq(S) /\ Len(Tail(s)) = Len(s) - 1
           /\ Len(s) \in Nat
<1>1. s # <<>> => /\ Head(s) \in S /\ Tail(s) \in Seq(S) /\ Len(Tail(s)) = Len(s) - 1
  BY HeadTailProperties
<1>2. s # <<>> => Len(s) \in Nat \ {0}  BY EmptySeq
<1>3. Len(s) \in Nat /\ DOMAIN s = 1..Len(s)  BY LenProperties
<1>4. \A x \in S : Append(s, x) \in Seq(S) /\ Len(Append(s, x)) = Len(s) + 1
  BY AppendProperties
<1>5. s # <<>> => Head(s) = s[1] /\ 1 \in DOMAIN s  BY <1>2, <1>3
<1> QED  BY <1>1, <1>3, <1>4, <1>5

\* Replacing one queue of a family by another that fits keeps the family bounded.
LEMMA QueueUpdate ==
    ASSUME NEW D, NEW S, NEW q \in [D -> Seq(S)], NEW bound, \A d \in D : Len(q[d]) =< bound,
           NEW k \in D, NEW s \in Seq(S), Len(s) =< bound
    PROVE  /\ [q EXCEPT ![k] = s] \in [D -> Seq(S)]
           /\ \A d \in D : Len([q EXCEPT ![k] = s][d]) =< bound
<1>1. [q EXCEPT ![k] = s] \in [D -> Seq(S)]  OBVIOUS
<1>2. ASSUME NEW d \in D PROVE Len([q EXCEPT ![k] = s][d]) =< bound
  <2>1. CASE d = k
    <3>1. [q EXCEPT ![k] = s][d] = s  BY <2>1
    <3> QED  BY <3>1
  <2>2. CASE d # k
    <3>1. [q EXCEPT ![k] = s][d] = q[d]  BY <2>2
    <3> QED  BY <3>1
  <2> QED  BY <2>1, <2>2
<1> QED  BY <1>1, <1>2

LEMMA TypeInit == Init => TypeOK
<1> SUFFICES ASSUME Init PROVE TypeOK  OBVIOUS
<1>1. \A S : <<>> \in Seq(S) /\ Len(<<>>) = 0  BY EmptySeq
<1>2. /\ MaxPosts \in Nat \ {0} /\ PageSize \in Nat /\ OutCap \in Nat /\ MergedCap \in Nat
      /\ Ramp \in Nat /\ MaxFaults \in Nat
  BY BoundAssumption, CapAssumption, TrustAssumption
<1>3. /\ batch \in [Feeds -> Seq(Events)] /\ \A f \in Feeds : Len(batch[f]) =< PageSize
      /\ out \in [Adapters -> Seq(Events)] /\ \A a \in Adapters : Len(out[a]) =< OutCap
      /\ hand \in [Adapters -> Seq(Events)] /\ \A a \in Adapters : Len(hand[a]) =< 1
      /\ merged \in Seq(Events) /\ Len(merged) =< MergedCap
      /\ handled \in [Feeds -> Seq(Nat \ {0})] /\ fetched \in [Feeds -> Seq(1..MaxPosts)]
  BY <1>1, <1>2 DEF Init
<1>4. posted \in [Feeds -> 0..MaxPosts]
  BY <1>2 DEF Init
<1>5. /\ last \in [Feeds -> 0..MaxPosts]
      /\ fanin \in [Adapters -> {"off", "running", "ended"}]
  BY <1>2 DEF Init
<1>6. trust \in [Adapters -> [score : 0..100, n : 0..Ramp, row : BOOLEAN]]
  <2>1. NoRow \in [score : 0..100, n : 0..Ramp, row : BOOLEAN]  BY <1>2 DEF NoRow
  <2> QED  BY <2>1 DEF Init
<1>7. eof \in BOOLEAN /\ live \in BOOLEAN /\ broken \in BOOLEAN
  BY Zenon DEF Init
<1> QED  BY <1>2, <1>3, <1>4, <1>5, <1>6, <1>7 DEF Init, TypeOK

LEMMA TypeStep == TypeOK /\ [Next]_vars => TypeOK'
<1> SUFFICES ASSUME TypeOK, [Next]_vars PROVE TypeOK'  OBVIOUS
<1>1. /\ MaxPosts \in Nat \ {0} /\ PageSize \in Nat \ {0} /\ OutCap \in Nat \ {0}
      /\ MergedCap \in Nat \ {0} /\ MaxFaults \in Nat /\ MaxLines \in 0..MaxPosts
  BY BoundAssumption, CapAssumption
<1>2. \A S : <<>> \in Seq(S) /\ Len(<<>>) = 0  BY EmptySeq
<1>3. ASSUME NEW f \in Feeds, Post(f) PROVE TypeOK'
  <2>1. /\ posted' = [posted EXCEPT ![f] = posted[f] + 1] /\ posted[f] < MaxPosts
        /\ UNCHANGED <<eof, started, live, pipes, daemon, handled, verdicts, trust, faults>>
    BY <1>3 DEF Post
  <2>2. posted \in [Feeds -> 0..MaxPosts]  BY DEF TypeOK
  <2>3. posted[f] + 1 \in 0..MaxPosts
    <3>1. posted[f] \in 0..MaxPosts  BY <2>2
    <3> QED  BY <1>1, <2>1, <3>1
  <2>4. posted' \in [Feeds -> 0..MaxPosts]  BY <2>1, <2>2, <2>3
  <2> QED  BY <2>1, <2>4 DEF TypeOK, pipes
<1>4. CASE EndOfInput
  BY <1>4 DEF EndOfInput, TypeOK, pipes
<1>5. CASE Signal
  <2>1. live' \in BOOLEAN  BY <1>5, Zenon DEF Signal
  <2>2. faults' \in 0..MaxFaults  BY <1>1, <1>5 DEF Signal, TypeOK
  <2> QED  BY <1>5, <2>1, <2>2 DEF Signal, TypeOK, pipes, world
<1>6. CASE Exit
  <2>1. /\ faults' = faults + 1 /\ faults < MaxFaults /\ Fresh
        /\ posted' = [posted EXCEPT ![Cli] = 0] /\ eof' = FALSE /\ verdicts' = {}
        /\ trust' = trust
    BY <1>6 DEF Exit
  <2>2. /\ batch' \in [Feeds -> Seq(Events)] /\ \A f \in Feeds : Len(batch'[f]) =< PageSize
        /\ out' \in [Adapters -> Seq(Events)] /\ \A a \in Adapters : Len(out'[a]) =< OutCap
        /\ hand' \in [Adapters -> Seq(Events)] /\ \A a \in Adapters : Len(hand'[a]) =< 1
        /\ merged' \in Seq(Events) /\ Len(merged') =< MergedCap
        /\ handled' \in [Feeds -> Seq(Nat \ {0})] /\ fetched' \in [Feeds -> Seq(1..MaxPosts)]
    BY <1>1, <1>2, <2>1 DEF Fresh
  <2>3. posted' \in [Feeds -> 0..MaxPosts]
    <3>1. posted \in [Feeds -> 0..MaxPosts] /\ 0 \in 0..MaxPosts  BY <1>1 DEF TypeOK
    <3>2. posted' = [posted EXCEPT ![Cli] = 0]  BY <2>1
    <3> QED  BY <3>1, <3>2
  <2>4. faults' \in 0..MaxFaults
    <3>1. faults \in 0..MaxFaults  BY DEF TypeOK
    <3> QED  BY <1>1, <2>1, <3>1
  <2>5. eof' \in BOOLEAN /\ live' \in BOOLEAN /\ broken' \in BOOLEAN  BY <2>1, Zenon DEF Fresh
  <2>6. /\ last' \in [Feeds -> 0..MaxPosts]
        /\ fanin' \in [Adapters -> {"off", "running", "ended"}]
        /\ started' \subseteq Adapters /\ closed' \subseteq {Cli} 
        /\ verdicts' \subseteq Messages \X {"wake", "decline"}
        /\ daemon' \in {"off", "waiting", "session", "returned"}
    BY <1>1, <2>1 DEF Fresh
  <2> QED  BY <2>1, <2>2, <2>3, <2>4, <2>5, <2>6 DEF TypeOK
<1>7. ASSUME NEW S \in SUBSET Adapters, StartAll(S) PROVE TypeOK'
  BY <1>7 DEF StartAll, TypeOK, world
<1>8. ASSUME NEW c \in Channels, Fetch(c) PROVE TypeOK'
  <2> DEFINE lo == Page(c)[1]
             hi == Page(c)[2]
  <2>1. /\ lo =< hi /\ batch' = [batch EXCEPT ![c] = Batch(c, lo, hi)]
        /\ fetched' = [fetched EXCEPT ![c] = @ \o Ids(lo, hi)]
        /\ last' = [last EXCEPT ![c] = lo]
        /\ UNCHANGED <<world, started, live, out, closed, broken, hand, fanin, merged, daemon,
                       handled, verdicts, trust, faults>>
    BY <1>8 DEF Fetch
  <2>2. c \in Feeds /\ lo \in 1..MaxPosts /\ hi \in 1..MaxPosts /\ hi - lo + 1 =< PageSize
    BY <2>1, FeedFacts, PageFacts
  <2> HIDE DEF lo, hi
  <2>3. Batch(c, lo, hi) \in Seq(Events) /\ Len(Batch(c, lo, hi)) =< PageSize
    BY <2>1, <2>2, BatchFacts
  <2>4. batch' \in [Feeds -> Seq(Events)] /\ \A f \in Feeds : Len(batch'[f]) =< PageSize
    <3>1. batch \in [Feeds -> Seq(Events)] /\ \A f \in Feeds : Len(batch[f]) =< PageSize
      BY DEF TypeOK
    <3> QED  BY <2>1, <2>2, <2>3, <3>1, QueueUpdate
  <2>5. last' \in [Feeds -> 0..MaxPosts]
    BY <2>1, <2>2 DEF TypeOK
  <2>6. fetched' \in [Feeds -> Seq(1..MaxPosts)]
    <3>1. fetched[c] \o Ids(lo, hi) \in Seq(1..MaxPosts)
      BY <2>1, <2>2, IdsFacts, ConcatProperties DEF TypeOK
    <3> QED  BY <2>1, <3>1 DEF TypeOK
  <2> QED  BY <2>1, <2>4, <2>5, <2>6 DEF TypeOK, world
<1>9. ASSUME NEW c \in Channels, Abandon(c) PROVE TypeOK'
  <2>1. batch' \in [Feeds -> Seq(Events)] /\ \A f \in Feeds : Len(batch'[f]) =< PageSize
    <3>1. c \in Feeds /\ batch' = [batch EXCEPT ![c] = <<>>]  BY <1>9, FeedFacts DEF Abandon
    <3>2. batch \in [Feeds -> Seq(Events)] /\ \A f \in Feeds : Len(batch[f]) =< PageSize
      BY DEF TypeOK
    <3>3. <<>> \in Seq(Events) /\ Len(<<>>) =< PageSize  BY <1>1, <1>2
    <3> QED  BY <3>1, <3>2, <3>3, QueueUpdate
  <2> QED  BY <1>9, <2>1 DEF Abandon, TypeOK, world
<1>10. CASE Scan
  <2> DEFINE n == last[Cli] + 1
  <2>1. /\ batch' = [batch EXCEPT ![Cli] = Batch(Cli, n, n)]
        /\ fetched' = [fetched EXCEPT ![Cli] = Append(@, n)]
        /\ last' = [last EXCEPT ![Cli] = n]
        /\ UNCHANGED <<world, started, live, out, closed, broken, hand, fanin, merged, daemon,
                       handled, verdicts, trust, faults>>
    BY <1>10 DEF Scan
  <2>2. Cli \in Feeds /\ n \in 1..MaxPosts /\ n =< n  BY <1>10, ScanFacts
  <2> HIDE DEF n
  <2>3. Batch(Cli, n, n) \in Seq(Events) /\ Len(Batch(Cli, n, n)) =< PageSize
    <3>1. Batch(Cli, n, n) \in Seq(Events) /\ Len(Batch(Cli, n, n)) = n - n + 1
      BY <2>2, BatchFacts
    <3> QED  BY <1>1, <2>2, <3>1
  <2>4. batch' \in [Feeds -> Seq(Events)] /\ \A f \in Feeds : Len(batch'[f]) =< PageSize
    <3>1. batch \in [Feeds -> Seq(Events)] /\ \A f \in Feeds : Len(batch[f]) =< PageSize
      BY DEF TypeOK
    <3> QED  BY <2>1, <2>2, <2>3, <3>1, QueueUpdate
  <2>5. last' \in [Feeds -> 0..MaxPosts]
    BY <2>1, <2>2 DEF TypeOK
  <2>6. fetched' \in [Feeds -> Seq(1..MaxPosts)]
    <3>1. Append(fetched[Cli], n) \in Seq(1..MaxPosts)
      BY <2>2, AppendProperties DEF TypeOK
    <3> QED  BY <2>1, <3>1 DEF TypeOK
  <2> QED  BY <2>1, <2>4, <2>5, <2>6 DEF TypeOK, world
<1>11. CASE CloseOut
  <2>1. batch' \in [Feeds -> Seq(Events)] /\ \A f \in Feeds : Len(batch'[f]) =< PageSize
    <3>1. Cli \in Feeds /\ batch' = [batch EXCEPT ![Cli] = <<>>]  BY <1>11, FeedFacts DEF CloseOut
    <3>2. batch \in [Feeds -> Seq(Events)] /\ \A f \in Feeds : Len(batch[f]) =< PageSize
      BY DEF TypeOK
    <3>3. <<>> \in Seq(Events) /\ Len(<<>>) =< PageSize  BY <1>1, <1>2
    <3> QED  BY <3>1, <3>2, <3>3, QueueUpdate
  <2> QED  BY <1>11, <2>1 DEF CloseOut, TypeOK, world
<1>12. ASSUME NEW f \in Feeds, Send(f) PROVE TypeOK'
  <2> DEFINE a == Adapter(f)
  <2>1. a \in Adapters /\ batch[f] \in Seq(Events) /\ out[a] \in Seq(Events)
    BY FeedFacts DEF TypeOK
  <2>2. /\ batch[f] # <<>> /\ Len(out[a]) < OutCap
        /\ out' = [out EXCEPT ![a] = Append(@, Head(batch[f]))]
        /\ batch' = [batch EXCEPT ![f] = Tail(@)]
    BY <1>12 DEF Send
  <2> HIDE DEF a
  <2>3. /\ Head(batch[f]) \in Events /\ Tail(batch[f]) \in Seq(Events)
        /\ Len(Tail(batch[f])) = Len(batch[f]) - 1 /\ Len(batch[f]) \in Nat
        /\ Append(out[a], Head(batch[f])) \in Seq(Events) /\ Len(out[a]) \in Nat
        /\ Len(Append(out[a], Head(batch[f]))) = Len(out[a]) + 1
    BY <2>1, <2>2, QueueTypes
  <2>4. batch' \in [Feeds -> Seq(Events)] /\ \A g \in Feeds : Len(batch'[g]) =< PageSize
    <3>1. batch \in [Feeds -> Seq(Events)] /\ \A g \in Feeds : Len(batch[g]) =< PageSize
      BY DEF TypeOK
    <3>2. batch' = [batch EXCEPT ![f] = Tail(batch[f])]  BY <2>2
    <3>3. Len(Tail(batch[f])) =< PageSize
      <4>1. Len(batch[f]) =< PageSize  BY <3>1
      <4> QED  BY <1>1, <2>3, <4>1
    <3> QED  BY <2>3, <3>1, <3>2, <3>3, QueueUpdate
  <2>5. out' \in [Adapters -> Seq(Events)] /\ \A b \in Adapters : Len(out'[b]) =< OutCap
    <3> DEFINE longer == Append(out[a], Head(batch[f]))
    <3>1. out \in [Adapters -> Seq(Events)] /\ \A b \in Adapters : Len(out[b]) =< OutCap
      BY DEF TypeOK
    <3>2. out' = [out EXCEPT ![a] = longer]  BY <2>2
    <3>3. longer \in Seq(Events) /\ Len(longer) =< OutCap  BY <1>1, <2>2, <2>3
    <3> HIDE DEF longer
    <3> QED  BY <2>1, <3>1, <3>2, <3>3, QueueUpdate
  <2> QED  BY <1>12, <2>4, <2>5 DEF Send, TypeOK, world
<1>13. ASSUME NEW a \in Adapters, Take(a) PROVE TypeOK'
  <2>1. out[a] \in Seq(Events) /\ out[a] # <<>>
    BY <1>13 DEF TypeOK, Take
  <2>2. /\ Head(out[a]) \in Events /\ Tail(out[a]) \in Seq(Events)
        /\ Len(Tail(out[a])) = Len(out[a]) - 1 /\ Len(out[a]) \in Nat
    BY <2>1, QueueTypes
  <2>3. <<Head(out[a])>> \in Seq(Events) /\ Len(<<Head(out[a])>>) = 1
    BY <2>2
  <2>4. out' \in [Adapters -> Seq(Events)] /\ \A b \in Adapters : Len(out'[b]) =< OutCap
    BY <1>1, <1>13, <2>2 DEF TypeOK, Take
  <2>5. hand' \in [Adapters -> Seq(Events)] /\ \A b \in Adapters : Len(hand'[b]) =< 1
    <3>1. hand' = [hand EXCEPT ![a] = <<Head(out[a])>>]  BY <1>13 DEF Take
    <3> QED  BY <2>3, <3>1 DEF TypeOK
  <2> QED  BY <1>13, <2>4, <2>5 DEF Take, TypeOK, world
<1>14. ASSUME NEW a \in Adapters, Merge(a) PROVE TypeOK'
  <2>1. /\ hand[a] \in Seq(Events) /\ Len(hand[a]) =< 1 /\ merged \in Seq(Events)
        /\ Len(merged) < MergedCap /\ merged' = merged \o hand[a]
    BY <1>14 DEF TypeOK, Merge
  <2>2. /\ merged' \in Seq(Events) /\ Len(merged') = Len(merged) + Len(hand[a])
        /\ Len(merged) \in Nat /\ Len(hand[a]) \in Nat
    BY <2>1, ConcatProperties, LenProperties
  <2>3. hand' \in [Adapters -> Seq(Events)] /\ \A b \in Adapters : Len(hand'[b]) =< 1
    BY <1>2, <1>14 DEF TypeOK, Merge
  <2> QED  BY <1>1, <1>14, <2>1, <2>2, <2>3 DEF Merge, TypeOK, world
<1>15. ASSUME NEW a \in Adapters, FanInEnds(a) PROVE TypeOK'
  <2>1. hand' \in [Adapters -> Seq(Events)] /\ \A b \in Adapters : Len(hand'[b]) =< 1
    BY <1>2, <1>15 DEF TypeOK, FanInEnds
  <2> QED  BY <1>15, <2>1 DEF FanInEnds, TypeOK, world
<1>16. ASSUME NEW failed \in FailedStatements, HandleEvent(failed) PROVE TypeOK'
  <2> DEFINE ev == Head(merged)
             msg == <<ev[1], ev[3]>>
             src == Adapter(ev[1])
  <2>1. /\ merged # <<>> /\ merged' = Tail(merged)
        /\ handled' = [handled EXCEPT ![ev[1]] = Append(@, ev[2])]
        /\ trust' = trust \/ trust' = [trust EXCEPT ![src] = StoredTrust(@, msg, failed)]
        /\ \E v \in {"wake", "decline"} : verdicts' = verdicts \cup {<<msg, v>>}
        /\ daemon' \in {"session", daemon}
        /\ faults' = faults \/ (faults < MaxFaults /\ faults' = faults + 1)
        /\ UNCHANGED <<world, started, live, last, fetched, batch, out, closed, broken, hand, fanin>>
    BY <1>16 DEF HandleEvent
  <2>2. merged \in Seq(Events) /\ Len(merged) =< MergedCap
    BY DEF TypeOK
  <2>3. /\ ev \in Events /\ merged' \in Seq(Events) /\ Len(merged') = Len(merged) - 1
        /\ Len(merged) \in Nat
    BY <2>1, <2>2, QueueTypes
  <2>4. ev[1] \in Feeds /\ ev[2] \in Nat \ {0} /\ src \in Adapters /\ msg \in Messages
    BY <2>3, EventFacts, FeedFacts DEF Messages
  <2> HIDE DEF ev, src, msg
  <2>5. handled' \in [Feeds -> Seq(Nat \ {0})]
    <3>1. Append(handled[ev[1]], ev[2]) \in Seq(Nat \ {0})
      BY <2>4, AppendProperties DEF TypeOK
    <3> QED  BY <2>1, <2>4, <3>1 DEF TypeOK
  <2>6. trust' \in [Adapters -> [score : 0..100, n : 0..Ramp, row : BOOLEAN]]
    <3>1. trust[src] \in [score : 0..100, n : 0..Ramp, row : BOOLEAN]  BY <2>4 DEF TypeOK
    <3>2. 0 \in Nat /\ 0 =< Prior /\ 0 =< MaxTrust /\ 0 =< StoredPrior /\ 0 =< trust[src].score
      BY <3>1, TrustAssumption
    <3>3. StoredTrust(trust[src], msg, failed) \in [score : 0..100, n : 0..Ramp, row : BOOLEAN]
      BY <3>1, <3>2, StoredTrustBounds
    <3> DEFINE row == StoredTrust(trust[src], msg, failed)
    <3>4. trust' = trust \/ trust' = [trust EXCEPT ![src] = row]  BY <2>1
    <3>5. trust \in [Adapters -> [score : 0..100, n : 0..Ramp, row : BOOLEAN]]  BY DEF TypeOK
    <3> HIDE DEF row
    <3>6. row \in [score : 0..100, n : 0..Ramp, row : BOOLEAN]  BY <3>3 DEF row
    <3> DEFINE Row == [score : 0..100, n : 0..Ramp, row : BOOLEAN]
    <3>7. trust \in [Adapters -> Row] /\ row \in Row  BY <3>5, <3>6
    <3> HIDE DEF Row
    <3>8. trust' \in [Adapters -> Row]  BY <3>4, <3>7
    <3> QED  BY <3>8 DEF Row
  <2>7. daemon' \in {"off", "waiting", "session", "returned"} /\ faults' \in 0..MaxFaults
    BY <1>1, <2>1 DEF TypeOK
  <2>9. verdicts' \subseteq Messages \X {"wake", "decline"}
    <3>1. PICK v \in {"wake", "decline"} : verdicts' = verdicts \cup {<<msg, v>>}  BY <2>1
    <3> QED  BY <2>4, <3>1 DEF TypeOK
  <2>8. Len(merged') =< MergedCap
    BY <1>1, <2>2, <2>3
  <2> QED  BY <2>1, <2>3, <2>5, <2>6, <2>7, <2>8, <2>9 DEF TypeOK, world
<1>17. CASE SessionEnds \/ AllClosed \/ ShutDown
  BY <1>17 DEF SessionEnds, AllClosed, ShutDown, TypeOK, pipes, world
<1>18. CASE UNCHANGED vars
  BY <1>18 DEF vars, TypeOK, pipes, world
<1>19. CASE ScanFails
  <2>1. broken' \in BOOLEAN  BY <1>19, Zenon DEF ScanFails
  <2>2. faults' \in 0..MaxFaults  BY <1>1, <1>19 DEF ScanFails, TypeOK
  <2> QED  BY <1>19, <2>1, <2>2 DEF ScanFails, TypeOK, world
<1> QED
  BY <1>3, <1>4, <1>5, <1>6, <1>7, <1>8, <1>9, <1>10, <1>11, <1>12, <1>13, <1>14, <1>15, <1>16,
     <1>17, <1>18, <1>19 DEF Next, Goroutines, Loop

\* The buffers of the pipeline keep within their capacities, and the trust
\* registry holds scores and counts.
THEOREM TypeCorrect == Spec => []TypeOK
BY TypeInit, TypeStep, PTL DEF Spec

-----------------------------------------------------------------------------
(* Sequences that hold the events of a feed in order.                       *)

LEMMA InOrderNone ==
    ASSUME NEW s \in Seq(Events), NEW f, \A i \in DOMAIN s : s[i][1] # f, NEW m \in Int
    PROVE  InOrder(f, s, m, m)
BY DEF InOrder

LEMMA InOrderEmpty ==
    ASSUME NEW f, NEW m \in Int
    PROVE  InOrder(f, <<>>, m, m)
<1>1. <<>> \in Seq(Events) /\ DOMAIN <<>> = {}  OBVIOUS
<1> QED  BY <1>1 DEF InOrder

LEMMA NoneInOrder ==
    ASSUME NEW s \in Seq(Events), NEW f, NEW lo \in Int, NEW hi \in Int,
           InOrder(f, s, lo, hi), \A i \in DOMAIN s : s[i][1] # f
    PROVE  lo = hi
<1>1. ASSUME lo < hi PROVE FALSE
  <2>1. lo \in lo..(hi - 1)  BY <1>1
  <2>2. PICK i \in DOMAIN s : s[i][1] = f /\ s[i][2] = lo  BY <2>1 DEF InOrder
  <2> QED  BY <2>2
<1> QED  BY <1>1 DEF InOrder

LEMMA InOrderOne ==
    ASSUME NEW f, NEW m \in Int, NEW ev, ev[1] = f, ev[2] = m
    PROVE  InOrder(f, <<ev>>, m, m + 1)
<1> DEFINE s == <<ev>>
<1>1. DOMAIN s = {1} /\ s[1] = ev  OBVIOUS
<1> HIDE DEF s
<1>2. m..((m + 1) - 1) = {m}  OBVIOUS
<1>3. InOrder(f, s, m, m + 1)  BY <1>1, <1>2 DEF InOrder
<1> QED  BY <1>3 DEF s

\* A sequence that numbers its events from b + 1 on.
LEMMA InOrderRun ==
    ASSUME NEW f, NEW s, NEW b \in Nat, NEW k \in Nat, DOMAIN s = 1..k,
           \A i \in 1..k : s[i][1] = f /\ s[i][2] = b + i
    PROVE  InOrder(f, s, b + 1, b + k + 1)
<1>1. ASSUME NEW n \in (b + 1)..(b + k) PROVE \E i \in DOMAIN s : s[i][1] = f /\ s[i][2] = n
  <2>1. n - b \in DOMAIN s /\ b + (n - b) = n  OBVIOUS
  <2> QED  BY <2>1
<1>2. ASSUME NEW i \in DOMAIN s PROVE s[i][2] \in (b + 1)..(b + k)
  OBVIOUS
<1>3. ASSUME NEW i \in DOMAIN s, NEW j \in DOMAIN s, i < j PROVE s[i][2] < s[j][2]
  BY <1>3
<1>4. (b + k + 1) - 1 = b + k /\ b + 1 =< b + k + 1  OBVIOUS
<1> QED  BY <1>1, <1>2, <1>3, <1>4 DEF InOrder

\* A page newest first is in the order in which it was read.
LEMMA InOrderPage ==
    ASSUME TypeOK, NEW f \in Feeds, NEW lo \in 1..MaxPosts, NEW hi \in 1..MaxPosts, lo =< hi
    PROVE  InOrder(f, Batch(f, lo, hi), Len(fetched[f]) + 1, Len(fetched[f]) + (hi - lo + 1) + 1)
<1> DEFINE s == Batch(f, lo, hi)
           b == Len(fetched[f])
           k == hi - lo + 1
<1>1. DOMAIN s = 1..k /\ \A i \in 1..k : s[i][1] = f /\ s[i][2] = b + i
  <2>1. DOMAIN s = 1..k /\ \A i \in 1..k : s[i] = <<f, b + i, hi - i + 1>>  BY BatchFacts
  <2> HIDE DEF s, k
  <2> QED  BY <2>1
<1>2. b \in Nat /\ k \in Nat
  BY BoundAssumption, LenProperties DEF TypeOK
<1> HIDE DEF s, b, k
<1>3. InOrder(f, s, b + 1, b + k + 1)  BY <1>1, <1>2, InOrderRun
<1> QED  BY <1>3 DEF s, b, k

\* Two runs that meet make one.
LEMMA InOrderConcat ==
    ASSUME NEW s \in Seq(Events), NEW t \in Seq(Events), NEW f,
           NEW lo \in Int, NEW m \in Int, NEW hi \in Int,
           InOrder(f, s, lo, m), InOrder(f, t, m, hi)
    PROVE  InOrder(f, s \o t, lo, hi)
<1> DEFINE u == s \o t
           k == Len(s)
<1>1. /\ k \in Nat /\ Len(t) \in Nat
      /\ DOMAIN s = 1..k /\ DOMAIN t = 1..Len(t) /\ DOMAIN u = 1..(k + Len(t))
      /\ \A i \in 1..(k + Len(t)) : u[i] = IF i =< k THEN s[i] ELSE t[i - k]
  BY ConcatProperties, LenProperties
<1>2. /\ \A i \in DOMAIN u : i =< k => i \in DOMAIN s /\ u[i] = s[i]
      /\ \A i \in DOMAIN u : ~(i =< k) => i - k \in DOMAIN t /\ u[i] = t[i - k]
      /\ \A i \in DOMAIN s : i \in DOMAIN u /\ u[i] = s[i]
      /\ \A i \in DOMAIN t : i + k \in DOMAIN u /\ u[i + k] = t[i]
  BY <1>1
<1>3. /\ \A i \in DOMAIN s : s[i][1] = f => s[i][2] \in Int /\ lo =< s[i][2] /\ s[i][2] < m
      /\ \A i \in DOMAIN t : t[i][1] = f => t[i][2] \in Int /\ m =< t[i][2] /\ t[i][2] < hi
      /\ lo =< m /\ m =< hi
  BY DEF InOrder
<1>4. \A i \in DOMAIN u : i \in Int
  BY <1>1
<1> HIDE DEF u, k
<1>5. ASSUME NEW i \in DOMAIN u, u[i][1] = f PROVE u[i][2] \in lo..(hi - 1)
  <2>1. CASE i =< k  BY <1>2, <1>3, <1>5, <2>1
  <2>2. CASE ~(i =< k)  BY <1>2, <1>3, <1>5, <2>2
  <2> QED  BY <2>1, <2>2
<1>6. ASSUME NEW id \in lo..(hi - 1) PROVE \E i \in DOMAIN u : u[i][1] = f /\ u[i][2] = id
  <2>1. CASE id < m
    <3>1. id \in lo..(m - 1)  BY <2>1
    <3>2. PICK i \in DOMAIN s : s[i][1] = f /\ s[i][2] = id  BY <3>1 DEF InOrder
    <3> QED  BY <1>2, <3>2
  <2>2. CASE ~(id < m)
    <3>1. id \in m..(hi - 1)  BY <2>2
    <3>2. PICK i \in DOMAIN t : t[i][1] = f /\ t[i][2] = id  BY <3>1 DEF InOrder
    <3> QED  BY <1>2, <3>2
  <2> QED  BY <2>1, <2>2
<1>7. ASSUME NEW i \in DOMAIN u, NEW j \in DOMAIN u, i < j, u[i][1] = f, u[j][1] = f
      PROVE  u[i][2] < u[j][2]
  <2>1. CASE i =< k /\ j =< k
    <3>1. i \in DOMAIN s /\ j \in DOMAIN s /\ u[i] = s[i] /\ u[j] = s[j]  BY <1>2, <2>1
    <3> QED  BY <1>7, <3>1 DEF InOrder
  <2>2. CASE i =< k /\ ~(j =< k)
    <3>1. i \in DOMAIN s /\ j - k \in DOMAIN t /\ u[i] = s[i] /\ u[j] = t[j - k]  BY <1>2, <2>2
    <3> QED  BY <1>3, <1>7, <3>1
  <2>3. CASE ~(i =< k)
    <3>1. ~(j =< k) /\ i - k < j - k  BY <1>1, <1>4, <1>7, <2>3
    <3>2. i - k \in DOMAIN t /\ j - k \in DOMAIN t /\ u[i] = t[i - k] /\ u[j] = t[j - k]
      BY <1>2, <2>3, <3>1
    <3> QED  BY <1>7, <3>1, <3>2 DEF InOrder
  <2> QED  BY <2>1, <2>2, <2>3
<1>8. InOrder(f, u, lo, hi)
  <2>1. lo =< hi  BY <1>3
  <2> QED  BY <1>5, <1>6, <1>7, <2>1 DEF InOrder
<1> QED  BY <1>8 DEF u

LEMMA InOrderAppend ==
    ASSUME NEW s \in Seq(Events), NEW f, NEW lo \in Int, NEW hi \in Int, InOrder(f, s, lo, hi),
           NEW ev \in Events
    PROVE  /\ ev[1] = f /\ ev[2] = hi => InOrder(f, Append(s, ev), lo, hi + 1)
           /\ ev[1] # f => InOrder(f, Append(s, ev), lo, hi)
<1>1. Append(s, ev) = s \o <<ev>> /\ <<ev>> \in Seq(Events)
  BY AppendIsConcat
<1>2. CASE ev[1] = f /\ ev[2] = hi
  <2>1. InOrder(f, <<ev>>, hi, hi + 1)  BY <1>2, InOrderOne
  <2>2. InOrder(f, s \o <<ev>>, lo, hi + 1)
    <3>1. hi + 1 \in Int  OBVIOUS
    <3> QED  BY <1>1, <2>1, <3>1, InOrderConcat
  <2> QED  BY <1>1, <1>2, <2>2
<1>3. CASE ev[1] # f
  <2>1. DOMAIN <<ev>> = {1} /\ <<ev>>[1] = ev  OBVIOUS
  <2>2. InOrder(f, <<ev>>, hi, hi)  BY <1>1, <1>3, <2>1, InOrderNone
  <2>3. InOrder(f, s \o <<ev>>, lo, hi)  BY <1>1, <2>2, InOrderConcat
  <2> QED  BY <1>1, <1>3, <2>3
<1> QED  BY <1>2, <1>3

LEMMA InOrderTail ==
    ASSUME NEW s \in Seq(Events), s # <<>>, NEW f, NEW lo \in Int, NEW hi \in Int,
           InOrder(f, s, lo, hi)
    PROVE  /\ Head(s)[1] = f => /\ Head(s)[2] = lo /\ lo < hi
                                /\ InOrder(f, Tail(s), lo + 1, hi)
           /\ Head(s)[1] # f => InOrder(f, Tail(s), lo, hi)
<1> DEFINE t == Tail(s)
           h == Head(s)
<1>1. /\ t \in Seq(Events) /\ Len(t) = Len(s) - 1 /\ Len(s) \in Nat \ {0}
      /\ DOMAIN s = 1..Len(s) /\ DOMAIN t = 1..Len(t)
      /\ \A i \in 1..Len(t) : t[i] = s[i + 1]
      /\ h = s[1] /\ h \in Events
  BY HeadTailProperties, EmptySeq, LenProperties
<1>2. /\ \A i \in DOMAIN t : i + 1 \in DOMAIN s /\ t[i] = s[i + 1] /\ 1 < i + 1
      /\ \A i \in DOMAIN s : i = 1 \/ (i - 1 \in DOMAIN t /\ t[i - 1] = s[i])
      /\ 1 \in DOMAIN s /\ DOMAIN s \subseteq Int /\ DOMAIN t \subseteq Int
  BY <1>1
<1> HIDE DEF t, h
<1>3. /\ lo =< hi
      /\ \A i \in DOMAIN s : s[i][1] = f => s[i][2] \in lo..(hi - 1)
      /\ \A id \in lo..(hi - 1) : \E i \in DOMAIN s : s[i][1] = f /\ s[i][2] = id
      /\ \A i, j \in DOMAIN s : i < j /\ s[i][1] = f /\ s[j][1] = f => s[i][2] < s[j][2]
  BY DEF InOrder
<1>4. \A i, j \in DOMAIN t : i < j /\ t[i][1] = f /\ t[j][1] = f => t[i][2] < t[j][2]
  <2> SUFFICES ASSUME NEW i \in DOMAIN t, NEW j \in DOMAIN t, i < j, t[i][1] = f, t[j][1] = f
               PROVE  t[i][2] < t[j][2]
    OBVIOUS
  <2>1. i + 1 \in DOMAIN s /\ j + 1 \in DOMAIN s /\ i + 1 < j + 1 /\ t[i] = s[i + 1] /\ t[j] = s[j + 1]
    BY <1>2
  <2> QED  BY <1>3, <2>1
<1>5. CASE h[1] = f
  <2>1. h[2] \in lo..(hi - 1)
    BY <1>1, <1>2, <1>3, <1>5
  <2>2. lo < hi /\ lo \in lo..(hi - 1)  BY <2>1
  <2>3. PICK i \in DOMAIN s : s[i][1] = f /\ s[i][2] = lo  BY <1>3, <2>2
  <2>4. h[2] = lo
    <3>1. CASE i = 1  BY <1>1, <2>3, <3>1
    <3>2. CASE i # 1
      <4>1. 1 < i  BY <1>1, <3>2
      <4>2. s[1][1] = f /\ s[i][1] = f /\ s[i][2] = lo  BY <1>1, <1>5, <2>3
      <4>3. s[1][2] < s[i][2]  BY <1>2, <1>3, <4>1, <4>2
      <4> QED  BY <1>1, <2>1, <4>2, <4>3
    <3> QED  BY <3>1, <3>2
  <2>5. ASSUME NEW j \in DOMAIN t, t[j][1] = f PROVE t[j][2] \in (lo + 1)..(hi - 1)
    <3>1. j + 1 \in DOMAIN s /\ t[j] = s[j + 1] /\ 1 < j + 1  BY <1>2
    <3>2. s[1][2] < s[j + 1][2] /\ s[j + 1][2] \in lo..(hi - 1)
      BY <1>1, <1>2, <1>3, <1>5, <2>5, <3>1
    <3>3. lo < t[j][2] /\ t[j][2] \in lo..(hi - 1)
      BY <1>1, <2>4, <3>1, <3>2
    <3> QED  BY <3>3
  <2>6. ASSUME NEW id \in (lo + 1)..(hi - 1) PROVE \E j \in DOMAIN t : t[j][1] = f /\ t[j][2] = id
    <3>1. id \in lo..(hi - 1) /\ id # lo  OBVIOUS
    <3>2. PICK j \in DOMAIN s : s[j][1] = f /\ s[j][2] = id  BY <1>3, <3>1
    <3>3. j # 1  BY <1>1, <2>4, <3>1, <3>2
    <3> QED  BY <1>2, <3>2, <3>3
  <2>7. InOrder(f, t, lo + 1, hi)
    <3>1. lo + 1 =< hi  BY <2>2
    <3> QED  BY <1>4, <2>5, <2>6, <3>1 DEF InOrder
  <2> QED  BY <1>5, <2>1, <2>2, <2>4, <2>7 DEF t, h
<1>6. CASE h[1] # f
  <2>1. ASSUME NEW j \in DOMAIN t, t[j][1] = f PROVE t[j][2] \in lo..(hi - 1)
    BY <1>2, <1>3, <2>1
  <2>2. ASSUME NEW id \in lo..(hi - 1) PROVE \E j \in DOMAIN t : t[j][1] = f /\ t[j][2] = id
    <3>1. PICK j \in DOMAIN s : s[j][1] = f /\ s[j][2] = id  BY <1>3
    <3>2. j # 1  BY <1>1, <1>6, <3>1
    <3> QED  BY <1>2, <3>1, <3>2
  <2>3. InOrder(f, t, lo, hi)
    BY <1>3, <1>4, <2>1, <2>2 DEF InOrder
  <2> QED  BY <1>6, <2>3 DEF t, h
<1> QED  BY <1>5, <1>6 DEF h

-----------------------------------------------------------------------------
(* The inductive invariant.                                                 *)

\* Every event is in a place its feed goes through.
Home ==
    /\ \A f \in Feeds : \A i \in DOMAIN batch[f] : batch[f][i][1] = f
    /\ \A a \in Adapters : /\ \A i \in DOMAIN out[a] : Adapter(out[a][i][1]) = a
                           /\ \A i \in DOMAIN hand[a] : Adapter(hand[a][i][1]) = a

Cursor ==
    /\ \A f \in Feeds : last[f] =< posted[f]
    /\ last[Cli] = Len(fetched[Cli])

\* The places hold consecutive runs of events; x, y and z are where they meet.
Runs(f, m, h, o, b, lo, hi) ==
    \E x, y, z \in Nat : /\ InOrder(f, m, lo, x) /\ InOrder(f, h, x, y)
                         /\ InOrder(f, o, y, z) /\ InOrder(f, b, z, hi)

Due(f) == Len(handled[f]) + 1
Read(f) == Len(fetched[f]) + 1
Flow(f) ==
    /\ \A i \in DOMAIN handled[f] : handled[f][i] = i
    /\ Runs(f, merged, hand[Adapter(f)], out[Adapter(f)], batch[f], Due(f), Read(f))

\* While the context is live only the end of stdin and a failed read close a
\* channel, and a fan-in goroutine ends only when its channel is closed and
\* drained; the daemon returns only when the reader's is.
Ends ==
    /\ live /\ Cli \in closed => /\ batch[Cli] = <<>>
                                 /\ (eof /\ last[Cli] = posted[Cli]) \/ broken
    /\ \A a \in Adapters : live /\ fanin[a] = "ended" => a \in closed /\ out[a] = <<>> /\ hand[a] = <<>>
    /\ daemon = "returned" /\ live /\ started # {} => Cli \in closed

FlowInv == live => \A f \in Feeds : Flow(f)

Inv == TypeOK /\ Home /\ Cursor /\ FlowInv /\ Ends /\ EofDrains

LEMMA InvInit == Init => Inv
<1> SUFFICES ASSUME Init PROVE Inv  OBVIOUS
<1>1. TypeOK  BY TypeInit
<1>2. \A f \in Feeds : batch[f] = <<>> /\ handled[f] = <<>> /\ last[f] = 0 /\ fetched[f] = <<>>
  BY DEF Init
<1>3. \A a \in Adapters : out[a] = <<>> /\ hand[a] = <<>> /\ fanin[a] = "off"
  BY DEF Init
<1>4. merged = <<>> /\ closed = {} /\ daemon = "off"
  BY DEF Init
<1>5. DOMAIN <<>> = {} /\ Len(<<>>) = 0  OBVIOUS
<1>6. Home
  BY <1>2, <1>3, <1>5 DEF Home
<1>7. Cursor
  <2>1. \A f \in Feeds : posted[f] \in Nat  BY <1>1 DEF TypeOK
  <2> QED  BY <1>2, <1>5, <2>1, FeedFacts DEF Cursor
<1>8. ASSUME NEW f \in Feeds PROVE Flow(f)
  <2>1. handled[f] = <<>> /\ Due(f) = 1 /\ Read(f) = 1
    BY <1>2, <1>5 DEF Due, Read
  <2>2. InOrder(f, <<>>, 1, 1)  BY InOrderEmpty
  <2>3. Adapter(f) \in Adapters  BY FeedFacts
  <2>4. Runs(f, <<>>, <<>>, <<>>, <<>>, 1, 1)  BY <2>2 DEF Runs
  <2>5. hand[Adapter(f)] = <<>> /\ out[Adapter(f)] = <<>> /\ batch[f] = <<>>  BY <1>2, <1>3, <2>3
  <2> QED  BY <1>4, <1>5, <2>1, <2>4, <2>5 DEF Flow
<1>9. Ends /\ EofDrains
  BY <1>3, <1>4 DEF Ends, EofDrains
<1> QED  BY <1>1, <1>6, <1>7, <1>8, <1>9 DEF Inv, FlowInv

LEMMA HomeStep == TypeOK /\ Home /\ [Next]_vars => Home'
<1> SUFFICES ASSUME TypeOK, Home, [Next]_vars PROVE Home'  OBVIOUS
<1>1. DOMAIN <<>> = {}  OBVIOUS
<1>2. CASE UNCHANGED <<batch, out, hand>>
  BY <1>2 DEF Home
<1>3. CASE Exit
  BY <1>1, <1>3 DEF Exit, Fresh, Home
<1>4. ASSUME NEW f \in Feeds, NEW lo \in 1..MaxPosts, NEW hi \in 1..MaxPosts, lo =< hi,
             batch' = [batch EXCEPT ![f] = Batch(f, lo, hi)], UNCHANGED <<out, hand>>
      PROVE  Home'
  <2> DEFINE new == Batch(f, lo, hi)
  <2>1. \A i \in DOMAIN new : new[i][1] = f
    <3>1. DOMAIN new = 1..(hi - lo + 1)  BY <1>4, BatchFacts
    <3>2. \A i \in 1..(hi - lo + 1) : new[i] = <<f, Len(fetched[f]) + i, hi - i + 1>>
      BY <1>4, BatchFacts
    <3> HIDE DEF new
    <3> QED  BY <3>1, <3>2
  <2> HIDE DEF new
  <2>2. batch' = [batch EXCEPT ![f] = new]  BY <1>4 DEF new
  <2>3. ASSUME NEW g \in Feeds PROVE \A i \in DOMAIN batch'[g] : batch'[g][i][1] = g
    <3>1. batch'[g] = IF g = f THEN new ELSE batch[g]  BY <2>2 DEF TypeOK
    <3> QED  BY <2>1, <3>1 DEF Home
  <2> QED  BY <1>4, <2>3 DEF Home
<1>5. ASSUME NEW f \in Feeds, batch' = [batch EXCEPT ![f] = <<>>], UNCHANGED <<out, hand>> PROVE Home'
  BY <1>1, <1>5 DEF Home, TypeOK
<1>6. CASE Scan
  <2> DEFINE n == last[Cli] + 1
  <2>1. batch' = [batch EXCEPT ![Cli] = Batch(Cli, n, n)] /\ UNCHANGED <<out, hand>>
    BY <1>6 DEF Scan
  <2>2. Cli \in Feeds /\ n \in 1..MaxPosts /\ n =< n  BY <1>6, ScanFacts
  <2> HIDE DEF n
  <2> QED  BY <1>4, <2>1, <2>2
<1>7. ASSUME NEW f \in Feeds, Send(f) PROVE Home'
  <2> DEFINE a == Adapter(f)
             h == Head(batch[f])
  <2>1. a \in Adapters /\ batch[f] \in Seq(Events) /\ out[a] \in Seq(Events)
    BY FeedFacts DEF TypeOK
  <2>2. /\ batch[f] # <<>> /\ out' = [out EXCEPT ![a] = Append(@, h)]
        /\ batch' = [batch EXCEPT ![f] = Tail(@)] /\ UNCHANGED hand
    BY <1>7 DEF Send
  <2>3. h[1] = f /\ h \in Events
    BY <2>1, <2>2, QueueTypes DEF Home
  <2>4. Adapter(h[1]) = a  BY <2>3
  <2> HIDE DEF a, h
  <2>5. \A i \in DOMAIN Tail(batch[f]) : Tail(batch[f])[i][1] = f
    <3>1. \A i \in DOMAIN Tail(batch[f]) : i + 1 \in DOMAIN batch[f] /\ Tail(batch[f])[i] = batch[f][i + 1]
      BY <2>1, <2>2, HeadTailProperties, LenProperties
    <3> QED  BY <3>1 DEF Home
  <2>6. \A i \in DOMAIN Append(out[a], h) : Adapter(Append(out[a], h)[i][1]) = a
    <3>1. \A i \in DOMAIN Append(out[a], h) :
             Append(out[a], h)[i] = h \/ (i \in DOMAIN out[a] /\ Append(out[a], h)[i] = out[a][i])
      BY <2>1, <2>3, AppendProperties, LenProperties
    <3> QED  BY <2>1, <2>4, <3>1 DEF Home
  <2>7. ASSUME NEW g \in Feeds PROVE \A i \in DOMAIN batch'[g] : batch'[g][i][1] = g
    <3>1. batch'[g] = IF g = f THEN Tail(batch[f]) ELSE batch[g]  BY <2>2 DEF TypeOK
    <3> QED  BY <2>5, <3>1 DEF Home
  <2>8. ASSUME NEW b \in Adapters PROVE \A i \in DOMAIN out'[b] : Adapter(out'[b][i][1]) = b
    <3>1. out'[b] = IF b = a THEN Append(out[a], h) ELSE out[b]  BY <2>1, <2>2 DEF TypeOK
    <3> QED  BY <2>6, <3>1 DEF Home
  <2> QED  BY <2>2, <2>7, <2>8 DEF Home
<1>8. ASSUME NEW a \in Adapters, Take(a) PROVE Home'
  <2> DEFINE h == Head(out[a])
  <2>1. /\ out[a] \in Seq(Events) /\ out[a] # <<>> /\ hand' = [hand EXCEPT ![a] = <<h>>]
        /\ out' = [out EXCEPT ![a] = Tail(@)] /\ UNCHANGED batch
    BY <1>8 DEF Take, TypeOK
  <2>2. Adapter(h[1]) = a
    BY <2>1, QueueTypes DEF Home
  <2> HIDE DEF h
  <2>3. \A i \in DOMAIN Tail(out[a]) : Adapter(Tail(out[a])[i][1]) = a
    <3>1. \A i \in DOMAIN Tail(out[a]) : i + 1 \in DOMAIN out[a] /\ Tail(out[a])[i] = out[a][i + 1]
      BY <2>1, HeadTailProperties, LenProperties
    <3> QED  BY <3>1 DEF Home
  <2>4. \A i \in DOMAIN <<h>> : Adapter(<<h>>[i][1]) = a
    BY <2>2
  <2>5. ASSUME NEW b \in Adapters PROVE \A i \in DOMAIN out'[b] : Adapter(out'[b][i][1]) = b
    <3>1. out'[b] = IF b = a THEN Tail(out[a]) ELSE out[b]  BY <2>1 DEF TypeOK
    <3> QED  BY <2>3, <3>1 DEF Home
  <2>6. ASSUME NEW b \in Adapters PROVE \A i \in DOMAIN hand'[b] : Adapter(hand'[b][i][1]) = b
    <3> DEFINE one == <<h>>
    <3>1. one = <<h>>  OBVIOUS
    <3> HIDE DEF one
    <3>2. hand'[b] = IF b = a THEN one ELSE hand[b]  BY <2>1, <3>1 DEF TypeOK
    <3> QED  BY <2>4, <3>1, <3>2 DEF Home
  <2> QED  BY <2>1, <2>5, <2>6 DEF Home
<1>9. ASSUME NEW a \in Adapters, hand' = [hand EXCEPT ![a] = <<>>], UNCHANGED <<batch, out>> PROVE Home'
  BY <1>1, <1>9 DEF Home, TypeOK
<1>10. ASSUME NEW c \in Channels, Abandon(c) PROVE Home'
  BY <1>5, <1>10, FeedFacts DEF Abandon
<1>11. CASE CloseOut
  BY <1>5, <1>11, FeedFacts DEF CloseOut
<1>12. ASSUME NEW a \in Adapters, Merge(a) \/ FanInEnds(a) PROVE Home'
  BY <1>9, <1>12 DEF Merge, FanInEnds
<1>13. CASE \/ \E f \in Feeds : Post(f)
            \/ EndOfInput \/ Signal
            \/ \E S \in SUBSET Adapters : StartAll(S)
            \/ ScanFails \/ Loop
            \/ UNCHANGED vars
  BY <1>2, <1>13 DEF Post, EndOfInput, Signal, StartAll, ScanFails, Loop, HandleEvent, SessionEnds, AllClosed,
     ShutDown, pipes, vars
<1>14. ASSUME NEW c \in Channels, Fetch(c) PROVE Home'
  <2> DEFINE lo == Page(c)[1]
             hi == Page(c)[2]
  <2>1. /\ lo =< hi /\ batch' = [batch EXCEPT ![c] = Batch(c, lo, hi)]
        /\ UNCHANGED <<out, hand>>
    BY <1>14 DEF Fetch
  <2>2. c \in Feeds /\ lo \in 1..MaxPosts /\ hi \in 1..MaxPosts
    BY <2>1, FeedFacts, PageFacts
  <2> HIDE DEF lo, hi
  <2> QED  BY <1>4, <2>1, <2>2
<1> QED
  BY <1>3, <1>6, <1>7, <1>8, <1>10, <1>11, <1>12, <1>13, <1>14 DEF Next, Goroutines

LEMMA CursorStep == TypeOK /\ Cursor /\ [Next]_vars => Cursor'
<1> SUFFICES ASSUME TypeOK, Cursor, [Next]_vars PROVE Cursor'  OBVIOUS
<1>0. Cli \in Feeds  BY FeedFacts
<1>1. CASE UNCHANGED <<posted, last, fetched>>
  BY <1>1 DEF Cursor
<1>2. CASE Exit
  <2>1. \A f \in Feeds : last'[f] = 0 /\ fetched'[f] = <<>> /\ posted'[f] \in Nat
    BY <1>2 DEF Exit, Fresh, TypeOK
  <2>2. Len(<<>>) = 0  OBVIOUS
  <2> QED  BY <1>0, <2>1, <2>2 DEF Cursor
<1>3. ASSUME NEW f \in Feeds, Post(f) PROVE Cursor'
  BY <1>3 DEF Post, pipes, Cursor, TypeOK
<1>4. ASSUME NEW c \in Channels, Fetch(c) PROVE Cursor'
  <2> DEFINE lo == Page(c)[1]
             hi == Page(c)[2]
  <2>1. /\ lo =< hi /\ last' = [last EXCEPT ![c] = lo]
        /\ fetched' = [fetched EXCEPT ![c] = @ \o Ids(lo, hi)] /\ posted' = posted
    BY <1>4 DEF Fetch, world
  <2>2. /\ c \in Feeds /\ c # Cli /\ lo \in 1..MaxPosts /\ hi \in 1..MaxPosts /\ hi =< posted[c]
        /\ posted[c] \in 0..MaxPosts /\ MaxPosts \in Nat
    BY <2>1, FeedFacts, PageFacts, BoundAssumption DEF TypeOK
  <2> HIDE DEF lo, hi
  <2>3. lo =< posted[c]  BY <2>1, <2>2
  <2>4. ASSUME NEW f \in Feeds PROVE last'[f] =< posted[f]
    <3>1. last'[f] = IF f = c THEN lo ELSE last[f]  BY <2>1 DEF TypeOK
    <3> QED  BY <2>3, <3>1 DEF Cursor
  <2>5. last'[Cli] = last[Cli] /\ fetched'[Cli] = fetched[Cli]
    BY <1>0, <2>1, <2>2 DEF TypeOK
  <2> QED  BY <2>1, <2>4, <2>5 DEF Cursor
<1>5. CASE Scan
  <2>1. /\ last[Cli] < posted[Cli] /\ last' = [last EXCEPT ![Cli] = @ + 1]
        /\ fetched' = [fetched EXCEPT ![Cli] = Append(@, last[Cli] + 1)] /\ posted' = posted
    BY <1>5 DEF Scan, world
  <2>2. last[Cli] + 1 \in 1..MaxPosts /\ last[Cli] \in Nat /\ posted[Cli] \in Nat
    BY <1>0, <1>5, ScanFacts DEF TypeOK
  <2>3. ASSUME NEW f \in Feeds PROVE last'[f] =< posted[f]
    <3>1. last'[f] = IF f = Cli THEN last[Cli] + 1 ELSE last[f]  BY <2>1 DEF TypeOK
    <3> QED  BY <2>1, <2>2, <3>1 DEF Cursor
  <2>4. last'[Cli] = Len(fetched'[Cli])
    <3>1. last'[Cli] = last[Cli] + 1 /\ fetched'[Cli] = Append(fetched[Cli], last[Cli] + 1)
      BY <1>0, <2>1 DEF TypeOK
    <3>2. fetched[Cli] \in Seq(1..MaxPosts)  BY <1>0 DEF TypeOK
    <3>3. Len(Append(fetched[Cli], last[Cli] + 1)) = Len(fetched[Cli]) + 1
      BY <2>2, <3>2, AppendProperties
    <3> QED  BY <3>1, <3>3 DEF Cursor
  <2> QED  BY <2>1, <2>3, <2>4 DEF Cursor
<1>6. CASE \/ EndOfInput \/ Signal \/ ScanFails \/ CloseOut \/ Loop
           \/ \E S \in SUBSET Adapters : StartAll(S)
           \/ \E c \in Channels : Abandon(c)
           \/ \E f \in Feeds : Send(f)
           \/ \E a \in Adapters : Take(a) \/ Merge(a) \/ FanInEnds(a)
           \/ UNCHANGED vars
  BY <1>1, <1>6 DEF EndOfInput, Signal, StartAll, Loop, HandleEvent, SessionEnds, AllClosed,
     ShutDown, ScanFails, CloseOut, Abandon, Send, Take, Merge, FanInEnds, pipes, vars, world
<1> QED  BY <1>2, <1>3, <1>4, <1>5, <1>6 DEF Next, Goroutines

\* When every fan-in goroutine has ended without a signal, stdin was among the
\* adapters and its reader has closed its channel: a poller never ends by itself.
LEMMA AllEnded ==
    ASSUME TypeOK, Ends, live, started # {}, \A a \in started : fanin[a] = "ended"
    PROVE  Cli \in closed /\ out[Cli] = <<>> /\ hand[Cli] = <<>>
<1>1. /\ \A a \in started : a \in Adapters
      /\ \A a \in closed : a = Cli
  BY DEF TypeOK
<1>2. \A a \in started : a \in closed /\ out[a] = <<>> /\ hand[a] = <<>>
  BY <1>1 DEF Ends
<1> QED  BY <1>1, <1>2

LEMMA EndsStep == TypeOK /\ Cursor /\ Ends /\ [Next]_vars => Ends'
<1> SUFFICES ASSUME TypeOK, Cursor, Ends, [Next]_vars PROVE Ends'  OBVIOUS
<1>1. CASE Exit
  BY <1>1 DEF Exit, Fresh, Ends
<1>2. ASSUME NEW S \in SUBSET Adapters, StartAll(S) PROVE Ends'
  <2>1. \A a \in Adapters : fanin'[a] # "ended"  BY <1>2 DEF StartAll
  <2>2. UNCHANGED <<live, closed, broken, eof, batch, last, posted>> /\ daemon' # "returned"
    BY <1>2 DEF StartAll, world
  <2> QED  BY <2>1, <2>2 DEF Ends
<1>3. ASSUME NEW f \in Feeds, Post(f) PROVE Ends'
  <2>1. /\ UNCHANGED <<live, closed, broken, eof, batch, last, fanin, out, hand, daemon, started>>
        /\ f = Cli => ~eof
        /\ posted' = [posted EXCEPT ![f] = @ + 1]
    BY <1>3 DEF Post, pipes
  <2>2. f # Cli => posted'[Cli] = posted[Cli]  BY <2>1, FeedFacts DEF TypeOK
  <2> QED  BY <2>1, <2>2 DEF Ends
<1>4. ASSUME NEW c \in Channels, Fetch(c) PROVE Ends'
  <2>1. batch'[Cli] = batch[Cli] /\ last'[Cli] = last[Cli]
    BY <1>4, FeedFacts DEF Fetch, TypeOK
  <2> QED  BY <1>4, <2>1 DEF Fetch, Ends, world
<1>5. ASSUME NEW c \in Channels, Abandon(c) PROVE Ends'
  BY <1>5 DEF Abandon, Ends, world
<1>6. CASE Scan
  BY <1>6 DEF Scan, Ends, world
<1>7. CASE CloseOut
  <2>1. batch'[Cli] = <<>>  BY <1>7, FeedFacts DEF CloseOut, TypeOK
  <2>2. live => eof /\ last[Cli] = posted[Cli]  BY <1>7 DEF CloseOut
  <2>3. /\ UNCHANGED <<live, eof, last, posted, fanin, out, hand, daemon, started>>
        /\ closed \subseteq closed'
    BY <1>7 DEF CloseOut, world
  <2> QED  BY <2>1, <2>2, <2>3 DEF Ends
<1>8. ASSUME NEW f \in Feeds, Send(f) PROVE Ends'
  <2>1. /\ batch[f] # <<>>
        /\ UNCHANGED <<live, closed, broken, eof, last, posted, fanin, hand, daemon, started>>
        /\ batch' = [batch EXCEPT ![f] = Tail(@)]
        /\ out' = [out EXCEPT ![Adapter(f)] = Append(@, Head(batch[f]))]
    BY <1>8 DEF Send, world
  <2>2. CASE f = Cli
    <3>1. live => Cli \notin closed  BY <2>1, <2>2 DEF Ends
    <3>2. live => \A a \in Adapters : fanin[a] # "ended"
      BY <3>1, FeedFacts DEF Ends, TypeOK
    <3> QED  BY <2>1, <3>1, <3>2 DEF Ends
  <2>3. CASE f # Cli
    <3>1. Adapter(f) = Discord /\ Discord # Cli  BY <2>3, FeedFacts DEF Adapter
    <3>2. batch'[Cli] = batch[Cli] /\ (\A a \in Adapters : a # Discord => out'[a] = out[a])
      BY <2>1, <2>3, <3>1, FeedFacts DEF TypeOK
    <3>3. live => fanin[Discord] # "ended"
      BY <3>1 DEF Ends, TypeOK, Adapters
    <3> QED  BY <2>1, <3>2, <3>3 DEF Ends
  <2> QED  BY <2>2, <2>3
<1>9. ASSUME NEW a \in Adapters, Take(a) \/ Merge(a) PROVE Ends'
  <2>1. /\ fanin[a] = "running"
        /\ UNCHANGED <<live, closed, broken, eof, last, posted, fanin, batch, daemon, started>>
        /\ \A b \in Adapters : b # a => out'[b] = out[b] /\ hand'[b] = hand[b]
    BY <1>9 DEF Take, Merge, TypeOK, world
  <2> QED  BY <2>1 DEF Ends
<1>10. ASSUME NEW a \in Adapters, FanInEnds(a) PROVE Ends'
  <2>1. /\ live => a \in closed /\ out[a] = <<>> /\ hand'[a] = <<>>
        /\ UNCHANGED <<live, closed, broken, eof, last, posted, batch, out, daemon, started>>
        /\ \A b \in Adapters : b # a => fanin'[b] = fanin[b] /\ hand'[b] = hand[b]
    BY <1>10 DEF FanInEnds, TypeOK, world
  <2> QED  BY <2>1 DEF Ends
<1>11. CASE \/ EndOfInput \/ Signal \/ UNCHANGED vars
            \/ \E failed \in FailedStatements : HandleEvent(failed)
            \/ SessionEnds \/ ShutDown
  <2>1. /\ UNCHANGED <<closed, broken, last, posted, batch, out, hand, fanin, started>>
        /\ live' => live
        /\ eof => eof'
    BY <1>11 DEF EndOfInput, Signal, HandleEvent, SessionEnds, ShutDown, pipes, vars, world
  <2>2. daemon' = "returned" => daemon = "returned" \/ ~live \/ started = {}
    BY <1>11 DEF EndOfInput, Signal, HandleEvent, SessionEnds, ShutDown, vars
  <2> QED  BY <2>1, <2>2 DEF Ends
<1>12. CASE AllClosed
  <2>1. UNCHANGED <<closed, broken, last, posted, batch, out, hand, fanin, started, live, eof>>
    BY <1>12 DEF AllClosed, pipes, world
  <2>2. live /\ started # {} => Cli \in closed  BY <1>12, AllEnded DEF AllClosed
  <2> QED  BY <2>1, <2>2 DEF Ends
<1>13. CASE ScanFails
  <2>1. /\ batch[Cli] = <<>> /\ broken' = TRUE /\ closed \subseteq closed'
        /\ UNCHANGED <<live, eof, last, posted, fanin, batch, out, hand, daemon, started>>
    BY <1>13 DEF ScanFails, world
  <2> QED  BY <2>1 DEF Ends
<1> QED
  BY <1>1, <1>2, <1>3, <1>4, <1>5, <1>6, <1>7, <1>8, <1>9, <1>10, <1>11, <1>12, <1>13
  DEF Next, Goroutines, Loop

\* What the flow of stdin says once nothing is left in any buffer.
LEMMA DrainedFlow ==
    ASSUME TypeOK, Cursor, Flow(Cli), merged = <<>>, hand[Cli] = <<>>, out[Cli] = <<>>,
           batch[Cli] = <<>>
    PROVE  handled[Cli] = [i \in 1..last[Cli] |-> i]
<1>1. /\ Cli \in Feeds /\ Adapter(Cli) = Cli /\ last[Cli] \in Nat
      /\ handled[Cli] \in Seq(Nat \ {0})
  BY FeedFacts DEF TypeOK
<1>2. /\ Len(handled[Cli]) \in Nat /\ DOMAIN handled[Cli] = 1..Len(handled[Cli])
      /\ handled[Cli] \in [1..Len(handled[Cli]) -> Nat \ {0}]
  BY <1>1, LenProperties
<1>3. Read(Cli) = last[Cli] + 1 /\ Read(Cli) \in Int
  BY <1>1 DEF Read, Cursor
<1>4. PICK x, y, z \in Nat : /\ InOrder(Cli, <<>>, Due(Cli), x) /\ InOrder(Cli, <<>>, x, y)
                              /\ InOrder(Cli, <<>>, y, z) /\ InOrder(Cli, <<>>, z, Read(Cli))
  BY <1>1 DEF Flow, Runs
<1>5. Due(Cli) \in Int /\ Due(Cli) = Len(handled[Cli]) + 1
  BY <1>2 DEF Due
<1>6. Due(Cli) = x /\ x = y /\ y = z /\ z = Read(Cli)
  <2>1. <<>> \in Seq(Events) /\ DOMAIN <<>> = {} /\ x \in Int /\ y \in Int /\ z \in Int
    OBVIOUS
  <2>2. \A i \in DOMAIN <<>> : <<>>[i][1] # Cli  BY <2>1
  <2> QED  BY <1>3, <1>4, <1>5, <2>1, <2>2, NoneInOrder
<1>7. Len(handled[Cli]) = last[Cli]
  BY <1>1, <1>2, <1>3, <1>5, <1>6
<1>8. \A i \in 1..Len(handled[Cli]) : handled[Cli][i] = i
  BY <1>2 DEF Flow
<1> QED  BY <1>2, <1>7, <1>8

LEMMA EofStep ==
    ASSUME TypeOK, Cursor, FlowInv, Ends, EofDrains, [Next]_vars
    PROVE  EofDrains'
<1>1. CASE AllClosed
  <2> SUFFICES ASSUME live, started # {}
               PROVE  /\ handled'[Cli] = [i \in 1..last'[Cli] |-> i]
                      /\ (eof' /\ last'[Cli] = posted'[Cli]) \/ broken'
    BY <1>1 DEF AllClosed, EofDrains
  <2>1. /\ merged = <<>> /\ UNCHANGED <<eof, posted, last, broken, handled>>
        /\ \A a \in started : fanin[a] = "ended"
    BY <1>1 DEF AllClosed, world, pipes
  <2>2. Cli \in closed /\ out[Cli] = <<>> /\ hand[Cli] = <<>>  BY <2>1, AllEnded
  <2>3. batch[Cli] = <<>> /\ ((eof /\ last[Cli] = posted[Cli]) \/ broken)
    BY <2>2 DEF Ends
  <2>4. Flow(Cli)  BY FeedFacts DEF FlowInv
  <2>5. handled[Cli] = [i \in 1..last[Cli] |-> i]
    BY <2>1, <2>2, <2>3, <2>4, DrainedFlow
  <2> QED  BY <2>1, <2>3, <2>5
<1>2. CASE Exit \/ (\E S \in SUBSET Adapters : StartAll(S)) \/ ShutDown
  BY <1>2 DEF Exit, Fresh, StartAll, ShutDown, EofDrains
<1>3. CASE SessionEnds
  BY <1>3 DEF SessionEnds, EofDrains, world, pipes
<1>4. ASSUME NEW f \in Feeds, Post(f) PROVE EofDrains'
  <2>1. /\ UNCHANGED <<daemon, live, started, eof, last, broken, handled>> /\ (f = Cli => ~eof)
        /\ posted' = [posted EXCEPT ![f] = @ + 1]
    BY <1>4 DEF Post, pipes
  <2>2. f # Cli => posted'[Cli] = posted[Cli]  BY <2>1, FeedFacts DEF TypeOK
  <2> QED  BY <2>1, <2>2 DEF EofDrains
<1>5. CASE \E failed \in FailedStatements : HandleEvent(failed)
  <2>1. daemon' # "returned"  BY <1>5 DEF HandleEvent
  <2> QED  BY <2>1 DEF EofDrains
<1>6. CASE Scan
  <2>1. Cli \notin closed /\ UNCHANGED <<daemon, live, started>>  BY <1>6 DEF Scan
  <2>2. ~(daemon = "returned" /\ live /\ started # {})  BY <2>1 DEF Ends
  <2> QED  BY <2>1, <2>2 DEF EofDrains
<1>7. ASSUME UNCHANGED <<daemon, started, posted, handled>>, last'[Cli] = last[Cli],
             live' => live, eof => eof', broken => broken'
      PROVE  EofDrains'
  BY <1>7 DEF EofDrains
<1>8. ASSUME NEW c \in Channels, Fetch(c) PROVE EofDrains'
  <2>1. last'[Cli] = last[Cli]  BY <1>8, FeedFacts DEF Fetch, TypeOK
  <2> QED  BY <1>7, <1>8, <2>1 DEF Fetch, world
<1>9. CASE \/ EndOfInput \/ Signal \/ ScanFails \/ CloseOut
           \/ \E c \in Channels : Abandon(c)
           \/ \E f \in Feeds : Send(f)
           \/ \E a \in Adapters : Take(a) \/ Merge(a) \/ FanInEnds(a)
           \/ UNCHANGED vars
  <2>1. /\ UNCHANGED <<daemon, started, posted, handled, last>>
        /\ live' => live
        /\ eof => eof'
        /\ broken => broken'
    BY <1>9 DEF EndOfInput, Signal, ScanFails, CloseOut, Abandon, Send, Take, Merge, FanInEnds,
       pipes, vars, world
  <2> QED  BY <1>7, <2>1
<1> QED  BY <1>1, <1>2, <1>3, <1>4, <1>5, <1>6, <1>8, <1>9 DEF Next, Loop, Goroutines

-----------------------------------------------------------------------------
(* The flow of one feed through each step.                                  *)

LEMMA FlowTypes ==
    ASSUME TypeOK, NEW f \in Feeds
    PROVE  /\ Adapter(f) \in Adapters
           /\ merged \in Seq(Events) /\ hand[Adapter(f)] \in Seq(Events)
           /\ out[Adapter(f)] \in Seq(Events) /\ batch[f] \in Seq(Events)
           /\ Due(f) \in Nat /\ Read(f) \in Nat /\ Len(handled[f]) \in Nat
           /\ handled[f] \in Seq(Nat \ {0}) /\ DOMAIN handled[f] = 1..Len(handled[f])
<1>1. /\ Adapter(f) \in Adapters /\ fetched[f] \in Seq(1..MaxPosts)
      /\ handled[f] \in Seq(Nat \ {0})
  BY FeedFacts DEF TypeOK
<1>2. /\ Len(handled[f]) \in Nat /\ DOMAIN handled[f] = 1..Len(handled[f])
      /\ Len(fetched[f]) \in Nat
  BY <1>1, LenProperties
<1>3. Due(f) \in Nat /\ Read(f) \in Nat  BY <1>2 DEF Due, Read
<1>4. /\ merged \in Seq(Events) /\ hand[Adapter(f)] \in Seq(Events)
      /\ out[Adapter(f)] \in Seq(Events) /\ batch[f] \in Seq(Events)
  BY <1>1 DEF TypeOK
<1> QED  BY <1>1, <1>2, <1>3, <1>4

LEMMA SendFlow ==
    ASSUME TypeOK, Home, NEW g \in Feeds, Send(g), NEW f \in Feeds, Flow(f)
    PROVE  Flow(f)'
<1> DEFINE A == Adapter(f)
           h == Head(batch[g])
<1>0. /\ batch[g] # <<>> /\ out' = [out EXCEPT ![Adapter(g)] = Append(@, h)]
      /\ batch' = [batch EXCEPT ![g] = Tail(@)]
      /\ UNCHANGED <<merged, hand, handled, fetched>>
  BY DEF Send
<1>1. /\ A \in Adapters /\ out[A] \in Seq(Events) /\ batch[f] \in Seq(Events)
      /\ Read(f) \in Nat
  BY FlowTypes
<1>2. batch[g] \in Seq(Events) /\ Adapter(g) \in Adapters  BY FlowTypes
<1>3. h \in Events /\ h[1] = g
  BY <1>0, <1>2, QueueTypes DEF Home
<1>4. PICK x, y, z \in Nat : /\ InOrder(f, merged, Due(f), x) /\ InOrder(f, hand[A], x, y)
                              /\ InOrder(f, out[A], y, z) /\ InOrder(f, batch[f], z, Read(f))
  BY DEF Flow, Runs
<1>5. x \in Int /\ y \in Int /\ z \in Int /\ Read(f) \in Int  BY <1>1
<1>6. /\ Due(f)' = Due(f) /\ Read(f)' = Read(f) /\ merged' = merged /\ hand'[A] = hand[A]
      /\ handled' = handled
  BY <1>0 DEF Due, Read
<1>7. /\ batch'[f] = IF f = g THEN Tail(batch[f]) ELSE batch[f]
      /\ out'[A] = IF A = Adapter(g) THEN Append(out[A], h) ELSE out[A]
  BY <1>0, <1>1, <1>2 DEF TypeOK
<1>8. SUFFICES \E u \in Nat : InOrder(f, out'[A], y, u) /\ InOrder(f, batch'[f], u, Read(f))
  BY <1>4, <1>6 DEF Flow, Runs
<1>9. CASE f = g
  <2>1. h[2] = z /\ z < Read(f) /\ InOrder(f, Tail(batch[f]), z + 1, Read(f))
    BY <1>0, <1>1, <1>3, <1>4, <1>5, <1>9, InOrderTail
  <2>2. InOrder(f, Append(out[A], h), y, z + 1)
    BY <1>1, <1>3, <1>4, <1>5, <1>9, <2>1, InOrderAppend
  <2>3. z + 1 \in Nat  OBVIOUS
  <2>4. batch'[f] = Tail(batch[f]) /\ out'[A] = Append(out[A], h)  BY <1>7, <1>9
  <2> QED  BY <2>1, <2>2, <2>3, <2>4
<1>10. CASE f # g
  <2>1. h[1] # f  BY <1>3, <1>10
  <2>2. InOrder(f, Append(out[A], h), y, z)
    BY <1>1, <1>3, <1>4, <1>5, <2>1, InOrderAppend
  <2>3. InOrder(f, out'[A], y, z)
    BY <1>4, <1>7, <2>2
  <2>4. batch'[f] = batch[f]  BY <1>7, <1>10
  <2> QED  BY <1>4, <2>3, <2>4
<1> QED  BY <1>9, <1>10

LEMMA TakeFlow ==
    ASSUME TypeOK, Home, NEW a \in Adapters, Take(a), NEW f \in Feeds, Flow(f)
    PROVE  Flow(f)'
<1> DEFINE A == Adapter(f)
           h == Head(out[a])
<1>0. /\ hand[a] = <<>> /\ out[a] # <<>> /\ out' = [out EXCEPT ![a] = Tail(@)]
      /\ hand' = [hand EXCEPT ![a] = <<h>>]
      /\ UNCHANGED <<merged, batch, handled, fetched>>
  BY DEF Take
<1>1. A \in Adapters /\ out[A] \in Seq(Events) /\ hand[A] \in Seq(Events)
  BY FlowTypes
<1>2. PICK x, y, z \in Nat : /\ InOrder(f, merged, Due(f), x) /\ InOrder(f, hand[A], x, y)
                              /\ InOrder(f, out[A], y, z) /\ InOrder(f, batch[f], z, Read(f))
  BY DEF Flow, Runs
<1>3. x \in Int /\ y \in Int /\ z \in Int  OBVIOUS
<1>4. /\ Due(f)' = Due(f) /\ Read(f)' = Read(f) /\ merged' = merged /\ batch' = batch
      /\ handled' = handled
  BY <1>0 DEF Due, Read
<1>5. SUFFICES \E u \in Nat : InOrder(f, hand'[A], x, u) /\ InOrder(f, out'[A], u, z)
  BY <1>2, <1>4 DEF Flow, Runs
<1>6. CASE A # a
  <2>1. hand'[A] = hand[A] /\ out'[A] = out[A]  BY <1>0, <1>1, <1>6 DEF TypeOK
  <2> QED  BY <1>2, <2>1
<1>7. CASE A = a
  <2>1. hand'[A] = <<h>> /\ out'[A] = Tail(out[A])
    <3> DEFINE one == <<h>>
    <3>1. hand' = [hand EXCEPT ![a] = one] /\ one = <<h>>  BY <1>0
    <3> HIDE DEF one
    <3>2. hand'[A] = one  BY <1>7, <3>1 DEF TypeOK
    <3>3. out'[A] = Tail(out[A])  BY <1>0, <1>7 DEF TypeOK
    <3> QED  BY <3>1, <3>2, <3>3
  <2>2. \A i \in DOMAIN hand[A] : hand[A][i][1] # f  BY <1>0, <1>7
  <2>3. x = y  BY <1>1, <1>2, <1>3, <2>2, NoneInOrder
  <2>4. CASE h[1] = f
    <3>1. h[2] = y /\ y < z /\ InOrder(f, Tail(out[A]), y + 1, z)
      BY <1>0, <1>1, <1>2, <1>3, <1>7, <2>4, InOrderTail
    <3>2. InOrder(f, <<h>>, y, y + 1)  BY <1>3, <2>4, <3>1, InOrderOne
    <3>3. y + 1 \in Nat  OBVIOUS
    <3> QED  BY <2>1, <2>3, <3>1, <3>2, <3>3
  <2>5. CASE h[1] # f
    <3>1. InOrder(f, Tail(out[A]), y, z)
      BY <1>0, <1>1, <1>2, <1>3, <1>7, <2>5, InOrderTail
    <3>2. h \in Events  BY <1>0, <1>1, <1>7, QueueTypes
    <3>3. <<h>> \in Seq(Events) /\ \A i \in DOMAIN <<h>> : <<h>>[i][1] # f  BY <2>5, <3>2
    <3>4. InOrder(f, <<h>>, y, y)  BY <1>3, <3>3, InOrderNone
    <3> QED  BY <2>1, <2>3, <3>1, <3>4
  <2> QED  BY <2>4, <2>5
<1> QED  BY <1>6, <1>7

LEMMA MergeFlow ==
    ASSUME TypeOK, Home, NEW a \in Adapters, Merge(a), NEW f \in Feeds, Flow(f)
    PROVE  Flow(f)'
<1> DEFINE A == Adapter(f)
<1>0. /\ merged' = merged \o hand[a] /\ hand' = [hand EXCEPT ![a] = <<>>]
      /\ UNCHANGED <<out, batch, handled, fetched>>
  BY DEF Merge
<1>1. /\ A \in Adapters /\ merged \in Seq(Events) /\ hand[A] \in Seq(Events)
      /\ hand[a] \in Seq(Events) /\ Due(f) \in Int
  <2>1. hand[a] \in Seq(Events)  BY DEF TypeOK
  <2>2. A \in Adapters /\ merged \in Seq(Events) /\ hand[A] \in Seq(Events) /\ Due(f) \in Nat
    BY FlowTypes
  <2> QED  BY <2>1, <2>2
<1>2. PICK x, y, z \in Nat : /\ InOrder(f, merged, Due(f), x) /\ InOrder(f, hand[A], x, y)
                              /\ InOrder(f, out[A], y, z) /\ InOrder(f, batch[f], z, Read(f))
  BY DEF Flow, Runs
<1>3. x \in Int /\ y \in Int /\ z \in Int  OBVIOUS
<1>4. /\ Due(f)' = Due(f) /\ Read(f)' = Read(f) /\ out' = out /\ batch' = batch
      /\ handled' = handled
  BY <1>0 DEF Due, Read
<1>5. SUFFICES \E u \in Nat : InOrder(f, merged', Due(f), u) /\ InOrder(f, hand'[A], u, y)
  BY <1>2, <1>4 DEF Flow, Runs
<1>6. CASE A # a
  <2>1. hand'[A] = hand[A]  BY <1>0, <1>1, <1>6 DEF TypeOK
  <2>2. \A i \in DOMAIN hand[a] : hand[a][i][1] # f  BY <1>6 DEF Home
  <2>3. InOrder(f, hand[a], x, x)  BY <1>1, <1>3, <2>2, InOrderNone
  <2>4. InOrder(f, merged', Due(f), x)  BY <1>0, <1>1, <1>2, <1>3, <2>3, InOrderConcat
  <2> QED  BY <1>2, <2>1, <2>4
<1>7. CASE A = a
  <2>1. hand'[A] = <<>>  BY <1>0, <1>7 DEF TypeOK
  <2>2. InOrder(f, <<>>, y, y)  BY <1>3, InOrderEmpty
  <2>3. InOrder(f, merged', Due(f), y)  BY <1>0, <1>1, <1>2, <1>3, <1>7, InOrderConcat
  <2> QED  BY <2>1, <2>2, <2>3
<1> QED  BY <1>6, <1>7

\* A poller or the reader, with nothing left to send, has read a batch.
LEMMA ReadFlow ==
    ASSUME TypeOK, NEW g \in Feeds, NEW lo \in 1..MaxPosts, NEW hi \in 1..MaxPosts, lo =< hi,
           batch[g] = <<>>, batch' = [batch EXCEPT ![g] = Batch(g, lo, hi)],
           Len(fetched'[g]) = Len(fetched[g]) + (hi - lo + 1),
           \A h \in Feeds : h # g => fetched'[h] = fetched[h],
           UNCHANGED <<merged, hand, out, handled>>,
           NEW f \in Feeds, Flow(f)
    PROVE  Flow(f)'
<1> DEFINE new == Batch(g, lo, hi)
<1>1. batch'[f] = IF f = g THEN new ELSE batch[f]  BY DEF TypeOK
<1>2. InOrder(g, new, Read(g), Read(g)')
  <2>1. InOrder(g, new, Len(fetched[g]) + 1, Len(fetched[g]) + (hi - lo + 1) + 1)
    BY InOrderPage
  <2> QED  BY <2>1 DEF Read
<1> HIDE DEF new
<1>3. Due(f)' = Due(f)  BY DEF Due
<1>4. CASE f # g
  <2>1. batch'[f] = batch[f] /\ Read(f)' = Read(f)  BY <1>1, <1>4 DEF Read
  <2> QED  BY <1>3, <2>1 DEF Flow
<1>5. CASE f = g
  <2>1. PICK x, y, z \in Nat :
           /\ InOrder(f, merged, Due(f), x) /\ InOrder(f, hand[Adapter(f)], x, y)
           /\ InOrder(f, out[Adapter(f)], y, z) /\ InOrder(f, batch[f], z, Read(f))
    BY DEF Flow, Runs
  <2>2. z = Read(f)
    <3>1. \A i \in DOMAIN batch[f] : batch[f][i][1] # f  BY <1>5
    <3>2. batch[f] \in Seq(Events) /\ z \in Int /\ Read(f) \in Int  BY FlowTypes
    <3> QED  BY <2>1, <3>1, <3>2, NoneInOrder
  <2>3. InOrder(f, batch'[f], z, Read(f)')  BY <1>1, <1>2, <1>5, <2>2
  <2>4. Runs(f, merged', hand'[Adapter(f)], out'[Adapter(f)], batch'[f], Due(f)', Read(f)')
    BY <1>3, <2>1, <2>3 DEF Runs
  <2> QED  BY <2>4 DEF Flow
<1> QED  BY <1>4, <1>5

LEMMA ScanFlow ==
    ASSUME TypeOK, Scan, NEW f \in Feeds, Flow(f)
    PROVE  Flow(f)'
<1> DEFINE n == last[Cli] + 1
<1>1. /\ batch[Cli] = <<>> /\ batch' = [batch EXCEPT ![Cli] = Batch(Cli, n, n)]
      /\ fetched' = [fetched EXCEPT ![Cli] = Append(@, n)]
      /\ UNCHANGED <<merged, hand, out, handled>>
  BY DEF Scan
<1>2. Cli \in Feeds /\ n \in 1..MaxPosts /\ n =< n  BY ScanFacts
<1> HIDE DEF n
<1>3. Len(fetched'[Cli]) = Len(fetched[Cli]) + (n - n + 1)
  <2>1. fetched[Cli] \in Seq(1..MaxPosts) /\ fetched'[Cli] = Append(fetched[Cli], n)
    BY <1>1, <1>2 DEF TypeOK
  <2>2. Len(fetched'[Cli]) = Len(fetched[Cli]) + 1  BY <1>2, <2>1, AppendProperties
  <2>3. n - n + 1 = 1  BY <1>2, BoundAssumption
  <2> QED  BY <2>2, <2>3
<1>4. \A h \in Feeds : h # Cli => fetched'[h] = fetched[h]  BY <1>1 DEF TypeOK
<1> QED  BY <1>1, <1>2, <1>3, <1>4, ReadFlow

LEMMA FetchFlow ==
    ASSUME TypeOK, NEW c \in Channels, Fetch(c), NEW f \in Feeds, Flow(f)
    PROVE  Flow(f)'
<1> DEFINE lo == Page(c)[1]
           hi == Page(c)[2]
<1>1. /\ batch[c] = <<>> /\ lo =< hi /\ batch' = [batch EXCEPT ![c] = Batch(c, lo, hi)]
      /\ fetched' = [fetched EXCEPT ![c] = @ \o Ids(lo, hi)]
      /\ UNCHANGED <<merged, hand, out, handled>>
  BY DEF Fetch
<1>2. c \in Feeds /\ lo \in 1..MaxPosts /\ hi \in 1..MaxPosts
  BY <1>1, FeedFacts, PageFacts
<1> HIDE DEF lo, hi
<1>3. Len(fetched'[c]) = Len(fetched[c]) + (hi - lo + 1)
  <2>1. fetched[c] \in Seq(1..MaxPosts) /\ fetched'[c] = fetched[c] \o Ids(lo, hi)
    BY <1>1, <1>2 DEF TypeOK
  <2>2. Ids(lo, hi) \in Seq(1..MaxPosts) /\ Len(Ids(lo, hi)) = hi - lo + 1
    BY <1>1, <1>2, IdsFacts
  <2>3. Len(fetched[c] \o Ids(lo, hi)) = Len(fetched[c]) + Len(Ids(lo, hi))
    BY <2>1, <2>2, ConcatProperties
  <2> QED  BY <2>1, <2>2, <2>3
<1>4. \A h \in Feeds : h # c => fetched'[h] = fetched[h]  BY <1>1 DEF TypeOK
<1> QED  BY <1>1, <1>2, <1>3, <1>4, ReadFlow

LEMMA HandleFlow ==
    ASSUME TypeOK, NEW failed \in FailedStatements, HandleEvent(failed), NEW f \in Feeds, Flow(f)
    PROVE  Flow(f)'
<1> DEFINE ev == Head(merged)
           A == Adapter(f)
<1>0. /\ merged # <<>> /\ merged' = Tail(merged)
      /\ handled' = [handled EXCEPT ![ev[1]] = Append(@, ev[2])]
      /\ UNCHANGED <<hand, out, batch, fetched>>
  BY DEF HandleEvent
<1>1. /\ merged \in Seq(Events) /\ Due(f) \in Nat
      /\ Len(handled[f]) \in Nat /\ DOMAIN handled[f] = 1..Len(handled[f])
      /\ handled[f] \in Seq(Nat \ {0})
  BY FlowTypes
<1>2. PICK x, y, z \in Nat :
         /\ InOrder(f, merged, Due(f), x) /\ InOrder(f, hand[A], x, y)
         /\ InOrder(f, out[A], y, z) /\ InOrder(f, batch[f], z, Read(f))
  BY DEF Flow, Runs
<1>3. x \in Int  OBVIOUS
<1>4. Read(f)' = Read(f)  BY <1>0 DEF Read
<1>5. ev \in Events /\ ev[1] \in Feeds /\ ev[2] \in Nat \ {0}
  BY <1>0, <1>1, QueueTypes, EventFacts
<1>6. SUFFICES /\ \A i \in DOMAIN handled'[f] : handled'[f][i] = i
               /\ InOrder(f, Tail(merged), Due(f)', x)
  BY <1>0, <1>2, <1>4 DEF Flow, Runs
<1>7. CASE ev[1] # f
  <2>1. handled'[f] = handled[f]  BY <1>0, <1>7 DEF TypeOK
  <2>2. Due(f)' = Due(f)  BY <2>1 DEF Due
  <2>3. InOrder(f, Tail(merged), Due(f), x)
    BY <1>0, <1>1, <1>2, <1>3, <1>7, InOrderTail
  <2> QED  BY <2>1, <2>2, <2>3 DEF Flow
<1>8. CASE ev[1] = f
  <2> DEFINE n == Len(handled[f])
             h == handled'[f]
  <2>1. h = Append(handled[f], ev[2])
    BY <1>0, <1>5, <1>8 DEF TypeOK
  <2>2. ev[2] = Due(f) /\ InOrder(f, Tail(merged), Due(f) + 1, x)
    <3>1. /\ merged \in Seq(Events) /\ merged # <<>> /\ Head(merged)[1] = f
          /\ Due(f) \in Int /\ x \in Int /\ InOrder(f, merged, Due(f), x)
      BY <1>0, <1>1, <1>2, <1>3, <1>8
    <3> QED  BY <3>1, InOrderTail
  <2>3. ev[2] = n + 1  BY <2>2 DEF Due
  <2>4. /\ Len(h) = n + 1 /\ h \in Seq(Nat \ {0}) /\ h[n + 1] = ev[2]
        /\ \A i \in 1..n : h[i] = handled[f][i]
    BY <1>1, <1>5, <2>1, AppendProperties
  <2>5. DOMAIN h = 1..(n + 1)  BY <2>4, LenProperties
  <2>6. Due(f)' = Due(f) + 1  BY <2>4 DEF Due
  <2>7. ASSUME NEW i \in 1..(n + 1) PROVE h[i] = i
    <3>1. CASE i = n + 1  BY <1>1, <2>3, <2>4, <3>1
    <3>2. CASE i # n + 1
      <4>1. i \in 1..n  BY <1>1, <3>2
      <4> QED  BY <1>1, <2>4, <4>1 DEF Flow
    <3> QED  BY <3>1, <3>2
  <2> QED  BY <2>2, <2>5, <2>6, <2>7
<1> QED  BY <1>7, <1>8

LEMMA FlowStep ==
    ASSUME TypeOK, Home, FlowInv, [Next]_vars
    PROVE  FlowInv'
<1> SUFFICES ASSUME live', NEW f \in Feeds PROVE Flow(f)'
  BY DEF FlowInv
<1>1. CASE Exit
  <2>1. /\ batch'[f] = <<>> /\ handled'[f] = <<>> /\ fetched'[f] = <<>> /\ merged' = <<>>
        /\ \A a \in Adapters : out'[a] = <<>> /\ hand'[a] = <<>>
    BY <1>1 DEF Exit, Fresh
  <2>2. DOMAIN <<>> = {} /\ Len(<<>>) = 0  OBVIOUS
  <2>3. Due(f)' = 1 /\ Read(f)' = 1  BY <2>1, <2>2 DEF Due, Read
  <2>4. InOrder(f, <<>>, 1, 1)  BY InOrderEmpty
  <2>5. Adapter(f) \in Adapters  BY FeedFacts
  <2>6. Runs(f, <<>>, <<>>, <<>>, <<>>, 1, 1)  BY <2>4, <2>5 DEF Runs
  <2>7. out'[Adapter(f)] = <<>> /\ hand'[Adapter(f)] = <<>>  BY <2>1, <2>5
  <2> QED  BY <2>1, <2>2, <2>3, <2>6, <2>7 DEF Flow
<1>2. live \/ Exit
  BY DEF Next, Post, EndOfInput, Signal, StartAll, Goroutines, Loop, Fetch, Abandon, Scan, ScanFails,
     CloseOut, Send, Take, Merge, FanInEnds, HandleEvent, SessionEnds, AllClosed, ShutDown, vars
<1> SUFFICES ASSUME live PROVE Flow(f)'
  BY <1>1, <1>2
<1>3. Flow(f)  BY DEF FlowInv
<1>4. CASE UNCHANGED <<merged, hand, out, batch, fetched, handled>>
  BY <1>3, <1>4 DEF Flow, Due, Read
<1>5. CASE CloseOut
  <2>1. batch' = batch
    <3>1. batch[Cli] = <<>> /\ batch' = [batch EXCEPT ![Cli] = <<>>]  BY <1>5 DEF CloseOut
    <3> QED  BY <3>1 DEF TypeOK
  <2> QED  BY <1>4, <1>5, <2>1 DEF CloseOut
<1>6. ASSUME NEW a \in Adapters, FanInEnds(a) PROVE Flow(f)'
  <2>1. hand' = hand
    <3>1. hand[a] = <<>> /\ hand' = [hand EXCEPT ![a] = <<>>]  BY <1>6 DEF FanInEnds
    <3> QED  BY <3>1 DEF TypeOK
  <2> QED  BY <1>4, <1>6, <2>1 DEF FanInEnds
<1>7. ASSUME NEW c \in Channels, Abandon(c) PROVE FALSE
  BY <1>7 DEF Abandon
<1>8. CASE \/ \E g \in Feeds : Post(g)
           \/ EndOfInput \/ Signal \/ ScanFails
           \/ \E S \in SUBSET Adapters : StartAll(S)
           \/ SessionEnds \/ AllClosed \/ ShutDown
           \/ UNCHANGED vars
  BY <1>4, <1>8 DEF Post, EndOfInput, Signal, ScanFails, StartAll, SessionEnds, AllClosed, ShutDown,
     pipes, vars
<1>9. ASSUME NEW c \in Channels, Fetch(c) PROVE Flow(f)'  BY <1>3, <1>9, FetchFlow
<1>10. CASE Scan  BY <1>3, <1>10, ScanFlow
<1>11. ASSUME NEW g \in Feeds, Send(g) PROVE Flow(f)'  BY <1>3, <1>11, SendFlow
<1>12. ASSUME NEW a \in Adapters, Take(a) PROVE Flow(f)'  BY <1>3, <1>12, TakeFlow
<1>13. ASSUME NEW a \in Adapters, Merge(a) PROVE Flow(f)'  BY <1>3, <1>13, MergeFlow
<1>14. ASSUME NEW failed \in FailedStatements, HandleEvent(failed) PROVE Flow(f)'
  BY <1>3, <1>14, HandleFlow
<1> QED
  BY <1>1, <1>5, <1>6, <1>7, <1>8, <1>9, <1>10, <1>11, <1>12, <1>13, <1>14 DEF Next, Goroutines, Loop

-----------------------------------------------------------------------------
(* Pages.                                                                   *)

\* What has been read of a channel has no gap, and the cursor is in it.
Span(c) ==
    LET R == Range(fetched[c])
    IN  /\ last[c] = 0 => fetched[c] = <<>>
        /\ last[c] # 0 => last[c] \in R
        /\ \A x, y \in R : \A id \in x..y : id \in R

\* How often a message may have been read when the cursor is where it is: each
\* fetch moves the cursor one message closer to it, from the first page it was on.
Quota(c, id) ==
    IF last[c] = 0 \/ id > last[c] + PageSize THEN 0
    ELSE IF id =< last[c] THEN PageSize ELSE last[c] + PageSize - id

Repeats(c) ==
    \A id \in 1..MaxPosts : /\ IsFiniteSet(Readings(c, id))
                            /\ Cardinality(Readings(c, id)) =< Quota(c, id)

Pages == \A c \in Channels : Span(c) /\ Repeats(c)

\* Both hold of a channel of which nothing has been read.
Blank == \A c \in Channels : last[c] = 0 /\ fetched[c] = <<>> => Span(c) /\ Repeats(c)

LEMMA NothingRead == Blank
<1> SUFFICES ASSUME NEW c \in Channels, last[c] = 0, fetched[c] = <<>>
             PROVE  Span(c) /\ Repeats(c)
  BY DEF Blank
<1>1. DOMAIN <<>> = {}  OBVIOUS
<1>2. Range(fetched[c]) = {}  BY <1>1 DEF Range
<1>3. Span(c)  BY <1>2 DEF Span
<1>4. ASSUME NEW id \in 1..MaxPosts
      PROVE  IsFiniteSet(Readings(c, id)) /\ Cardinality(Readings(c, id)) =< Quota(c, id)
  <2>1. Readings(c, id) = {}  BY <1>1 DEF Readings
  <2>2. IsFiniteSet({}) /\ Cardinality({}) = 0  BY FS_EmptySet
  <2>3. Quota(c, id) = 0  BY DEF Quota
  <2> QED  BY <2>1, <2>2, <2>3
<1> QED  BY <1>3, <1>4 DEF Repeats

LEMMA RangeConcat ==
    ASSUME NEW S, NEW s \in Seq(S), NEW t \in Seq(S)
    PROVE  Range(s \o t) = Range(s) \cup Range(t)
<1>1. /\ Len(s) \in Nat /\ Len(t) \in Nat /\ DOMAIN s = 1..Len(s) /\ DOMAIN t = 1..Len(t)
      /\ DOMAIN (s \o t) = 1..(Len(s) + Len(t))
      /\ \A i \in 1..(Len(s) + Len(t)) :
            (s \o t)[i] = IF i =< Len(s) THEN s[i] ELSE t[i - Len(s)]
  BY ConcatProperties, LenProperties
<1>2. /\ \A i \in DOMAIN (s \o t) : \/ i \in DOMAIN s /\ (s \o t)[i] = s[i]
                                    \/ i - Len(s) \in DOMAIN t /\ (s \o t)[i] = t[i - Len(s)]
      /\ \A i \in DOMAIN s : i \in DOMAIN (s \o t) /\ (s \o t)[i] = s[i]
      /\ \A i \in DOMAIN t : i + Len(s) \in DOMAIN (s \o t) /\ (s \o t)[i + Len(s)] = t[i]
  BY <1>1
<1> DEFINE u == s \o t
<1> HIDE DEF u
<1>3. ASSUME NEW x \in Range(u) PROVE x \in Range(s) \cup Range(t)
  <2>1. PICK i \in DOMAIN u : x = u[i]  BY <1>3 DEF Range
  <2> QED  BY <1>2, <2>1 DEF Range, u
<1>4. ASSUME NEW x \in Range(s) PROVE x \in Range(u)
  <2>1. PICK i \in DOMAIN s : x = s[i]  BY <1>4 DEF Range
  <2>2. i \in DOMAIN u /\ u[i] = x  BY <1>2, <2>1 DEF u
  <2> QED  BY <2>2 DEF Range
<1>5. ASSUME NEW x \in Range(t) PROVE x \in Range(u)
  <2>1. PICK i \in DOMAIN t : x = t[i]  BY <1>5 DEF Range
  <2>2. i + Len(s) \in DOMAIN u /\ u[i + Len(s)] = x  BY <1>2, <2>1 DEF u
  <2> QED  BY <2>2 DEF Range
<1> QED  BY <1>3, <1>4, <1>5 DEF u

\* A page adds the messages lo to hi to what has been read.
LEMMA FetchedSpan ==
    ASSUME TypeOK, NEW c \in Channels, Fetch(c), Span(c)
    PROVE  Span(c)'
<1> DEFINE lo == Page(c)[1]
           hi == Page(c)[2]
           old == fetched[c]
           new == fetched'[c]
<1>1. /\ lo =< hi /\ fetched' = [fetched EXCEPT ![c] = @ \o Ids(lo, hi)]
      /\ last' = [last EXCEPT ![c] = lo]
  BY DEF Fetch
<1>2. /\ c \in Feeds /\ lo \in 1..MaxPosts /\ hi \in 1..MaxPosts
      /\ last[c] # 0 => lo = last[c] + 1
      /\ MaxPosts \in Nat /\ last[c] \in 0..MaxPosts
  BY <1>1, FeedFacts, PageFacts, BoundAssumption DEF TypeOK
<1> HIDE DEF lo, hi
<1>3. new = old \o Ids(lo, hi) /\ old \in Seq(1..MaxPosts) /\ last'[c] = lo
  BY <1>1, <1>2 DEF TypeOK
<1>4. Range(new) = Range(old) \cup (lo..hi)
  <2>1. Range(Ids(lo, hi)) = lo..hi /\ Ids(lo, hi) \in Seq(1..MaxPosts)
    <3>1. /\ Ids(lo, hi) \in Seq(1..MaxPosts) /\ DOMAIN Ids(lo, hi) = 1..(hi - lo + 1)
          /\ \A i \in 1..(hi - lo + 1) : Ids(lo, hi)[i] = hi - i + 1
      BY <1>1, <1>2, IdsFacts DEF Ids
    <3>2. ASSUME NEW id \in lo..hi PROVE id \in Range(Ids(lo, hi))
      <4>1. hi - id + 1 \in 1..(hi - lo + 1) /\ hi - (hi - id + 1) + 1 = id  BY <1>2
      <4> QED  BY <3>1, <4>1 DEF Range
    <3>3. ASSUME NEW i \in 1..(hi - lo + 1) PROVE hi - i + 1 \in lo..hi  BY <1>2
    <3> QED  BY <3>1, <3>2, <3>3 DEF Range
  <2>2. Range(old \o Ids(lo, hi)) = Range(old) \cup Range(Ids(lo, hi))
    <3>1. \A s, t \in Seq(1..MaxPosts) : Range(s \o t) = Range(s) \cup Range(t)
      BY RangeConcat
    <3> HIDE DEF old
    <3> QED  BY <1>3, <2>1, <3>1
  <2> QED  BY <1>3, <2>1, <2>2
<1>5. \A x \in Range(old) : x \in Int
  <2>1. old \in [1..Len(old) -> 1..MaxPosts]  BY <1>3, LenProperties
  <2> QED  BY <1>2, <2>1 DEF Range
<1> DEFINE R == Range(old)
<1>6. /\ last[c] = 0 => R = {}
      /\ last[c] # 0 => last[c] \in R
      /\ \A x, y \in R : \A id \in x..y : id \in R
  <2>1. DOMAIN <<>> = {}  OBVIOUS
  <2> QED  BY <2>1 DEF Span, Range
<1>7. \A x \in R : x \in Int  BY <1>5
<1> HIDE DEF R
<1>8. ASSUME NEW x \in R \cup (lo..hi), NEW y \in R \cup (lo..hi), NEW id \in x..y
      PROVE  id \in R \cup (lo..hi)
  <2>1. CASE last[c] = 0
    <3>1. x \in lo..hi /\ y \in lo..hi  BY <1>6, <2>1
    <3> QED  BY <1>2, <3>1
  <2>2. CASE last[c] # 0
    <3>1. lo = last[c] + 1 /\ last[c] \in R /\ last[c] \in Int /\ hi \in Int
      BY <1>2, <1>6, <2>2
    <3>2. CASE x \in R /\ y \in R  BY <1>6, <3>2
    <3>3. CASE x \in R /\ y \in lo..hi
      <4>1. x \in Int /\ y \in Int /\ id \in Int /\ x =< id /\ id =< hi  BY <1>2, <1>7, <3>1, <3>3
      <4>2. id \in x..last[c] \/ id \in lo..hi  BY <3>1, <4>1
      <4> QED  BY <1>6, <3>1, <3>3, <4>2
    <3>4. CASE x \in lo..hi /\ y \in R
      <4>1. id \in last[c]..y  BY <1>2, <1>7, <3>1, <3>4
      <4> QED  BY <1>6, <3>1, <3>4, <4>1
    <3>5. CASE x \in lo..hi /\ y \in lo..hi  BY <1>2, <3>5
    <3> QED  BY <3>2, <3>3, <3>4, <3>5
  <2> QED  BY <2>1, <2>2
<1>9. lo \in R \cup (lo..hi) /\ lo # 0  BY <1>1, <1>2
<1> HIDE DEF new
<1>10. Range(new) = R \cup (lo..hi)  BY <1>4 DEF R
<1>11. \A x, y \in Range(new) : \A id \in x..y : id \in Range(new)  BY <1>8, <1>10
<1> QED  BY <1>3, <1>9, <1>10, <1>11 DEF Span, new

\* The places at which a message stands are those it had before, and one more if
\* it is on the page; the page brings the cursor one message closer to it.
LEMMA FetchedRepeats ==
    ASSUME TypeOK, NEW c \in Channels, Fetch(c), Span(c), Repeats(c)
    PROVE  Repeats(c)'
<1> DEFINE lo == Page(c)[1]
           hi == Page(c)[2]
           old == fetched[c]
           new == fetched'[c]
<1>1. /\ lo =< hi /\ fetched' = [fetched EXCEPT ![c] = @ \o Ids(lo, hi)]
      /\ last' = [last EXCEPT ![c] = lo]
  BY DEF Fetch
<1>2. /\ c \in Feeds /\ lo \in 1..MaxPosts /\ hi \in 1..MaxPosts
      /\ last[c] # 0 => lo = last[c] + 1
      /\ hi - lo + 1 =< PageSize /\ PageSize \in Nat \ {0}
      /\ MaxPosts \in Nat /\ last[c] \in 0..MaxPosts
  BY <1>1, FeedFacts, PageFacts, BoundAssumption, CapAssumption DEF TypeOK
<1> HIDE DEF lo, hi
<1>3. new = old \o Ids(lo, hi) /\ old \in Seq(1..MaxPosts) /\ last'[c] = lo
  BY <1>1, <1>2 DEF TypeOK
<1>4. /\ Ids(lo, hi) \in Seq(1..MaxPosts) /\ Len(Ids(lo, hi)) = hi - lo + 1
      /\ \A i \in 1..(hi - lo + 1) : Ids(lo, hi)[i] = hi - i + 1
  BY <1>1, <1>2, IdsFacts
<1>5. /\ Len(old) \in Nat /\ DOMAIN old = 1..Len(old)
      /\ DOMAIN new = 1..(Len(old) + (hi - lo + 1))
      /\ \A i \in 1..Len(old) : new[i] = old[i]
      /\ \A i \in DOMAIN new : i > Len(old) => new[i] = hi - (i - Len(old)) + 1
  <2>1. Len(old) \in Nat /\ DOMAIN old = 1..Len(old)  BY <1>3, LenProperties
  <2>2. /\ new \in Seq(1..MaxPosts) /\ Len(new) = Len(old) + (hi - lo + 1)
        /\ \A i \in 1..(Len(old) + (hi - lo + 1)) :
              new[i] = IF i =< Len(old) THEN old[i] ELSE Ids(lo, hi)[i - Len(old)]
    <3>1. /\ old \o Ids(lo, hi) \in Seq(1..MaxPosts)
          /\ Len(old \o Ids(lo, hi)) = Len(old) + Len(Ids(lo, hi))
          /\ \A i \in 1..(Len(old) + Len(Ids(lo, hi))) :
                (old \o Ids(lo, hi))[i]
                  = IF i =< Len(old) THEN old[i] ELSE Ids(lo, hi)[i - Len(old)]
      <4>1. \A s, t \in Seq(1..MaxPosts) :
               /\ s \o t \in Seq(1..MaxPosts) /\ Len(s \o t) = Len(s) + Len(t)
               /\ \A i \in 1..(Len(s) + Len(t)) :
                     (s \o t)[i] = IF i =< Len(s) THEN s[i] ELSE t[i - Len(s)]
        BY ConcatProperties
      <4> HIDE DEF old
      <4> QED  BY <1>3, <1>4, <4>1
    <3> QED  BY <1>3, <1>4, <3>1
  <2>3. DOMAIN new = 1..(Len(old) + (hi - lo + 1))  BY <2>2, LenProperties
  <2> HIDE DEF new, old
  <2>4. ASSUME NEW i \in 1..Len(old) PROVE new[i] = old[i]
    <3>1. i \in 1..(Len(old) + (hi - lo + 1)) /\ i =< Len(old)  BY <1>1, <1>2, <2>1
    <3> QED  BY <2>2, <3>1
  <2>5. ASSUME NEW i \in DOMAIN new, i > Len(old) PROVE new[i] = hi - (i - Len(old)) + 1
    <3>1. i \in 1..(Len(old) + (hi - lo + 1))  BY <2>3
    <3>2. ~(i =< Len(old)) /\ i - Len(old) \in 1..(hi - lo + 1)  BY <1>2, <2>1, <2>5, <3>1
    <3>3. new[i] = Ids(lo, hi)[i - Len(old)]  BY <2>2, <3>1, <3>2
    <3> QED  BY <1>4, <3>2, <3>3
  <2> QED  BY <2>1, <2>3, <2>4, <2>5
<1> HIDE DEF new, old
<1> SUFFICES ASSUME NEW id \in 1..MaxPosts
             PROVE  /\ IsFiniteSet(Readings(c, id)')
                    /\ Cardinality(Readings(c, id)') =< Quota(c, id)'
  BY DEF Repeats
<1> DEFINE S == Readings(c, id)
           at == Len(old) + (hi - id + 1)
           q == Quota(c, id)
           r == Quota(c, id)'
<1>6. /\ S = {i \in DOMAIN old : old[i] = id}
      /\ Readings(c, id)' = {i \in DOMAIN new : new[i] = id}
  BY DEF Readings, old, new
<1>7. /\ IsFiniteSet(S) /\ Cardinality(S) =< q /\ Cardinality(S) \in Nat
  BY FS_CardinalityType DEF Repeats
<1>8. /\ r = IF lo = 0 \/ id > lo + PageSize THEN 0
             ELSE IF id =< lo THEN PageSize ELSE lo + PageSize - id
      /\ q = IF last[c] = 0 \/ id > last[c] + PageSize THEN 0
             ELSE IF id =< last[c] THEN PageSize ELSE last[c] + PageSize - id
  BY <1>3 DEF Quota
<1> HIDE DEF S, q, r
<1>9. CASE id \in lo..hi
  <2>1. at \in DOMAIN new /\ at > Len(old) /\ at \notin S /\ at \in Int
    BY <1>2, <1>5, <1>6, <1>9
  <2>2. Readings(c, id)' = S \cup {at}
    <3>1. \A i \in 1..Len(old) : i \in DOMAIN new /\ ~(i > Len(old))  BY <1>2, <1>5, <1>1
    <3>2. ASSUME NEW i \in DOMAIN new PROVE new[i] = id <=> i \in S \/ i = at
      <4>1. CASE i > Len(old)
        <5>1. new[i] = hi - (i - Len(old)) + 1  BY <1>5, <4>1
        <5>2. i \in Int  BY <1>2, <1>5
        <5>3. i \notin S  BY <1>5, <1>6, <3>1, <4>1
        <5>4. hi - (i - Len(old)) + 1 = id <=> i = at  BY <1>2, <1>5, <5>2
        <5> QED  BY <5>1, <5>3, <5>4
      <4>2. CASE ~(i > Len(old))
        <5>1. i \in 1..Len(old) /\ i # at  BY <1>2, <1>5, <2>1, <4>2
        <5> QED  BY <1>5, <1>6, <5>1
      <4> QED  BY <4>1, <4>2
    <3>3. \A i \in S : i \in DOMAIN new  BY <1>5, <1>6, <3>1
    <3> HIDE DEF at
    <3> QED  BY <1>6, <2>1, <3>2, <3>3
  <2>3. IsFiniteSet(S \cup {at}) /\ Cardinality(S \cup {at}) = Cardinality(S) + 1
    BY <1>7, <2>1, FS_AddElement
  <2>4. q + 1 =< r /\ q \in Nat /\ r \in Nat
    <3>1. CASE last[c] = 0  BY <1>2, <1>8, <1>9, <3>1
    <3>2. CASE last[c] # 0  BY <1>2, <1>8, <1>9, <3>2
    <3> QED  BY <3>1, <3>2
  <2> DEFINE n == Cardinality(S)
  <2>5. n \in Nat /\ n =< q  BY <1>7
  <2> HIDE DEF n
  <2>6. n + 1 =< r  BY <2>4, <2>5
  <2> QED  BY <2>2, <2>3, <2>6 DEF n, r
<1>10. CASE id \notin lo..hi
  <2>1. Readings(c, id)' = S
    <3>1. ASSUME NEW i \in DOMAIN new PROVE new[i] = id <=> i \in S
      <4>1. CASE i > Len(old)
        <5>1. new[i] = hi - (i - Len(old)) + 1  BY <1>5, <4>1
        <5>2. i \in Int /\ i =< Len(old) + (hi - lo + 1)  BY <1>2, <1>5
        <5>3. hi - (i - Len(old)) + 1 \in lo..hi  BY <1>2, <1>5, <4>1, <5>2
        <5>4. i \notin S  BY <1>5, <1>6, <4>1
        <5> QED  BY <1>10, <5>1, <5>3, <5>4
      <4>2. CASE ~(i > Len(old))
        <5>1. i \in 1..Len(old)  BY <1>2, <1>5, <4>2
        <5> QED  BY <1>5, <1>6, <5>1
      <4> QED  BY <4>1, <4>2
    <3>2. \A i \in S : i \in DOMAIN new  BY <1>1, <1>2, <1>5, <1>6
    <3> QED  BY <1>6, <3>1, <3>2
  <2>2. q =< r /\ q \in Nat /\ r \in Nat
    <3>1. CASE last[c] = 0  BY <1>2, <1>8, <3>1
    <3>2. CASE last[c] # 0  BY <1>2, <1>8, <3>2
    <3> QED  BY <3>1, <3>2
  <2> DEFINE n == Cardinality(S)
  <2>3. n \in Nat /\ n =< q  BY <1>7
  <2> HIDE DEF n
  <2>4. n =< r  BY <2>2, <2>3
  <2> QED  BY <1>7, <2>1, <2>4 DEF n, r
<1> QED  BY <1>9, <1>10

LEMMA PagesInit == Init => Pages
<1> SUFFICES ASSUME Init, NEW c \in Channels PROVE Span(c) /\ Repeats(c)
  BY DEF Pages
<1>1. last[c] = 0 /\ fetched[c] = <<>>  BY FeedFacts DEF Init
<1> QED  BY <1>1, NothingRead DEF Blank

LEMMA PagesStep == TypeOK /\ Pages /\ [Next]_vars => Pages'
<1> SUFFICES ASSUME TypeOK, Pages, [Next]_vars, NEW c \in Channels
             PROVE  Span(c)' /\ Repeats(c)'
  BY DEF Pages
<1>1. Span(c) /\ Repeats(c) /\ c \in Feeds /\ c # Cli  BY FeedFacts DEF Pages
<1>2. ASSUME last'[c] = last[c], fetched'[c] = fetched[c] PROVE Span(c)' /\ Repeats(c)'
  <2>1. Span(c)'  BY <1>1, <1>2 DEF Span
  <2>2. \A id \in 1..MaxPosts : Readings(c, id)' = Readings(c, id) /\ Quota(c, id)' = Quota(c, id)
    BY <1>2 DEF Readings, Quota
  <2> QED  BY <1>1, <2>1, <2>2 DEF Repeats
<1>3. CASE Exit
  <2>1. last'[c] = 0 /\ fetched'[c] = <<>>  BY <1>1, <1>3 DEF Exit, Fresh
  <2>2. Blank'  BY NothingRead, PTL
  <2> QED  BY <2>1, <2>2 DEF Blank
<1>4. ASSUME NEW d \in Channels, Fetch(d) PROVE Span(c)' /\ Repeats(c)'
  <2>1. CASE c = d  BY <1>1, <1>4, <2>1, FetchedSpan, FetchedRepeats
  <2>2. CASE c # d
    <3>1. last'[c] = last[c] /\ fetched'[c] = fetched[c]  BY <1>1, <1>4, <2>2 DEF Fetch, TypeOK
    <3> QED  BY <1>2, <3>1
  <2> QED  BY <2>1, <2>2
<1>5. CASE Scan
  <2>1. last'[c] = last[c] /\ fetched'[c] = fetched[c]  BY <1>1, <1>5 DEF Scan, TypeOK
  <2> QED  BY <1>2, <2>1
<1>6. CASE \/ \E f \in Feeds : Post(f)
           \/ EndOfInput \/ Signal \/ ScanFails \/ CloseOut \/ Loop
           \/ \E S \in SUBSET Adapters : StartAll(S)
           \/ \E d \in Channels : Abandon(d)
           \/ \E f \in Feeds : Send(f)
           \/ \E a \in Adapters : Take(a) \/ Merge(a) \/ FanInEnds(a)
           \/ UNCHANGED vars
  <2>1. UNCHANGED <<last, fetched>>
    BY <1>6 DEF Post, EndOfInput, Signal, StartAll, Loop, HandleEvent, SessionEnds, AllClosed,
       ShutDown, ScanFails, CloseOut, Abandon, Send, Take, Merge, FanInEnds, pipes, vars
  <2> QED  BY <1>2, <2>1
<1> QED  BY <1>3, <1>4, <1>5, <1>6 DEF Next, Goroutines

-----------------------------------------------------------------------------
(* The theorems.                                                            *)

\* Inv is inductive: events are in a place of their feed (Home), the cursors are
\* within what was posted (Cursor), the places hold consecutive runs of events
\* (FlowInv), and a channel that is closed without a signal is drained (Ends).
THEOREM Invariance == Spec => []Inv
<1>1. Inv /\ [Next]_vars => Inv'
  <2> SUFFICES ASSUME Inv, [Next]_vars PROVE Inv'  OBVIOUS
  <2>1. TypeOK /\ Home /\ Cursor /\ FlowInv /\ Ends /\ EofDrains  BY DEF Inv
  <2> QED  BY <2>1, TypeStep, HomeStep, CursorStep, FlowStep, EndsStep, EofStep DEF Inv
<1> QED  BY <1>1, InvInit, PTL DEF Spec

\* The buffers and goroutines between the adapters and the daemon lose, repeat
\* and reorder nothing that was read while the context is live: the runs of
\* events in the merged channel, in the hand of the fan-in goroutine, in the
\* adapter's channel and in the batch join up from what was handled to what was
\* read.
THEOREM PipelineIsFaithful == Spec => []NothingLost
<1>1. Inv => NothingLost
  <2> SUFFICES ASSUME Inv, live, NEW f \in Feeds
               PROVE  /\ handled[f] = [i \in 1..Len(handled[f]) |-> i]
                      /\ InOrder(f, InTransit(f), Len(handled[f]) + 1, Len(fetched[f]) + 1)
    BY DEF NothingLost
  <2> DEFINE A == Adapter(f)
  <2>1. TypeOK /\ Flow(f)  BY DEF Inv, FlowInv
  <2>2. /\ merged \in Seq(Events) /\ hand[A] \in Seq(Events) /\ out[A] \in Seq(Events)
        /\ batch[f] \in Seq(Events) /\ Due(f) \in Int /\ Read(f) \in Int
        /\ handled[f] \in Seq(Nat \ {0}) /\ DOMAIN handled[f] = 1..Len(handled[f])
    BY <2>1, FlowTypes
  <2>3. PICK x, y, z \in Nat :
           /\ InOrder(f, merged, Due(f), x) /\ InOrder(f, hand[A], x, y)
           /\ InOrder(f, out[A], y, z) /\ InOrder(f, batch[f], z, Read(f))
    BY <2>1 DEF Flow, Runs
  <2>4. x \in Int /\ y \in Int /\ z \in Int  OBVIOUS
  <2>5. merged \o hand[A] \in Seq(Events) /\ InOrder(f, merged \o hand[A], Due(f), y)
    BY <2>2, <2>3, <2>4, InOrderConcat
  <2> DEFINE s == merged \o hand[A]
  <2> HIDE DEF s
  <2>6. s \o out[A] \in Seq(Events) /\ InOrder(f, s \o out[A], Due(f), z)
    <3>1. s \in Seq(Events) /\ InOrder(f, s, Due(f), y)  BY <2>5 DEF s
    <3>2. s \o out[A] \in Seq(Events)  BY <2>2, <3>1, ConcatProperties
    <3> QED  BY <2>2, <2>3, <2>4, <3>1, <3>2, InOrderConcat
  <2>7. InOrder(f, (s \o out[A]) \o batch[f], Due(f), Read(f))
    BY <2>2, <2>3, <2>4, <2>6, InOrderConcat
  <2>8. InOrder(f, InTransit(f), Len(handled[f]) + 1, Len(fetched[f]) + 1)
    BY <2>7 DEF InTransit, Due, Read, s
  <2>9. handled[f] = [i \in 1..Len(handled[f]) |-> handled[f][i]]
    BY <2>2, LenProperties
  <2>10. \A i \in 1..Len(handled[f]) : handled[f][i] = i
    BY <2>1, <2>2 DEF Flow
  <2> QED  BY <2>8, <2>9, <2>10
<1> QED  BY <1>1, Invariance, PTL

\* The cursor of fetchMessages passes no message that was not read, for every
\* page size and whatever is posted between the fetches.
THEOREM CursorSkipsNothing == Spec => []NoGap
<1>1. TypeOK /\ Pages => NoGap
  <2> SUFFICES ASSUME TypeOK, Pages, NEW c \in Channels, NEW id \in 1..last[c],
                      NEW old \in Range(fetched[c]), old =< id
               PROVE  id \in Range(fetched[c])
    BY DEF NoGap
  <2>1. Span(c) /\ last[c] \in 0..MaxPosts /\ MaxPosts \in Nat
    BY FeedFacts, BoundAssumption DEF Pages, TypeOK
  <2>2. old \in Int
    <3>1. fetched[c] \in Seq(1..MaxPosts)  BY FeedFacts DEF TypeOK
    <3>2. fetched[c] \in [1..Len(fetched[c]) -> 1..MaxPosts]  BY <3>1, LenProperties
    <3> QED  BY <2>1, <3>2 DEF Range
  <2>3. last[c] # 0 /\ id \in old..last[c]  BY <2>1, <2>2
  <2> QED  BY <2>1, <2>3 DEF Span
<1>2. Spec => []Pages  BY PagesInit, PagesStep, TypeCorrect, PTL DEF Spec
<1> QED  BY <1>1, <1>2, TypeCorrect, PTL

\* Leaving the cursor at the oldest message of a page repeats messages, but none
\* more often than a page is long.
THEOREM ReadingsAreBounded == Spec => []RepeatsBounded
<1>1. TypeOK /\ Pages => RepeatsBounded
  <2> SUFFICES ASSUME TypeOK, Pages, NEW c \in Channels, NEW id \in 1..MaxPosts
               PROVE  Cardinality(Readings(c, id)) =< PageSize
    BY DEF RepeatsBounded
  <2> DEFINE n == Cardinality(Readings(c, id))
             q == Quota(c, id)
  <2>1. n \in Nat /\ n =< q  BY FS_CardinalityType DEF Pages, Repeats
  <2>2. q \in Nat /\ q =< PageSize /\ PageSize \in Nat
    <3>1. last[c] \in 0..MaxPosts /\ MaxPosts \in Nat /\ PageSize \in Nat
      BY FeedFacts, BoundAssumption, CapAssumption DEF TypeOK
    <3> QED  BY <3>1 DEF Quota
  <2> HIDE DEF n, q
  <2>3. n =< PageSize  BY <2>1, <2>2
  <2> QED  BY <2>3 DEF n
<1>2. Spec => []Pages  BY PagesInit, PagesStep, TypeCorrect, PTL DEF Spec
<1> QED  BY <1>1, <1>2, TypeCorrect, PTL

\* Without a signal the daemon returns only at the end of stdin, with every line
\* handled, or after a failed read, with every line before it handled.
THEOREM EndOfInputDrains == Spec => []EofDrains
<1>1. Inv => EofDrains  BY DEF Inv
<1> QED  BY <1>1, Invariance, PTL

\* No score that is stored is below the threshold, although the penalty of a
\* flagged event brings the score of that event there.
Solvent == \A a \in Adapters : trust[a].row => MinTrust =< trust[a].score

\* Wherever the skeptical prior is not below the threshold of the wake
\* decision, an event without a flag wakes the agent whatever came before it.
\* (The prior comes from the environment, AEGIS_TRUST_SKEPTICAL_PRIOR; with a
\* prior below minTrust a new source would never wake it.)
THEOREM CleanEventsWake ==
    ASSUME MinTrust =< Prior
    PROVE  Spec => []CleanWakes
<1> DEFINE WakeInv == Solvent /\ CleanWakes
<1>1. Init => WakeInv
  BY DEF Init, Solvent, NoRow, CleanWakes
<1>2. TypeOK /\ WakeInv /\ [Next]_vars => WakeInv'
  <2> SUFFICES ASSUME TypeOK, Solvent, CleanWakes, [Next]_vars PROVE WakeInv'  OBVIOUS
  <2>1. CASE UNCHANGED <<verdicts, trust>>
    BY <2>1 DEF Solvent, CleanWakes
  <2>2. CASE Exit
    BY <2>2 DEF Exit, Solvent, CleanWakes
  <2>3. ASSUME NEW failed \in FailedStatements, HandleEvent(failed) PROVE WakeInv'
    <3> DEFINE ev == Head(merged)
               msg == <<ev[1], ev[3]>>
               src == Adapter(ev[1])
               score == IF "get" \in failed THEN Prior ELSE Blend(trust[src])
    <3>1. /\ merged # <<>>
          /\ trust' = trust \/ trust' = [trust EXCEPT ![src] = StoredTrust(@, msg, failed)]
          /\ ShouldWake(msg, score) => verdicts' = verdicts \cup {<<msg, "wake">>}
          /\ ~ShouldWake(msg, score) => verdicts' = verdicts \cup {<<msg, "decline">>}
      BY <2>3 DEF HandleEvent
    <3>2. ev \in Events
      BY <3>1, QueueTypes DEF TypeOK
    <3>3. src \in Adapters
      BY <3>2, EventFacts, FeedFacts
    <3>4. trust[src] \in [score : 0..100, n : 0..Ramp, row : BOOLEAN]  BY <3>3 DEF TypeOK
    <3>5. /\ MinTrust \in Nat /\ MinTrust =< MaxTrust /\ MinTrust =< StoredPrior
          /\ trust[src].row => MinTrust =< trust[src].score
      BY <3>3, TrustAssumption DEF Solvent
    <3>6. MinTrust =< score
      <4>1. MinTrust =< Blend(trust[src])  BY <3>4, <3>5, BlendBounds
      <4> QED  BY <4>1
    <3> HIDE DEF ev, msg, src, score
    <3>7. Solvent'
      <4>1. StoredTrust(trust[src], msg, failed).row
              => MinTrust =< StoredTrust(trust[src], msg, failed).score
        BY <3>4, <3>5, StoredTrustBounds
      <4>2. CASE trust' = trust  BY <4>2 DEF Solvent
      <4>3. CASE trust' = [trust EXCEPT ![src] = StoredTrust(@, msg, failed)]
        <5> SUFFICES ASSUME NEW a \in Adapters, trust'[a].row PROVE MinTrust =< trust'[a].score
          BY DEF Solvent
        <5>1. trust'[a] = IF a = src THEN StoredTrust(trust[src], msg, failed) ELSE trust[a]
          BY <4>3, <3>3 DEF TypeOK
        <5> QED  BY <4>1, <5>1 DEF Solvent
      <4> QED  BY <3>1, <4>2, <4>3
    <3>8. CleanWakes'
      <4>1. CASE ShouldWake(msg, score)  BY <3>1, <4>1 DEF CleanWakes
      <4>2. CASE ~ShouldWake(msg, score)
        <5>1. msg \in Flagged
          BY <3>5, <3>6, <4>2 DEF ShouldWake, Annotated
        <5> QED  BY <3>1, <4>2, <5>1 DEF CleanWakes
      <4> QED  BY <4>1, <4>2
    <3> QED  BY <3>7, <3>8
  <2>4. CASE \/ \E f \in Feeds : Post(f)
             \/ EndOfInput \/ Signal \/ Goroutines
             \/ \E S \in SUBSET Adapters : StartAll(S)
             \/ SessionEnds \/ AllClosed \/ ShutDown
             \/ UNCHANGED vars
    BY <2>1, <2>4 DEF Post, EndOfInput, Signal, StartAll, SessionEnds, AllClosed, ShutDown, Goroutines,
       Fetch, Abandon, Scan, ScanFails, CloseOut, Send, Take, Merge, FanInEnds, vars
  <2> QED  BY <2>2, <2>3, <2>4 DEF Next, Loop
<1> QED  BY <1>1, <1>2, TypeCorrect, PTL DEF Spec
=============================================================================

------------------------------ MODULE Inbound ------------------------------
(***************************************************************************)
(* From the outside world to the daemon's handler: the Discord pollers and *)
(* the stdin reader, the buffered channels and fan-in goroutines of the    *)
(* channel registry, the daemon's event loop, and Aegis, which scores each *)
(* event before the wake decision.  One process, its restarts, and the     *)
(* bounded buffers between the goroutines.                                 *)
(***************************************************************************)
EXTENDS Integers, Sequences, FiniteSets, SequencesExt

CONSTANTS
    Channels,      \* Discord channel IDs
    PageSize,      \* messages per fetch (limit=50)
    OutCap,        \* capacity of an adapter's channel (32, 8)
    MergedCap,     \* capacity of the merged channel (64)
    Flagged,       \* messages <<feed, id>> in which Scan finds an injection pattern
    Prior,         \* SkepticalPrior, in hundredths
    MaxTrust,      \* ceiling of the score (0.95)
    StoredPrior,   \* what IncrementInteractions inserts (0.40)
    MinTrust,      \* below it an event never wakes (0.30)
    Ramp,          \* RampInteractions
    MaxPosts,      \* bound: messages per channel
    MaxLines,      \* bound: lines of stdin, at most MaxPosts
    MaxFaults      \* bound: failing reads and trust statements, crashes and signals

Cli == "cli"
Discord == "discord"
Adapters == {Cli, Discord}
Feeds == Channels \cup {Cli}
Adapter(f) == IF f = Cli THEN Cli ELSE Discord
Messages == Feeds \X (1..MaxPosts)

\* An event <<f, n, id>> carries message id of feed f; it is the n-th that this
\* process has read from f.
Events == Feeds \X (Nat \ {0}) \X (1..MaxPosts)

ASSUME FeedAssumption == Cli \notin Channels /\ IsFiniteSet(Channels)
ASSUME CapAssumption == PageSize \in Nat \ {0} /\ OutCap \in Nat \ {0} /\ MergedCap \in Nat \ {0}
ASSUME TrustAssumption ==
    /\ Prior \in Nat /\ MinTrust \in Nat /\ Ramp \in Nat \ {0}
    /\ MaxTrust \in MinTrust..100 /\ StoredPrior \in MinTrust..100
    /\ Flagged \subseteq Messages
ASSUME BoundAssumption == MaxPosts \in Nat \ {0} /\ MaxLines \in 0..MaxPosts /\ MaxFaults \in Nat

VARIABLES
    posted,   \* messages so far on each channel of the service, lines on stdin
    eof,      \* stdin is at its end
    started,  \* adapters whose Start succeeded
    live,     \* the context is not cancelled
    last,     \* lastID of each feed, 0 before the first fetch
    fetched,  \* history: the messages this process has read from each feed, in order
    batch,    \* events a poller or the reader has yet to send
    out,      \* the adapters' channels
    closed,   \* adapters whose channel is closed
    broken,   \* history: a failed read has ended the reader of stdin
    hand,     \* the event a fan-in goroutine holds
    fanin,    \* where each fan-in goroutine is: "off", "running", "ended"
    merged,   \* the merged channel
    daemon,   \* "off", "waiting", "session", "returned"
    handled,  \* history: the events of each feed handled by this process, in order
    verdicts, \* history: the messages that started a session, and those that did not
    trust,    \* trust_registry: score and interactions of each source, if any
    faults

world == <<posted, eof>>
pipes == <<last, fetched, batch, out, closed, broken, hand, fanin, merged>>
vars == <<world, started, live, pipes, daemon, handled, verdicts, trust, faults>>

NoRow == [score |-> 0, n |-> 0, row |-> FALSE]

TypeOK ==
    /\ posted \in [Feeds -> 0..MaxPosts] /\ eof \in BOOLEAN
    /\ started \subseteq Adapters /\ closed \subseteq {Cli} /\ live \in BOOLEAN
    /\ broken \in BOOLEAN
    /\ last \in [Feeds -> 0..MaxPosts] /\ fetched \in [Feeds -> Seq(1..MaxPosts)]
    /\ batch \in [Feeds -> Seq(Events)] /\ \A f \in Feeds : Len(batch[f]) =< PageSize
    /\ out \in [Adapters -> Seq(Events)] /\ \A a \in Adapters : Len(out[a]) =< OutCap
    /\ hand \in [Adapters -> Seq(Events)] /\ \A a \in Adapters : Len(hand[a]) =< 1
    /\ fanin \in [Adapters -> {"off", "running", "ended"}]
    /\ merged \in Seq(Events) /\ Len(merged) =< MergedCap
    /\ daemon \in {"off", "waiting", "session", "returned"}
    /\ handled \in [Feeds -> Seq(Nat \ {0})]
    /\ verdicts \subseteq Messages \X {"wake", "decline"}
    /\ trust \in [Adapters -> [score : 0..100, n : 0..Ramp, row : BOOLEAN]]
    /\ faults \in 0..MaxFaults

\* A process that has not begun, or that is gone: nothing it held survives.
Fresh ==
    /\ started' = {} /\ live' = TRUE
    /\ last' = [f \in Feeds |-> 0] /\ fetched' = [f \in Feeds |-> <<>>]
    /\ batch' = [f \in Feeds |-> <<>>]
    /\ out' = [a \in Adapters |-> <<>>] /\ hand' = [a \in Adapters |-> <<>>]
    /\ fanin' = [a \in Adapters |-> "off"] /\ closed' = {} /\ broken' = FALSE /\ merged' = <<>>
    /\ daemon' = "off" /\ handled' = [f \in Feeds |-> <<>>]

Init ==
    /\ posted \in [Feeds -> {0, MaxPosts - 1}] /\ posted[Cli] = 0 /\ eof = FALSE
    /\ started = {} /\ live = TRUE
    /\ last = [f \in Feeds |-> 0] /\ fetched = [f \in Feeds |-> <<>>]
    /\ batch = [f \in Feeds |-> <<>>]
    /\ out = [a \in Adapters |-> <<>>] /\ hand = [a \in Adapters |-> <<>>]
    /\ fanin = [a \in Adapters |-> "off"] /\ closed = {} /\ broken = FALSE /\ merged = <<>>
    /\ daemon = "off" /\ handled = [f \in Feeds |-> <<>>]
    /\ verdicts = {} /\ trust = [a \in Adapters |-> NoRow] /\ faults = 0

-----------------------------------------------------------------------------
(* The outside world.                                                       *)

Post(f) ==
    /\ posted[f] < MaxPosts /\ (f = Cli => posted[f] < MaxLines /\ ~eof /\ daemon # "off")
    /\ posted' = [posted EXCEPT ![f] = @ + 1]
    /\ UNCHANGED <<eof, started, live, pipes, daemon, handled, verdicts, trust, faults>>

EndOfInput ==
    /\ ~eof /\ daemon # "off"
    /\ eof' = TRUE
    /\ UNCHANGED <<posted, started, live, pipes, daemon, handled, verdicts, trust, faults>>

Signal ==
    /\ live /\ daemon \in {"waiting", "session"}
    /\ faults < MaxFaults /\ faults' = faults + 1
    /\ live' = FALSE
    /\ UNCHANGED <<world, started, pipes, daemon, handled, verdicts, trust>>

\* The process dies, or has returned and is started again: stdin is a new one.
Exit ==
    /\ \/ daemon = "returned"
       \/ daemon \in {"waiting", "session"}
    /\ faults < MaxFaults /\ faults' = faults + 1
    /\ Fresh
    /\ posted' = [posted EXCEPT ![Cli] = 0] /\ eof' = FALSE
    /\ verdicts' = {}
    /\ UNCHANGED trust

-----------------------------------------------------------------------------
(* Adapters and registry.                                                   *)

\* StartAll: an adapter that does not start is left out; with none left Run
\* falls back to one session.
StartAll(S) ==
    /\ daemon = "off"
    /\ started' = S
    /\ fanin' = [a \in Adapters |-> IF a \in S THEN "running" ELSE "off"]
    /\ daemon' = IF S = {} THEN "session" ELSE "waiting"
    /\ UNCHANGED <<world, live, last, fetched, batch, out, closed, broken, hand, merged, handled,
                   verdicts, trust, faults>>

\* The service: the oldest messages after lastID; without one, the newest.  Either
\* way they come newest first.
Page(c) ==
    IF last[c] = 0
    THEN <<IF posted[c] > PageSize THEN posted[c] - PageSize + 1 ELSE 1, posted[c]>>
    ELSE <<last[c] + 1, IF posted[c] > last[c] + PageSize THEN last[c] + PageSize ELSE posted[c]>>

\* The batch that is made of the messages lo to hi.
Batch(c, lo, hi) == [i \in 1..(hi - lo + 1) |-> <<c, Len(fetched[c]) + i, hi - i + 1>>]
Ids(lo, hi) == [i \in 1..(hi - lo + 1) |-> hi - i + 1]

\* Mutant: the cursor moves past the page, of which only what fits is taken.
FetchFitting(c) ==
    /\ Discord \in started /\ live /\ batch[c] = <<>>
    /\ LET lo == Page(c)[1]
           hi == Page(c)[2]
           from == IF hi - lo + 1 > OutCap THEN hi - OutCap + 1 ELSE lo
       IN  /\ lo =< hi
           /\ batch' = [batch EXCEPT ![c] = Batch(c, from, hi)]
           /\ fetched' = [fetched EXCEPT ![c] = @ \o Ids(from, hi)]
           /\ last' = [last EXCEPT ![c] = hi]
    /\ UNCHANGED <<world, started, live, out, closed, broken, hand, fanin, merged, daemon,
                   handled, verdicts, trust, faults>>

\* Mutant: the cursor is set by the first page only.
FetchAgain(c) ==
    /\ Discord \in started /\ live /\ batch[c] = <<>>
    /\ LET lo == Page(c)[1]
           hi == Page(c)[2]
       IN  /\ lo =< hi
           /\ batch' = [batch EXCEPT ![c] = Batch(c, lo, hi)]
           /\ fetched' = [fetched EXCEPT ![c] = @ \o Ids(lo, hi)]
           /\ last' = [last EXCEPT ![c] = IF @ = 0 THEN lo ELSE @]
    /\ UNCHANGED <<world, started, live, out, closed, broken, hand, fanin, merged, daemon,
                   handled, verdicts, trust, faults>>

\* Mutant: the poller returns where it should continue.
FetchOnce(c) ==
    /\ Discord \in started /\ live /\ batch[c] = <<>> /\ last[c] = 0
    /\ LET lo == Page(c)[1]
           hi == Page(c)[2]
       IN  /\ lo =< hi
           /\ batch' = [batch EXCEPT ![c] = Batch(c, lo, hi)]
           /\ fetched' = [fetched EXCEPT ![c] = @ \o Ids(lo, hi)]
           /\ last' = [last EXCEPT ![c] = lo]
    /\ UNCHANGED <<world, started, live, out, closed, broken, hand, fanin, merged, daemon,
                   handled, verdicts, trust, faults>>

\* fetchMessages: the cursor moves before anything is delivered, and to the last
\* element of the page (newestID), which is its oldest message.  A failed or
\* rate-limited fetch changes nothing and is tried again.
Fetch(c) ==
    /\ Discord \in started /\ live /\ batch[c] = <<>>
    /\ LET lo == Page(c)[1]
           hi == Page(c)[2]
       IN  /\ lo =< hi
           /\ batch' = [batch EXCEPT ![c] = Batch(c, lo, hi)]
           /\ fetched' = [fetched EXCEPT ![c] = @ \o Ids(lo, hi)]
           /\ last' = [last EXCEPT ![c] = lo]
    /\ UNCHANGED <<world, started, live, out, closed, broken, hand, fanin, merged, daemon,
                   handled, verdicts, trust, faults>>

\* The reader of stdin reads a line.
Scan ==
    /\ Cli \in started \ closed /\ batch[Cli] = <<>> /\ last[Cli] < posted[Cli]
    /\ batch' = [batch EXCEPT ![Cli] = Batch(Cli, last[Cli] + 1, last[Cli] + 1)]
    /\ fetched' = [fetched EXCEPT ![Cli] = Append(@, last[Cli] + 1)]
    /\ last' = [last EXCEPT ![Cli] = @ + 1]
    /\ UNCHANGED <<world, started, live, out, closed, broken, hand, fanin, merged, daemon, handled,
                   verdicts, trust, faults>>

\* Mutant: an event that does not fit is dropped.
SendOrDrop(f) ==
    /\ batch[f] # <<>>
    /\ out' = IF Len(out[Adapter(f)]) < OutCap
              THEN [out EXCEPT ![Adapter(f)] = Append(@, Head(batch[f]))] ELSE out
    /\ batch' = [batch EXCEPT ![f] = Tail(@)]
    /\ UNCHANGED <<world, started, live, last, fetched, closed, broken, hand, fanin, merged, daemon,
                   handled, verdicts, trust, faults>>

Send(f) ==
    /\ batch[f] # <<>> /\ Len(out[Adapter(f)]) < OutCap
    /\ out' = [out EXCEPT ![Adapter(f)] = Append(@, Head(batch[f]))]
    /\ batch' = [batch EXCEPT ![f] = Tail(@)]
    /\ UNCHANGED <<world, started, live, last, fetched, closed, broken, hand, fanin, merged, daemon,
                   handled, verdicts, trust, faults>>

\* Only the reader closes its channel: at the end of stdin, when it is cancelled,
\* or, below, when a read fails or finds a line too long for the scanner, whether
\* or not there is more to come.
CloseOut ==
    /\ Cli \in started \ closed
    /\ \/ eof /\ batch[Cli] = <<>> /\ last[Cli] = posted[Cli]
       \/ ~live
    /\ closed' = closed \cup {Cli} /\ batch' = [batch EXCEPT ![Cli] = <<>>]
    /\ UNCHANGED <<world, started, live, last, fetched, out, broken, hand, fanin, merged, daemon,
                   handled, verdicts, trust, faults>>

ScanFails ==
    /\ Cli \in started \ closed /\ batch[Cli] = <<>>
    /\ faults < MaxFaults /\ faults' = faults + 1
    /\ closed' = closed \cup {Cli} /\ broken' = TRUE
    /\ UNCHANGED <<world, started, live, last, fetched, batch, out, hand, fanin, merged, daemon,
                   handled, verdicts, trust>>

\* A poller gives up what it has not sent.
Abandon(c) ==
    /\ ~live /\ batch[c] # <<>>
    /\ batch' = [batch EXCEPT ![c] = <<>>]
    /\ UNCHANGED <<world, started, live, last, fetched, out, closed, broken, hand, fanin, merged,
                   daemon, handled, verdicts, trust, faults>>

Take(a) ==
    /\ fanin[a] = "running" /\ hand[a] = <<>> /\ out[a] # <<>>
    /\ hand' = [hand EXCEPT ![a] = <<Head(out[a])>>]
    /\ out' = [out EXCEPT ![a] = Tail(@)]
    /\ UNCHANGED <<world, started, live, last, fetched, batch, closed, broken, fanin, merged,
                   daemon, handled, verdicts, trust, faults>>

Merge(a) ==
    /\ fanin[a] = "running" /\ hand[a] # <<>> /\ Len(merged) < MergedCap
    /\ merged' = merged \o hand[a]
    /\ hand' = [hand EXCEPT ![a] = <<>>]
    /\ UNCHANGED <<world, started, live, last, fetched, batch, out, closed, broken, fanin, daemon,
                   handled, verdicts, trust, faults>>

\* Mutant: a closed stream ends the goroutine with events still in it.
FanInEndsEarly(a) ==
    /\ fanin[a] = "running"
    /\ a \in closed \/ ~live
    /\ fanin' = [fanin EXCEPT ![a] = "ended"] /\ hand' = [hand EXCEPT ![a] = <<>>]
    /\ UNCHANGED <<world, started, live, last, fetched, batch, out, closed, broken, merged, daemon,
                   handled, verdicts, trust, faults>>

\* The stream is closed and drained, or the context is cancelled.
FanInEnds(a) ==
    /\ fanin[a] = "running"
    /\ \/ a \in closed /\ out[a] = <<>> /\ hand[a] = <<>>
       \/ ~live
    /\ fanin' = [fanin EXCEPT ![a] = "ended"] /\ hand' = [hand EXCEPT ![a] = <<>>]
    /\ UNCHANGED <<world, started, live, last, fetched, batch, out, closed, broken, merged, daemon,
                   handled, verdicts, trust, faults>>

-----------------------------------------------------------------------------
(* Aegis.                                                                   *)

\* Score before any penalty: the stored score, pulled towards the prior while
\* the source is new, and capped.
Blend(row) ==
    LET score == IF row.row THEN row.score ELSE Prior
    IN  Min({MaxTrust,
             IF row.n < Ramp THEN Prior + (row.n * (score - Prior)) \div Ramp ELSE score})

\* One flag: multiplied by 0.7, never below 0.10.
Penalty(score) == IF (score * 7) \div 10 < 10 THEN 10 ELSE (score * 7) \div 10

Annotated(msg, score) == IF msg \in Flagged THEN Penalty(score) ELSE score

\* UpdateTrust, then IncrementInteractions; each may fail, which is logged.
UpdateTrust(row, score) == [row EXCEPT !.score = score, !.row = TRUE]
IncrementInteractions(row) ==
    IF row.row THEN [row EXCEPT !.n = IF @ < Ramp THEN @ + 1 ELSE @]
    ELSE [score |-> StoredPrior, n |-> 1, row |-> TRUE]

\* Mutant: what is stored is the score after the penalty.
StorePenalty(row, msg, failed) ==
    LET updated == IF "update" \in failed THEN row
                   ELSE UpdateTrust(row, Annotated(msg, Blend(row)))
    IN  IF "increment" \in failed THEN updated ELSE IncrementInteractions(updated)

\* If GetTrust fails nothing is stored.
StoredTrust(row, msg, failed) ==
    LET updated == IF "update" \in failed THEN row ELSE UpdateTrust(row, Blend(row))
    IN  IF "increment" \in failed THEN updated ELSE IncrementInteractions(updated)

-----------------------------------------------------------------------------
(* The daemon.                                                              *)

\* ShouldWake, with the conditions NewApp sets: every event of both adapters
\* matches, so Aegis decides.
ShouldWake(msg, score) == msg \notin Flagged /\ Annotated(msg, score) >= MinTrust

\* handleEvent up to the session.
HandleEvent(failed) ==
    /\ daemon = "waiting" /\ merged # <<>>
    /\ IF failed = {} THEN UNCHANGED faults ELSE faults < MaxFaults /\ faults' = faults + 1
    /\ LET ev == Head(merged)
           msg == <<ev[1], ev[3]>>
           src == Adapter(ev[1])
           score == IF "get" \in failed THEN Prior ELSE Blend(trust[src])
       IN  /\ handled' = [handled EXCEPT ![ev[1]] = Append(@, ev[2])]
           /\ trust' = IF "get" \in failed THEN trust
                       ELSE [trust EXCEPT ![src] = StoredTrust(@, msg, failed)]
           /\ IF ShouldWake(msg, score)
              THEN daemon' = "session" /\ verdicts' = verdicts \cup {<<msg, "wake">>}
              ELSE UNCHANGED daemon /\ verdicts' = verdicts \cup {<<msg, "decline">>}
    /\ merged' = Tail(merged)
    /\ UNCHANGED <<world, started, live, last, fetched, batch, out, closed, broken, hand, fanin>>

\* RunSession returns: handleEvent goes back to the loop, the fallback to one
\* session ends Run.
SessionEnds ==
    /\ daemon = "session"
    /\ daemon' = IF started = {} THEN "returned" ELSE "waiting"
    /\ UNCHANGED <<world, started, live, pipes, handled, verdicts, trust, faults>>

\* The merged channel is closed once every fan-in goroutine has ended; what is
\* in it is received first.
AllClosed ==
    /\ daemon = "waiting" /\ merged = <<>>
    /\ \A a \in started : fanin[a] = "ended"
    /\ daemon' = "returned"
    /\ UNCHANGED <<world, started, live, pipes, handled, verdicts, trust, faults>>

ShutDown ==
    /\ daemon = "waiting" /\ ~live
    /\ daemon' = "returned"
    /\ UNCHANGED <<world, started, live, pipes, handled, verdicts, trust, faults>>

FailedStatements == {{}, {"get"}, {"update"}, {"increment"}, {"update", "increment"}}

Goroutines ==
    \/ \E c \in Channels : Fetch(c) \/ Abandon(c)
    \/ Scan \/ ScanFails \/ CloseOut
    \/ \E f \in Feeds : Send(f)
    \/ \E a \in Adapters : Take(a) \/ Merge(a) \/ FanInEnds(a)
Loop ==
    \/ \E failed \in FailedStatements : HandleEvent(failed)
    \/ SessionEnds \/ AllClosed \/ ShutDown

Next ==
    \/ \E f \in Feeds : Post(f)
    \/ EndOfInput \/ Signal \/ Exit
    \/ \E S \in SUBSET Adapters : StartAll(S)
    \/ Goroutines \/ Loop

Spec == Init /\ [][Next]_vars

\* Every goroutine that can take a step takes one; the service answers and a
\* session ends in the end.
Fairness ==
    /\ \A c \in Channels : WF_vars(Fetch(c))
    /\ \A f \in Feeds : WF_vars(Send(f))
    /\ \A a \in Adapters : WF_vars(Take(a)) /\ WF_vars(Merge(a)) /\ WF_vars(FanInEnds(a))
    /\ WF_vars(Scan) /\ WF_vars(CloseOut) /\ WF_vars(Loop)
FairSpec == Spec /\ Fairness

-----------------------------------------------------------------------------
(* Properties.                                                              *)

\* The events of feed f in s are those with the numbers lo to hi - 1, in this order.
InOrder(f, s, lo, hi) ==
    /\ lo =< hi
    /\ \A i \in DOMAIN s : s[i][1] = f => s[i][2] \in lo..(hi - 1)
    /\ \A n \in lo..(hi - 1) : \E i \in DOMAIN s : s[i][1] = f /\ s[i][2] = n
    /\ \A i, j \in DOMAIN s : i < j /\ s[i][1] = f /\ s[j][1] = f => s[i][2] < s[j][2]

InTransit(f) == merged \o hand[Adapter(f)] \o out[Adapter(f)] \o batch[f]

\* While the context is live, the daemon has handled the first events that were
\* read from a feed, in the order they were read in, and the others are on their
\* way, in this order, through hand, channels and batch: the goroutines and
\* buffers of the adapters and of StartAll lose, repeat and reorder nothing that
\* an adapter has read, although the cursor moves before delivery and the pollers
\* share a channel.  (What is read may repeat itself: see RepeatsBounded.)
NothingLost ==
    live => \A f \in Feeds :
        /\ handled[f] = [i \in 1..Len(handled[f]) |-> i]
        /\ InOrder(f, InTransit(f), Len(handled[f]) + 1, Len(fetched[f]) + 1)

\* The cursor of a channel never passes a message that was not read: from the
\* oldest message of the first page on, every message up to the cursor has been,
\* whatever is posted between the fetches (fetchMessages).
NoGap ==
    \A c \in Channels : \A id \in 1..last[c] :
        (\E old \in Range(fetched[c]) : old =< id) => id \in Range(fetched[c])

\* The cursor is left at the oldest message of a page, so that the next fetch
\* brings the others again.  It moves by one message each time: no message is read
\* more often than a page is long, and a channel that falls silent is read to
\* its end and then no more.
Readings(c, id) == {i \in DOMAIN fetched[c] : fetched[c][i] = id}
RepeatsBounded ==
    \A c \in Channels : \A id \in 1..MaxPosts : Cardinality(Readings(c, id)) =< PageSize

\* A message that is posted after a first fetch, and every line, is handled in
\* the end, unless the process is stopped or the reader of stdin broken: full
\* buffers, repeated pages and a long session delay it only.  (Before the first
\* fetch there is no cursor, and a burst longer than a page is lost.)
Waiting(f, id) ==
    /\ live /\ Adapter(f) \in started /\ id =< posted[f]
    /\ f = Cli \/ \E old \in Range(fetched[f]) : old =< id
EventuallyHandled ==
    \A f \in Feeds : \A id \in 1..MaxPosts :
        Waiting(f, id) ~> \/ \E v \in {"wake", "decline"} : <<<<f, id>>, v>> \in verdicts
                          \/ ~live \/ started = {}
                          \/ f = Cli /\ broken

\* The daemon returns without a signal only after the end of stdin, with every
\* line handled, or after a failed read, with every line before it handled: closing
\* the reader's channel and the merged one discards none.
EofDrains ==
    daemon = "returned" /\ live /\ started # {} =>
        /\ handled[Cli] = [i \in 1..last[Cli] |-> i]
        /\ (eof /\ last[Cli] = posted[Cli]) \/ broken

\* A flagged message costs its source nothing later: only flagged messages start
\* no session, whatever came before, through the ramp of a new source and through
\* failing trust statements (the penalty is not stored).
CleanWakes == \A v \in verdicts : v[2] = "decline" => v[1] \in Flagged
=============================================================================

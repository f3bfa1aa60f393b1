-------------------------- MODULE EngineLoopProofs --------------------------
(***************************************************************************)
(* Theorems about EngineLoop, for any tools, batch sizes, budgets, queues  *)
(* and faults.                                                             *)
(***************************************************************************)
EXTENDS EngineLoop, TLAPS

\* The slots are those of the batch, and only a tool that may signal Terminate
\* has signalled it.
SlotInv ==
    /\ Len(batch) <= MaxBatch
    /\ pc \in {"tools", "hooks"} =>
          /\ Len(slot) = Len(batch)
          /\ \A i \in 1..Len(batch) : slot[i].ends => batch[i] \in Terminating

\* A request is sent only while there is an iteration left.
CountInv == turn <= MaxIterations /\ (pc = "request" => turn < MaxIterations)

\* While a batch runs the last message is its assistant message, and everything
\* before that is in place; once its results are in, everything is, unless the
\* batch was cut short.
HistoryInv ==
    BatchesEndTogether =>
        /\ pc = "tools" =>
              /\ Len(history) > 0
              /\ history[Len(history)].role = "assistant"
              /\ history[Len(history)].n = Len(batch)
              /\ history[Len(history)].turn = turn
              /\ \A k \in 1..(Len(history) - 1) : WellPlaced(k)
        /\ pc = "hooks" /\ Collected = Len(batch) => \A k \in 1..Len(history) : WellPlaced(k)
        /\ pc \in {"request", "drain"} => \A k \in 1..Len(history) : WellPlaced(k)

\* What the budget has been charged with: a response is billed when it arrives and
\* counted behind its hooks.
BudgetInv ==
    /\ pc \in {"request", "drain"} \cup (Returned \ {"failed"}) => billed = used
    /\ pc \in {"tools", "hooks"} => billed = used + cost
    /\ NoRequestWhenHard

Inv == TypeOK /\ SlotInv /\ CountInv /\ BudgetInv /\ HistoryInv

-----------------------------------------------------------------------------
(* Facts about messages and about the number of results.                   *)

LEMMA SeqFacts ==
    ASSUME NEW S, NEW q \in Seq(S)
    PROVE  /\ Len(q) \in Nat /\ \A i \in 1..Len(q) : q[i] \in S
           /\ q = <<>> <=> Len(q) = 0
OBVIOUS

LEMMA ConcatFacts ==
    ASSUME NEW S, NEW p \in Seq(S), NEW q \in Seq(S)
    PROVE  /\ p \o q \in Seq(S) /\ Len(p \o q) = Len(p) + Len(q)
           /\ Len(p) \in Nat /\ Len(q) \in Nat
           /\ \A i \in 1..Len(p) : (p \o q)[i] = p[i]
           /\ \A i \in 1..Len(q) : (p \o q)[Len(p) + i] = q[i]
OBVIOUS

LEMMA AppendFacts ==
    ASSUME NEW S, NEW q \in Seq(S), NEW e \in S
    PROVE  /\ Append(q, e) \in Seq(S) /\ Len(Append(q, e)) = Len(q) + 1
           /\ Len(q) \in Nat
           /\ \A i \in 1..Len(q) : Append(q, e)[i] = q[i]
           /\ Append(q, e)[Len(q) + 1] = e
OBVIOUS

LEMMA FunctionIsSeq ==
    ASSUME NEW S, NEW N \in Nat, NEW f \in [1..N -> S]
    PROVE  f \in Seq(S) /\ Len(f) = N
OBVIOUS

LEMMA ExceptFacts ==
    ASSUME NEW S, NEW q \in Seq(S), NEW i \in 1..Len(q), NEW e \in S
    PROVE  /\ [q EXCEPT ![i] = e] \in Seq(S) /\ Len([q EXCEPT ![i] = e]) = Len(q)
           /\ \A k \in 1..Len(q) : [q EXCEPT ![i] = e][k] = IF k = i THEN e ELSE q[k]
OBVIOUS

LEMMA Types ==
    ASSUME TypeOK
    PROVE  /\ history \in Seq(Message) /\ batch \in Seq(Tools) /\ slot \in Seq(Result)
           /\ t2 \in Seq(Message) /\ steering \in Seq(Message) /\ followUp \in Seq(Message)
           /\ turn \in Nat /\ count \in Nat /\ used \in Nat /\ cost \in Nat /\ billed \in Nat
           /\ sent \in Nat /\ faults \in Nat /\ text \in {"empty", "text"}
           /\ Len(batch) \in Nat /\ Len(history) \in Nat /\ Len(slot) \in Nat
<1>1. /\ history \in Seq(Message) /\ batch \in Seq(Tools) /\ slot \in Seq(Result)
      /\ t2 \in Seq(Message) /\ steering \in Seq(Message) /\ followUp \in Seq(Message)
      /\ turn \in Nat /\ count \in Nat /\ used \in Nat /\ cost \in Nat /\ billed \in Nat
      /\ sent \in Nat /\ faults \in Nat /\ text \in {"empty", "text"}
  BY Zenon DEF TypeOK
<1>2. Len(batch) \in Nat /\ Len(history) \in Nat /\ Len(slot) \in Nat
  BY <1>1, SeqFacts, Zenon
<1> QED
  BY <1>1, <1>2

LEMMA MsgFacts ==
    ASSUME NEW r \in {"user", "assistant", "tool"}, NEW t \in Nat, NEW n \in Nat, NEW c \in Content
    PROVE  /\ Msg(r, t, n, c) \in Message
           /\ Msg(r, t, n, c).role = r
           /\ Msg(r, t, n, c).turn = t
           /\ Msg(r, t, n, c).n = n
           /\ Msg(r, t, n, c).content = c
BY DEF Msg, Message

LEMMA ResultFacts ==
    ASSUME NEW c \in Content, NEW e \in BOOLEAN
    PROVE  /\ Done(c, e) \in Result /\ Done(c, e).ends = e
           /\ [phase |-> "executed", content |-> c, ends |-> e] \in Result
           /\ [phase |-> "executed", content |-> c, ends |-> e].ends = e
           /\ Waiting \in Result /\ ~Waiting.ends
BY DEF Done, Result, Waiting, Content

LEMMA CollectedFacts ==
    ASSUME TypeOK
    PROVE  /\ Collected \in 0..Len(batch)
           /\ Collected # Len(batch) =>
                 /\ Serial /\ Collected \in Calls /\ slot[Collected].ends
<1>1. Len(batch) \in Nat
  BY Types
<1>2. CASE Serial /\ \E i \in Calls : slot[i].ends
  <2>1. Collected \in Calls /\ slot[Collected].ends
    BY <1>2 DEF Collected
  <2> QED
    BY <1>1, <1>2, <2>1 DEF Calls
<1>3. CASE ~(Serial /\ \E i \in Calls : slot[i].ends)
  BY <1>1, <1>3 DEF Collected
<1> QED
  BY <1>2, <1>3

\* A batch that was cut short ends the loop, where batches end together.
LEMMA CutShort ==
    ASSUME TypeOK, SlotInv, BatchesEndTogether, pc = "hooks", Collected # Len(batch)
    PROVE  batch # <<>> /\ Terminated
<1>1. /\ Serial /\ Collected \in Calls /\ slot[Collected].ends
      /\ Collected \in 0..Len(batch)
  BY CollectedFacts
<1>2. Len(batch) \in Nat /\ MaxBatch \in Nat /\ Collected < Len(batch)
  <2>1. Len(batch) \in Nat
    BY Types
  <2>2. MaxBatch \in Nat
    BY LoopAssumption
  <2> QED
    BY ONLY <1>1, <2>1, <2>2, Collected # Len(batch)
<1>3. Collected \in 1..Len(batch)
  BY <1>1 DEF Calls
<1>4. batch[Collected] \in Terminating
  BY <1>1, <1>3 DEF SlotInv
<1>5. Len(batch) > 1
  BY <1>2, <1>3
<1>6. \E i \in Calls : batch[i] \in Sequential
  BY <1>1, <1>2, <1>5 DEF Serial
<1>7. MaxBatch <= 2
  BY <1>4, <1>6 DEF BatchesEndTogether
<1>8. Collected = 1
  BY <1>2, <1>3, <1>7 DEF SlotInv
<1>9. batch # <<>>
  BY <1>5
<1> QED
  BY <1>1, <1>8, <1>9 DEF Terminated

-----------------------------------------------------------------------------
(* Well-placed messages stay so when the list grows.                       *)

LEMMA Grows ==
    ASSUME history \in Seq(Message), history' \in Seq(Message),
           Len(history) <= Len(history'),
           \A i \in 1..Len(history) : history'[i] = history[i],
           NEW k \in 1..Len(history), WellPlaced(k)
    PROVE  WellPlaced(k)'
<1>1. /\ Len(history) \in Nat /\ Len(history') \in Nat /\ k \in Nat
      /\ history[k] \in Message /\ history'[k] = history[k]
      /\ history[k].n \in Nat
  <2>1. Len(history) \in Nat /\ Len(history') \in Nat /\ history[k] \in Message
    BY SeqFacts
  <2>2. history[k].n \in Nat
    BY ONLY <2>1 DEF Message
  <2>3. history'[k] = history[k] /\ k \in Nat
    BY <2>1
  <2> QED
    BY ONLY <2>1, <2>2, <2>3
<1>2. ASSUME history[k].role = "assistant", NEW c \in 1..history[k].n
      PROVE  /\ k + c <= Len(history')
             /\ history'[k + c].role = "tool"
             /\ history'[k + c].turn = history[k].turn
             /\ history'[k + c].n = c
  <2>1. /\ k + c <= Len(history)
        /\ history[k + c].role = "tool"
        /\ history[k + c].turn = history[k].turn
        /\ history[k + c].n = c
    BY <1>2 DEF WellPlaced, Answered
  <2>2. k + c \in 1..Len(history)
    BY <1>1, <1>2, <2>1
  <2>3. history'[k + c] = history[k + c] /\ k + c <= Len(history')
    BY <1>1, <2>1, <2>2
  <2> QED
    BY <2>1, <2>3
<1>3. history[k].role = "assistant" => Answered(k)'
  BY <1>1, <1>2 DEF Answered
<1>4. ASSUME history[k].role = "tool" PROVE Answers(k)'
  <2>1. Answers(k)
    BY <1>4 DEF WellPlaced
  <2>2. k - history[k].n \in 1..Len(history)
    BY <1>1, <2>1 DEF Answers
  <2>3. history'[k - history[k].n] = history[k - history[k].n]
    BY <2>2
  <2> QED
    BY <1>1, <2>1, <2>3 DEF Answers
<1> QED
  BY <1>1, <1>3, <1>4 DEF WellPlaced

\* An assistant message with n calls, followed by the n answers in their order.
LEMMA BlockPlaced ==
    ASSUME history' \in Seq(Message), NEW L \in Nat \ {0}, NEW N \in Nat, NEW t \in Nat,
           Len(history') = L + N,
           history'[L].role = "assistant", history'[L].n = N, history'[L].turn = t,
           \A i \in 1..N : /\ history'[L + i].role = "tool"
                           /\ history'[L + i].turn = t
                           /\ history'[L + i].n = i,
           NEW k \in L..Len(history')
    PROVE  WellPlaced(k)'
<1>1. CASE k = L
  BY <1>1 DEF WellPlaced, Answered
<1>2. CASE k # L
  <2> DEFINE i == k - L
  <2>1. i \in 1..N /\ k = L + i
    BY <1>2
  <2>2. history'[k].role = "tool" /\ history'[k].n = i
    BY <2>1
  <2>3. k - i = L /\ i < k
    BY <2>1
  <2> HIDE DEF i
  <2>4. Answers(k)'
    BY <2>1, <2>2, <2>3 DEF Answers
  <2> QED
    BY <2>2, <2>4 DEF WellPlaced
<1> QED
  BY <1>1, <1>2

\* A message of the user appended to a list in place leaves it in place.
LEMMA UserPlaced ==
    ASSUME history \in Seq(Message), NEW m \in Message, m.role = "user",
           history' = Append(history, m),
           \A k \in 1..Len(history) : WellPlaced(k)
    PROVE  \A k \in 1..Len(history') : WellPlaced(k)'
<1>1. /\ history' \in Seq(Message) /\ Len(history') = Len(history) + 1
      /\ Len(history) \in Nat
      /\ \A i \in 1..Len(history) : history'[i] = history[i]
      /\ history'[Len(history) + 1] = m
  OBVIOUS
<1>2. ASSUME NEW k \in 1..Len(history') PROVE WellPlaced(k)'
  <2>1. CASE k \in 1..Len(history)
    BY <1>1, <2>1, Grows
  <2>2. CASE k = Len(history) + 1
    BY <1>1, <2>2 DEF WellPlaced
  <2> QED
    BY <1>1, <2>1, <2>2
<1> QED
  BY <1>2

-----------------------------------------------------------------------------
(* The steps of the loop.                                                  *)

LEMMA InvRespond ==
    ASSUME Inv, pc = "request", NEW b \in Batches, NEW tx \in Texts, NEW c \in Costs,
           NEW finish \in {"stop", "length"}, Respond(b, tx, c, finish),
           UNCHANGED <<count, t2, used, queues>>, faults' = faults
    PROVE  Inv'
<1> DEFINE A == Msg("assistant", turn + 1, Len(b), tx)
           said == Append(history, A)
           T == [i \in 1..Len(b) |-> Msg("tool", turn + 1, i, "truncated")]
<1>1. TypeOK /\ SlotInv /\ CountInv /\ BudgetInv /\ HistoryInv
  BY DEF Inv
<1>2. b \in Seq(Tools) /\ Len(b) \in 0..MaxBatch /\ (b = <<>> <=> Len(b) = 0)
  <2>1. PICK n \in 0..MaxBatch : b \in [1..n -> Tools]
    BY DEF Batches
  <2>2. n \in Nat
    BY <2>1, LoopAssumption
  <2>3. b \in Seq(Tools) /\ Len(b) = n
    BY <2>1, <2>2, FunctionIsSeq
  <2> QED
    BY <2>1, <2>3, SeqFacts
<1>3. Len(b) \in Nat /\ MaxBatch \in Nat /\ Len(b) <= MaxBatch /\ MaxIterations \in Nat
  BY <1>2, LoopAssumption
<1>4. /\ turn' = turn + 1 /\ batch' = b /\ text' = tx /\ cost' = c
      /\ billed' = billed + (IF finish = "length" /\ b # <<>> THEN 0 ELSE c)
      /\ count' = count /\ t2' = t2 /\ used' = used
      /\ steering' = steering /\ followUp' = followUp /\ sent' = sent
  BY DEF Respond, queues
<1>5. turn \in Nat /\ turn < MaxIterations /\ turn + 1 \in Nat /\ turn + 1 <= MaxIterations
  <2>1. turn \in Nat /\ turn < MaxIterations
    BY <1>1, Types DEF CountInv
  <2> QED
    BY ONLY <1>3, <2>1
<1>6. /\ A \in Message /\ A.role = "assistant" /\ A.turn = turn + 1 /\ A.n = Len(b)
  <2>1. tx \in Content
    BY LoopAssumption DEF Content
  <2> QED
    BY <1>3, <1>5, <2>1, MsgFacts
<1>7. \A i \in 1..Len(b) : /\ T[i] \in Message /\ T[i].role = "tool"
                           /\ T[i].turn = turn + 1 /\ T[i].n = i
  <2> SUFFICES ASSUME NEW i \in 1..Len(b)
               PROVE  /\ T[i] \in Message /\ T[i].role = "tool"
                      /\ T[i].turn = turn + 1 /\ T[i].n = i
    OBVIOUS
  <2>1. i \in Nat /\ "truncated" \in Content
    BY <1>3 DEF Content
  <2>2. T[i] = Msg("tool", turn + 1, i, "truncated")
    OBVIOUS
  <2> QED
    BY <1>5, <2>1, <2>2, MsgFacts
<1>8. T \in Seq(Message) /\ Len(T) = Len(b)
  <2>1. T \in [1..Len(b) -> Message]
    BY <1>7
  <2> QED
    BY <1>3, <2>1, FunctionIsSeq
<1> HIDE DEF A, T
<1>9. /\ said \in Seq(Message) /\ Len(said) = Len(history) + 1 /\ Len(history) \in Nat
      /\ \A i \in 1..Len(history) : said[i] = history[i]
      /\ said[Len(history) + 1] = A
  BY <1>1, <1>6, Types, AppendFacts
<1> HIDE DEF said
<1>12. used \in Nat /\ billed \in Nat /\ c \in Nat /\ billed = used
  BY <1>1, Types, LoopAssumption DEF BudgetInv
<1>10. CASE finish = "length" /\ b # <<>>
  <2>0. billed' = billed  BY ONLY <1>4, <1>10, <1>12
  <2>1. /\ history' = said \o T /\ slot' = <<>>
        /\ pc' = IF turn + 1 >= MaxIterations THEN "exhausted" ELSE "request"
    BY <1>10 DEF Respond, said, A, T
  <2>2. /\ history' \in Seq(Message) /\ Len(history') = Len(history) + 1 + Len(b)
        /\ \A i \in 1..Len(said) : history'[i] = said[i]
        /\ \A i \in 1..Len(b) : history'[Len(history) + 1 + i] = T[i]
    <3>1. /\ said \o T \in Seq(Message) /\ Len(said \o T) = Len(said) + Len(T)
          /\ \A i \in 1..Len(said) : (said \o T)[i] = said[i]
          /\ \A i \in 1..Len(T) : (said \o T)[Len(said) + i] = T[i]
      <4>1. said \in Seq(Message) /\ T \in Seq(Message)
        BY <1>8, <1>9
      <4> QED
        BY ONLY <4>1
    <3> QED
      BY ONLY <1>8, <1>9, <2>1, <3>1
  <2>3. history'[Len(history) + 1] = A /\ \A i \in 1..Len(history) : history'[i] = history[i]
    BY <1>9, <2>2
  <2>4. TypeOK'
    BY <1>1, <1>2, <1>4, <1>12, <1>5, <2>0, <2>1, <2>2, LoopAssumption, Types DEF TypeOK, Returned
  <2>5. SlotInv' /\ CountInv' /\ BudgetInv'
    BY <1>1, <1>3, <1>4, <1>5, <2>0, <2>1 DEF SlotInv, CountInv, BudgetInv, Returned, NoRequestWhenHard
  <2>6. ASSUME BatchesEndTogether, NEW k \in 1..Len(history') PROVE WellPlaced(k)'
    <3>1. CASE k \in 1..Len(history)
      <4>1. WellPlaced(k)
        BY <1>1, <2>6, <3>1 DEF HistoryInv
      <4>2. history \in Seq(Message) /\ Len(history) <= Len(history')
        BY <1>1, <1>3, <1>9, <2>2, Types
      <4> QED
        BY <2>2, <2>3, <3>1, <4>1, <4>2, Grows
    <3>2. CASE k \notin 1..Len(history)
      <4>1. k \in (Len(history) + 1)..Len(history') /\ Len(history) + 1 \in Nat \ {0}
        BY <1>3, <1>9, <2>2, <3>2
      <4> DEFINE L == Len(history) + 1
      <4>2. /\ history'[L].role = "assistant" /\ history'[L].n = Len(b)
            /\ history'[L].turn = turn + 1
        BY <1>6, <2>3
      <4>3. \A i \in 1..Len(b) : /\ history'[L + i].role = "tool"
                                 /\ history'[L + i].turn = turn + 1
                                 /\ history'[L + i].n = i
        BY <1>7, <2>2
      <4>4. Len(history') = L + Len(b) /\ L \in Nat \ {0} /\ k \in L..Len(history')
        BY <2>2, <4>1
      <4> HIDE DEF L
      <4> QED
        BY ONLY <1>3, <1>5, <2>2, <4>2, <4>3, <4>4, BlockPlaced
    <3> QED
      BY <3>1, <3>2
  <2>7. HistoryInv'
    BY <2>1, <2>6 DEF HistoryInv
  <2> QED
    BY <2>4, <2>5, <2>7 DEF Inv
<1>11. CASE ~(finish = "length" /\ b # <<>>)
  <2>0. billed' = used + c  BY ONLY <1>4, <1>11, <1>12
  <2>1. /\ history' = said /\ slot' = [i \in 1..Len(b) |-> Waiting]
        /\ pc' = IF b = <<>> THEN "hooks" ELSE "tools"
    BY <1>11 DEF Respond, said, A
  <2>2. slot' \in Seq(Result) /\ Len(slot') = Len(b) /\ \A i \in 1..Len(b) : ~slot'[i].ends
    <3>1. Waiting \in Result /\ ~Waiting.ends
      BY DEF Waiting, Result, Content
    <3>2. slot' \in [1..Len(b) -> Result]
      BY <2>1, <3>1
    <3> QED
      BY <1>3, <2>1, <3>1, <3>2, FunctionIsSeq
  <2>3. TypeOK'
    BY <1>1, <1>2, <1>4, <1>12, <1>5, <1>9, <2>0, <2>1, <2>2, LoopAssumption, Types DEF TypeOK
  <2>4. SlotInv' /\ CountInv' /\ BudgetInv'
    BY <1>1, <1>3, <1>4, <1>5, <2>0, <2>1, <2>2 DEF SlotInv, CountInv, BudgetInv, Returned, NoRequestWhenHard
  <2>5. ASSUME BatchesEndTogether, NEW k \in 1..Len(history) PROVE WellPlaced(k)'
    <3>1. WellPlaced(k)
      BY <1>1, <2>5 DEF HistoryInv
    <3>2. history \in Seq(Message) /\ Len(history) <= Len(history')
      BY <1>1, <1>9, <2>1, Types
    <3> QED
      BY <1>9, <2>1, <3>1, <3>2, Grows
  <2>6. ASSUME b = <<>>, NEW k \in Nat, k = Len(history) + 1 PROVE WellPlaced(k)'
    <3>1. history'[k].role = "assistant" /\ history'[k].n = Len(b)
      BY <1>6, <1>9, <2>1, <2>6
    <3>2. 1..history'[k].n = {}
      BY <1>2, <2>6, <3>1
    <3> QED
      BY <3>1, <3>2 DEF WellPlaced, Answered
  <2>7. HistoryInv'
    <3> SUFFICES ASSUME BatchesEndTogether PROVE HistoryInv'
      BY DEF HistoryInv
    <3>1. CASE b = <<>>
      <4>1. \A k \in 1..Len(history') : k \in 1..Len(history) \/ k = Len(history) + 1
        BY <1>9, <2>1
      <4>2. \A k \in 1..Len(history') : WellPlaced(k)'
        BY <1>9, <2>5, <2>6, <3>1, <4>1
      <4> QED
        BY <2>1, <3>1, <4>2 DEF HistoryInv
    <3>2. CASE b # <<>>
      <4>1. Len(history') = Len(history) + 1 /\ history'[Len(history')] = A
        BY <1>9, <2>1
      <4>2. \A k \in 1..(Len(history') - 1) : WellPlaced(k)'
        BY <1>9, <2>5, <4>1
      <4> QED
        BY <1>4, <1>6, <1>9, <2>1, <3>2, <4>1, <4>2 DEF HistoryInv
    <3> QED
      BY <3>1, <3>2
  <2> QED
    BY <2>3, <2>4, <2>7 DEF Inv
<1> QED
  BY <1>10, <1>11

\* The message list stays as it is.
LEMMA SamePlaces ==
    ASSUME history' = history, NEW k
    PROVE  WellPlaced(k)' <=> WellPlaced(k)
BY DEF WellPlaced, Answered, Answers

\* A step of one call of a running batch.
LEMMA InvSlot ==
    ASSUME Inv, pc = "tools", NEW i \in Calls, NEW r \in Result, slot' = [slot EXCEPT ![i] = r],
           r.ends => batch[i] \in Terminating,
           UNCHANGED <<pc, model, history, count, t2, used, queues>>, faults' \in Nat
    PROVE  Inv'
<1>1. TypeOK /\ SlotInv /\ CountInv /\ BudgetInv /\ HistoryInv
  BY DEF Inv
<1>2. /\ pc' = pc /\ turn' = turn /\ batch' = batch /\ text' = text /\ cost' = cost /\ billed' = billed
      /\ history' = history /\ count' = count /\ t2' = t2 /\ used' = used
      /\ steering' = steering /\ followUp' = followUp /\ sent' = sent
  BY DEF model, queues
<1>3. slot \in Seq(Result) /\ Len(slot) = Len(batch) /\ Len(batch) \in Nat
  BY <1>1, Types DEF SlotInv
<1>4. /\ slot' \in Seq(Result) /\ Len(slot') = Len(slot)
      /\ \A k \in 1..Len(batch) : slot'[k] = IF k = i THEN r ELSE slot[k]
  <2>1. slot \in Seq(Result) /\ i \in 1..Len(slot)
    BY <1>3 DEF Calls
  <2>2. slot' = [slot EXCEPT ![i] = r]
    OBVIOUS
  <2>3. /\ slot' \in Seq(Result) /\ Len(slot') = Len(slot)
        /\ \A k \in 1..Len(slot) : slot'[k] = IF k = i THEN r ELSE slot[k]
    BY ONLY <2>1, <2>2, r \in Result, ExceptFacts
  <2> QED
    BY <1>3, <2>3
<1>5. TypeOK'
  BY <1>1, <1>2, <1>4 DEF TypeOK
<1>6. SlotInv'
  BY <1>1, <1>2, <1>3, <1>4 DEF SlotInv
<1>7. CountInv' /\ BudgetInv'
  BY <1>1, <1>2 DEF CountInv, BudgetInv, Returned, NoRequestWhenHard
<1>8. HistoryInv'
  BY <1>1, <1>2, SamePlaces DEF HistoryInv
<1> QED
  BY <1>5, <1>6, <1>7, <1>8 DEF Inv

LEMMA FaultTypes ==
    ASSUME TypeOK, Fault \/ NoFault
    PROVE  faults' \in Nat
<1>1. faults \in Nat
  BY Types
<1> QED
  BY <1>1 DEF Fault, NoFault

LEMMA InvBegin ==
    ASSUME Inv, NEW i \in Calls, Begin(i) PROVE Inv'
<1>1. TypeOK /\ SlotInv
  BY DEF Inv
<1>2. pc = "tools" /\ UNCHANGED <<pc, model, history, count, t2, used, queues>>
  BY DEF Begin
<1>3. faults' \in Nat
  BY <1>1, FaultTypes DEF Begin
<1>4. slot[i] \in Result /\ (slot[i].ends => batch[i] \in Terminating)
  <2>1. slot \in Seq(Result) /\ Len(slot) = Len(batch) /\ i \in 1..Len(batch)
    BY <1>1, <1>2, Types DEF SlotInv, Calls
  <2> QED
    BY <1>1, <1>2, <2>1 DEF SlotInv
<1>5. CASE slot' = [slot EXCEPT ![i] = [@ EXCEPT !.phase = "running"]]
  <2> DEFINE r == [slot[i] EXCEPT !.phase = "running"]
  <2>1. r \in Result /\ r.ends = slot[i].ends
    BY <1>4 DEF Result
  <2>2. slot' = [slot EXCEPT ![i] = r]
    BY <1>5
  <2> HIDE DEF r
  <2> QED
    BY <1>2, <1>3, <1>4, <2>1, <2>2, InvSlot
<1>6. CASE slot' = [slot EXCEPT ![i] = Done("error", FALSE)]
  <2>1. Done("error", FALSE) \in Result /\ ~Done("error", FALSE).ends
    BY DEF Done, Result, Content
  <2> QED
    BY <1>2, <1>3, <1>6, <2>1, InvSlot
<1> QED
  BY <1>5, <1>6 DEF Begin

LEMMA InvExecute ==
    ASSUME Inv, NEW i \in Calls, Execute(i) PROVE Inv'
<1>1. TypeOK
  BY DEF Inv
<1>2. pc = "tools" /\ UNCHANGED <<pc, model, history, count, t2, used, queues>>
  BY DEF Execute
<1>3. faults' \in Nat
  BY <1>1, FaultTypes DEF Execute
<1>4. ASSUME NEW out \in Outputs,
             slot' = [slot EXCEPT ![i] = [phase |-> "executed", content |-> out,
                                          ends |-> batch[i] \in Terminating]]
      PROVE  Inv'
  <2> DEFINE r == [phase |-> "executed", content |-> out, ends |-> batch[i] \in Terminating]
  <2>1. out \in Content
    BY LoopAssumption DEF Content
  <2>2. r \in Result /\ (r.ends => batch[i] \in Terminating)
    <3>1. (batch[i] \in Terminating) \in BOOLEAN
      OBVIOUS
    <3> QED
      BY <2>1, <3>1, ResultFacts, Zenon
  <2>3. slot' = [slot EXCEPT ![i] = r]
    BY <1>4
  <2> HIDE DEF r
  <2> QED
    BY <1>2, <1>3, <2>2, <2>3, InvSlot
<1>5. CASE slot' = [slot EXCEPT ![i] = Done("error", FALSE)]
  <2>1. Done("error", FALSE) \in Result /\ ~Done("error", FALSE).ends
    BY DEF Done, Result, Content
  <2> QED
    BY <1>2, <1>3, <1>5, <2>1, InvSlot
<1> QED
  BY <1>4, <1>5 DEF Execute

LEMMA InvReview ==
    ASSUME Inv, NEW i \in Calls, Review(i) PROVE Inv'
<1>1. TypeOK /\ SlotInv
  BY DEF Inv
<1>2. pc = "tools" /\ UNCHANGED <<pc, model, history, count, t2, used, queues>>
  BY DEF Review
<1>3. faults' \in Nat
  BY <1>1, FaultTypes DEF Review
<1>4. slot[i] \in Result /\ (slot[i].ends => batch[i] \in Terminating)
  <2>1. slot \in Seq(Result) /\ Len(slot) = Len(batch) /\ i \in 1..Len(batch)
    BY <1>1, <1>2, Types DEF SlotInv, Calls
  <2> QED
    BY <1>1, <1>2, <2>1 DEF SlotInv
<1>5. ASSUME NEW c \in Content, slot' = [slot EXCEPT ![i] = Done(c, slot[i].ends)] PROVE Inv'
  <2>1. Done(c, slot[i].ends) \in Result /\ Done(c, slot[i].ends).ends = slot[i].ends
    BY <1>4 DEF Done, Result
  <2> QED
    BY <1>2, <1>3, <1>4, <1>5, <2>1, InvSlot
<1>6. slot[i].content \in Content /\ Reviewed(batch[i], slot[i].content) \in Content
  <2>1. slot[i].content \in Content
    BY <1>4 DEF Result
  <2> QED
    BY <2>1 DEF Reviewed, Content
<1>7. \/ slot' = [slot EXCEPT ![i] = Done(Reviewed(batch[i], slot[i].content), slot[i].ends)]
      \/ slot' = [slot EXCEPT ![i] = Done(slot[i].content, slot[i].ends)]
  BY DEF Review
<1> QED
  BY <1>5, <1>6, <1>7

LEMMA InvCollect ==
    ASSUME Inv, Collect PROVE Inv'
<1> DEFINE C == Collected
           R == [i \in 1..Collected |-> Msg("tool", turn, i, slot[i].content)]
<1>1. TypeOK /\ SlotInv /\ CountInv /\ BudgetInv /\ HistoryInv
  BY DEF Inv
<1>2. /\ pc = "tools" /\ pc' = "hooks" /\ history' = history \o R
      /\ turn' = turn /\ batch' = batch /\ text' = text /\ cost' = cost /\ billed' = billed
      /\ slot' = slot /\ count' = count /\ t2' = t2 /\ used' = used
      /\ steering' = steering /\ followUp' = followUp /\ sent' = sent /\ faults' = faults
  BY DEF Collect, model, queues
<1>3. /\ Len(batch) \in Nat /\ turn \in Nat /\ history \in Seq(Message) /\ Len(history) \in Nat
      /\ slot \in Seq(Result) /\ Len(slot) = Len(batch)
  BY <1>1, <1>2, Types DEF SlotInv
<1>4. C \in Nat /\ C <= Len(batch)
  BY <1>1, <1>3, CollectedFacts
<1>5. Collected' = C
  BY <1>2 DEF Collected, Serial, Calls
<1> HIDE DEF C
<1>6. \A i \in 1..C : /\ R[i] \in Message /\ R[i].role = "tool"
                      /\ R[i].turn = turn /\ R[i].n = i
  <2> SUFFICES ASSUME NEW i \in 1..C
               PROVE  /\ R[i] \in Message /\ R[i].role = "tool"
                      /\ R[i].turn = turn /\ R[i].n = i
    OBVIOUS
  <2>1. i \in Nat /\ i \in 1..Len(slot)
    BY <1>3, <1>4
  <2>2. slot[i] \in Result
    BY <1>3, <2>1
  <2>3. slot[i].content \in Content
    BY <2>2 DEF Result
  <2>4. R[i] = Msg("tool", turn, i, slot[i].content)
    BY DEF C
  <2> QED
    BY <1>3, <2>1, <2>3, <2>4, MsgFacts
<1>7. R \in Seq(Message) /\ Len(R) = C
  <2>1. R \in [1..C -> Message]
    BY <1>6 DEF C
  <2> HIDE DEF R
  <2> QED
    BY <1>4, <2>1, FunctionIsSeq
<1> HIDE DEF R
<1>8. /\ history' \in Seq(Message) /\ Len(history') = Len(history) + C
      /\ \A i \in 1..Len(history) : history'[i] = history[i]
      /\ \A i \in 1..C : history'[Len(history) + i] = R[i]
  <2>1. history \in Seq(Message) /\ R \in Seq(Message)
    BY <1>3, <1>7
  <2>2. /\ history \o R \in Seq(Message) /\ Len(history \o R) = Len(history) + Len(R)
        /\ \A i \in 1..Len(history) : (history \o R)[i] = history[i]
        /\ \A i \in 1..Len(R) : (history \o R)[Len(history) + i] = R[i]
    BY ONLY <2>1
  <2> QED
    BY ONLY <1>2, <1>7, <2>2
<1>9. TypeOK'
  BY <1>1, <1>2, <1>8 DEF TypeOK
<1>10. SlotInv' /\ CountInv' /\ BudgetInv'
  BY <1>1, <1>2 DEF SlotInv, CountInv, BudgetInv, Returned, NoRequestWhenHard
<1>11. ASSUME BatchesEndTogether, C = Len(batch), NEW k \in 1..Len(history') PROVE WellPlaced(k)'
  <2> DEFINE L == Len(history)
  <2>1. /\ L \in Nat \ {0} /\ history[L].role = "assistant" /\ history[L].n = C
        /\ history[L].turn = turn
        /\ \A j \in 1..(L - 1) : WellPlaced(j)
    BY <1>1, <1>2, <1>3, <1>11 DEF HistoryInv
  <2>2. CASE k \in 1..(L - 1)
    <3>1. WellPlaced(k) /\ k \in 1..Len(history) /\ Len(history) <= Len(history')
      BY <1>4, <1>8, <2>1, <2>2
    <3> QED
      BY <1>3, <1>8, <3>1, Grows
  <2>3. CASE k \notin 1..(L - 1)
    <3>1. k \in L..Len(history') /\ Len(history') = L + C
      BY <1>4, <1>8, <2>1, <2>3
    <3>2. history'[L].role = "assistant" /\ history'[L].n = C /\ history'[L].turn = turn
      BY <1>8, <2>1
    <3>3. \A i \in 1..C : /\ history'[L + i].role = "tool"
                          /\ history'[L + i].turn = turn
                          /\ history'[L + i].n = i
      BY <1>6, <1>8
    <3>4. L \in Nat \ {0} /\ C \in Nat /\ turn \in Nat
      BY <1>3, <1>4, <2>1
    <3> HIDE DEF L
    <3> QED
      BY ONLY <1>8, <3>1, <3>2, <3>3, <3>4, BlockPlaced
  <2> QED
    BY <2>2, <2>3
<1>12. HistoryInv'
  BY <1>2, <1>5, <1>11 DEF HistoryInv
<1> QED
  BY <1>9, <1>10, <1>12 DEF Inv

LEMMA InvLogEntry ==
    ASSUME Inv, LogEntry PROVE Inv'
<1>1. TypeOK /\ SlotInv /\ CountInv /\ BudgetInv /\ HistoryInv
  BY DEF Inv
<1>2. /\ pc = "hooks" /\ count <= Collected /\ pc' \in {"hooks", "failed"}
      /\ turn' = turn /\ batch' = batch /\ text' = text /\ cost' = cost /\ billed' = billed
      /\ history' = history /\ slot' = slot /\ used' = used
      /\ steering' = steering /\ followUp' = followUp /\ sent' = sent
      /\ count' \in {count, count + 1}
      /\ t2' \in {t2, Append(t2, Entry(count))}
  BY DEF LogEntry, model, queues
<1>3. faults' \in Nat
  BY <1>1, FaultTypes DEF LogEntry
<1>4. Collected' = Collected
  BY <1>2 DEF Collected, Serial, Calls
<1>5. Entry(count) \in Message
  <2>1. /\ turn \in Nat /\ Len(batch) \in Nat /\ count \in Nat /\ text \in Content
        /\ slot \in Seq(Result) /\ Len(slot) = Len(batch)
    BY <1>1, <1>2, Types DEF SlotInv, Content
  <2>2. CASE count = 0
    BY <2>1, <2>2, MsgFacts DEF Entry
  <2>3. CASE count # 0
    <3>1. count \in 1..Len(slot)
      BY <1>1, <1>2, <2>1, <2>3, CollectedFacts
    <3>2. slot[count] \in Result
      BY <2>1, <3>1
    <3>3. slot[count].content \in Content
      BY <3>2 DEF Result
    <3> QED
      BY <2>1, <2>3, <3>3, MsgFacts DEF Entry
  <2> QED
    BY <2>2, <2>3
<1>6. t2' \in Seq(Message) /\ count' \in Nat
  <2>1. t2 \in Seq(Message) /\ count \in Nat
    BY <1>1, Types
  <2> QED
    BY <1>2, <1>5, <2>1, AppendFacts
<1>7. TypeOK'
  BY <1>1, <1>2, <1>3, <1>6 DEF TypeOK, Returned
<1>8. SlotInv' /\ CountInv' /\ BudgetInv'
  BY <1>1, <1>2 DEF SlotInv, CountInv, BudgetInv, Returned, NoRequestWhenHard
<1>9. HistoryInv'
  BY <1>1, <1>2, <1>4, SamePlaces DEF HistoryInv
<1> QED
  BY <1>7, <1>8, <1>9 DEF Inv

LEMMA InvFinishHooks ==
    ASSUME Inv, FinishHooks PROVE Inv'
<1>1. TypeOK /\ SlotInv /\ CountInv /\ BudgetInv /\ HistoryInv
  BY DEF Inv
<1>2. /\ pc = "hooks" /\ used' = used + cost /\ count' = 0
      /\ turn' = turn /\ batch' = batch /\ text' = text /\ cost' = cost /\ billed' = billed
      /\ history' = history /\ slot' = slot /\ t2' = t2
      /\ steering' = steering /\ followUp' = followUp /\ sent' = sent /\ faults' = faults
  BY DEF FinishHooks, model, queues
<1>3. /\ pc' \in {"finished", "terminated", "drain"}
      /\ pc' = "drain" => batch # <<>> /\ ~Terminated
  BY DEF FinishHooks
<1>4. used' \in Nat
  BY <1>1, <1>2, Types
<1>5. TypeOK'
  BY <1>1, <1>2, <1>3, <1>4 DEF TypeOK, Returned
<1>6. SlotInv' /\ CountInv' /\ BudgetInv'
  BY <1>1, <1>2, <1>3 DEF SlotInv, CountInv, BudgetInv, Returned, NoRequestWhenHard
<1>7. BatchesEndTogether /\ pc' = "drain" => Collected = Len(batch)
  BY <1>1, <1>2, <1>3, CutShort
<1>8. HistoryInv'
  BY <1>1, <1>2, <1>3, <1>7, SamePlaces DEF HistoryInv
<1> QED
  BY <1>5, <1>6, <1>8 DEF Inv

LEMMA InvSteer ==
    ASSUME Inv, Steer PROVE Inv'
<1>1. TypeOK /\ SlotInv /\ CountInv /\ BudgetInv /\ HistoryInv
  BY DEF Inv
<1>2. /\ pc = "drain" /\ steering # <<>> /\ pc' = pc /\ steering' = Tail(steering)
      /\ turn' = turn /\ batch' = batch /\ text' = text /\ cost' = cost /\ billed' = billed
      /\ slot' = slot /\ t2' = t2 /\ used' = used
      /\ followUp' = followUp /\ sent' = sent /\ faults' = faults
  BY DEF Steer, model
<1>3. /\ history \in Seq(Message) /\ count \in Nat /\ count + 1 \in Nat
      /\ steering' \in Seq(Message) /\ Head(steering) \in Message
  <2>1. steering \in Seq(Message) /\ history \in Seq(Message) /\ count \in Nat
    BY <1>1, Types
  <2>2. Tail(steering) \in Seq(Message) /\ Head(steering) \in Message
    BY <1>2, <2>1
  <2> QED
    BY <1>2, <2>1, <2>2
<1>4. SlotInv' /\ CountInv' /\ BudgetInv'
  BY <1>1, <1>2 DEF SlotInv, CountInv, BudgetInv, Returned, NoRequestWhenHard
<1>5. CASE Head(steering).role = "user"
  <2>1. history' = Append(history, Head(steering)) /\ count' = count + 1
    BY <1>5 DEF Steer
  <2>2. history' \in Seq(Message)
    BY <1>3, <2>1, AppendFacts
  <2>3. TypeOK'
    BY <1>1, <1>2, <1>3, <2>1, <2>2 DEF TypeOK
  <2>4. BatchesEndTogether => \A k \in 1..Len(history') : WellPlaced(k)'
    BY <1>1, <1>2, <1>3, <1>5, <2>1, UserPlaced DEF HistoryInv
  <2>5. HistoryInv'
    BY <1>2, <2>4 DEF HistoryInv
  <2> QED
    BY <1>4, <2>3, <2>5 DEF Inv
<1>6. CASE Head(steering).role # "user"
  <2>1. history' = history /\ count' = count
    BY <1>6 DEF Steer
  <2>2. TypeOK'
    BY <1>1, <1>2, <1>3, <2>1 DEF TypeOK
  <2>3. HistoryInv'
    BY <1>1, <1>2, <2>1, SamePlaces DEF HistoryInv
  <2> QED
    BY <1>4, <2>2, <2>3 DEF Inv
<1> QED
  BY <1>5, <1>6

LEMMA InvEndTurn ==
    ASSUME Inv, EndTurn PROVE Inv'
<1>1. TypeOK /\ SlotInv /\ CountInv /\ BudgetInv /\ HistoryInv
  BY DEF Inv
<1>2. /\ pc = "drain" /\ count' = 0
      /\ turn' = turn /\ batch' = batch /\ text' = text /\ cost' = cost /\ billed' = billed
      /\ slot' = slot /\ t2' = t2 /\ used' = used
      /\ steering' = steering /\ sent' = sent /\ faults' = faults
  BY DEF EndTurn, model
<1>3. /\ pc' \in {"stopped", "exhausted", "request"}
      /\ pc' = "request" => ~Hard(used) /\ ~(turn >= MaxIterations)
  BY DEF EndTurn, ShouldStop
<1>4. turn \in Nat /\ MaxIterations \in Nat /\ history \in Seq(Message) /\ followUp \in Seq(Message)
  BY <1>1, Types, LoopAssumption
<1>5. SlotInv' /\ CountInv' /\ BudgetInv'
  BY <1>1, <1>2, <1>3, <1>4 DEF SlotInv, CountInv, BudgetInv, Returned, NoRequestWhenHard, Hard
<1>6. CASE history' = history /\ followUp' \in Seq(Message)
  <2>1. TypeOK'
    BY <1>1, <1>2, <1>3, <1>6 DEF TypeOK, Returned
  <2>2. HistoryInv'
    BY <1>1, <1>2, <1>3, <1>6, SamePlaces DEF HistoryInv
  <2> QED
    BY <1>5, <2>1, <2>2 DEF Inv
<1>7. ASSUME NEW m \in Message, m.role = "user", history' = Append(history, m), followUp' \in Seq(Message)
      PROVE  Inv'
  <2>1. history' \in Seq(Message)
    BY <1>4, <1>7, AppendFacts
  <2>2. TypeOK'
    BY <1>1, <1>2, <1>3, <1>7, <2>1 DEF TypeOK, Returned
  <2>3. BatchesEndTogether => \A k \in 1..Len(history') : WellPlaced(k)'
    BY <1>1, <1>2, <1>4, <1>7, UserPlaced DEF HistoryInv
  <2>4. HistoryInv'
    BY <1>3, <2>3 DEF HistoryInv
  <2> QED
    BY <1>5, <2>2, <2>4 DEF Inv
<1>8. CASE TakesFollowUp
  <2>1. followUp # <<>> /\ followUp' = Tail(followUp)
    BY <1>8 DEF TakesFollowUp, EndTurn
  <2>2. Head(followUp) \in Message /\ Tail(followUp) \in Seq(Message)
    BY <1>4, <2>1
  <2>3. \/ Head(followUp).role = "user" /\ history' = Append(history, Head(followUp))
        \/ history' = history
    BY <1>8 DEF EndTurn
  <2> QED
    BY <1>6, <1>7, <2>1, <2>2, <2>3
<1>9. CASE ~TakesFollowUp
  BY <1>4, <1>6, <1>9 DEF EndTurn
<1> QED
  BY <1>8, <1>9

LEMMA InvSend ==
    ASSUME Inv, Send PROVE Inv'
<1>1. TypeOK /\ SlotInv /\ CountInv /\ BudgetInv /\ HistoryInv
  BY DEF Inv
<1>2. /\ pc' = pc /\ turn' = turn /\ batch' = batch /\ text' = text /\ cost' = cost /\ billed' = billed
      /\ history' = history /\ slot' = slot /\ count' = count /\ t2' = t2 /\ used' = used
      /\ faults' = faults /\ sent' = sent + 1
  BY DEF Send, model
<1>3. steering \in Seq(Message) /\ followUp \in Seq(Message) /\ sent \in Nat /\ sent + 1 \in Nat
  BY <1>1, Types
<1>4. steering' \in Seq(Message) /\ followUp' \in Seq(Message)
  <2>1. PICK role \in {"user", "assistant"} :
           \/ steering' = Append(steering, Msg(role, 0, sent + 1, "text")) /\ followUp' = followUp
           \/ followUp' = Append(followUp, Msg(role, 0, sent + 1, "nudge")) /\ steering' = steering
    BY DEF Send
  <2>2. Msg(role, 0, sent + 1, "text") \in Message /\ Msg(role, 0, sent + 1, "nudge") \in Message
    <3>1. "text" \in Content /\ "nudge" \in Content /\ 0 \in Nat
      BY DEF Content
    <3> QED
      BY <1>3, <2>1, <3>1, MsgFacts
  <2>3. /\ Append(steering, Msg(role, 0, sent + 1, "text")) \in Seq(Message)
        /\ Append(followUp, Msg(role, 0, sent + 1, "nudge")) \in Seq(Message)
    BY ONLY <1>3, <2>2, AppendFacts
  <2> QED
    BY ONLY <1>3, <2>1, <2>3
<1>5. TypeOK'
  BY <1>1, <1>2, <1>3, <1>4 DEF TypeOK
<1>6. SlotInv' /\ CountInv' /\ BudgetInv'
  BY <1>1, <1>2 DEF SlotInv, CountInv, BudgetInv, Returned, NoRequestWhenHard
<1>7. Collected' = Collected
  BY <1>2 DEF Collected, Serial, Calls
<1>8. HistoryInv'
  BY <1>1, <1>2, <1>7, SamePlaces DEF HistoryInv
<1> QED
  BY <1>5, <1>6, <1>8 DEF Inv

LEMMA InvRequest ==
    ASSUME Inv, Request PROVE Inv'
<1>1. TypeOK /\ SlotInv /\ CountInv /\ BudgetInv /\ HistoryInv
  BY DEF Inv
<1>2. pc = "request" /\ UNCHANGED <<count, t2, used, queues>>
  BY DEF Request
<1>3. CASE \E b \in Batches, tx \in Texts, c \in Costs, finish \in {"stop", "length"} :
              Respond(b, tx, c, finish) /\ faults' = faults
  BY <1>2, <1>3, InvRespond
<1>4. CASE /\ Fault /\ pc' = "failed" /\ turn' = turn + 1
           /\ UNCHANGED <<history, batch, text, cost, billed, slot>>
  <2>1. faults' \in Nat
    BY <1>1, <1>4, FaultTypes
  <2>2. turn \in Nat /\ turn + 1 \in Nat /\ MaxIterations \in Nat /\ turn < MaxIterations
    BY <1>1, <1>2, Types, LoopAssumption DEF CountInv
  <2>3. /\ steering' = steering /\ followUp' = followUp /\ sent' = sent
        /\ count' = count /\ t2' = t2 /\ used' = used
    BY <1>2 DEF queues
  <2>4. TypeOK'
    BY <1>1, <1>4, <2>1, <2>2, <2>3 DEF TypeOK, Returned
  <2>5. SlotInv' /\ CountInv' /\ BudgetInv' /\ HistoryInv'
    BY <1>1, <1>4, <2>2 DEF SlotInv, CountInv, BudgetInv, Returned, NoRequestWhenHard, HistoryInv
  <2> QED
    BY <2>4, <2>5 DEF Inv
<1> QED
  BY <1>3, <1>4 DEF Request, NoFault

LEMMA InvStutter ==
    ASSUME Inv, UNCHANGED vars PROVE Inv'
<1>1. /\ pc' = pc /\ turn' = turn /\ batch' = batch /\ text' = text /\ cost' = cost /\ billed' = billed
      /\ history' = history /\ slot' = slot /\ count' = count /\ t2' = t2 /\ used' = used
      /\ faults' = faults /\ sent' = sent /\ steering' = steering /\ followUp' = followUp
  BY DEF vars
<1>2. Collected' = Collected
  BY <1>1 DEF Collected, Serial, Calls
<1>3. TypeOK'
  BY <1>1 DEF Inv, TypeOK
<1>4. SlotInv' /\ CountInv' /\ BudgetInv'
  BY <1>1 DEF Inv, SlotInv, CountInv, BudgetInv, Returned, NoRequestWhenHard
<1>5. HistoryInv'
  BY <1>1, <1>2, SamePlaces DEF Inv, HistoryInv
<1> QED
  BY <1>3, <1>4, <1>5 DEF Inv

LEMMA InvInit == Init => Inv
<1> SUFFICES ASSUME Init PROVE Inv
  OBVIOUS
<1> DEFINE m == Msg("user", 0, 0, "text")
<1>1. m \in Message /\ m.role = "user"
  BY MsgFacts DEF Content
<1>2. /\ history = <<m>> /\ pc = "request" /\ turn = 0 /\ used = 0 /\ billed = 0
      /\ batch = <<>> /\ slot = <<>>
  BY DEF Init
<1> HIDE DEF m
<1>3. history \in Seq(Message) /\ Len(history) = 1 /\ history[1] = m
  BY <1>1, <1>2
<1>4. TypeOK
  BY <1>3 DEF Init, TypeOK
<1>5. SlotInv /\ CountInv /\ BudgetInv
  BY <1>2, LoopAssumption DEF SlotInv, CountInv, BudgetInv, Returned, NoRequestWhenHard
<1>6. HistoryInv
  BY <1>1, <1>2, <1>3 DEF HistoryInv, WellPlaced
<1> QED
  BY <1>4, <1>5, <1>6 DEF Inv

\* The inductive invariant, for every choice of tools, bounds and budget.
THEOREM Invariance == Spec => []Inv
<1>1. Init => Inv
  BY InvInit
<1>2. Inv /\ [Next]_vars => Inv'
  <2> SUFFICES ASSUME Inv, [Next]_vars PROVE Inv'
    OBVIOUS
  <2>1. CASE Request
    BY <2>1, InvRequest
  <2>2. ASSUME NEW i \in Calls, Begin(i) \/ Execute(i) \/ Review(i) PROVE Inv'
    BY <2>2, InvBegin, InvExecute, InvReview
  <2>3. CASE Collect
    BY <2>3, InvCollect
  <2>4. CASE LogEntry
    BY <2>4, InvLogEntry
  <2>5. CASE FinishHooks
    BY <2>5, InvFinishHooks
  <2>6. CASE Steer
    BY <2>6, InvSteer
  <2>7. CASE EndTurn
    BY <2>7, InvEndTurn
  <2>8. CASE Send
    BY <2>8, InvSend
  <2>9. CASE UNCHANGED vars
    BY <2>9, InvStutter
  <2> QED
    BY <2>1, <2>2, <2>3, <2>4, <2>5, <2>6, <2>7, <2>8, <2>9 DEF Next, Loop
<1> QED
  BY <1>1, <1>2, PTL DEF Spec

\* Every reachable state of the loop is well typed.
THEOREM TypeCorrect == Spec => []TypeOK
BY Invariance, PTL DEF Inv

\* The loop makes at most MaxIterations requests, truncated turns included.
THEOREM LoopIsBounded == Spec => []TurnsBounded
<1>1. Inv => TurnsBounded
  BY DEF Inv, CountInv, TurnsBounded
<1> QED
  BY <1>1, Invariance, PTL

\* No request is sent once what the responses that were not cut off cost together
\* has made the budget hard: the budget's own count agrees with that sum whenever
\* ShouldStop reads it (BudgetInv), however the calls of the turns ended.
THEOREM BudgetIsKept == Spec => []NoRequestWhenHard
BY Invariance, PTL DEF Inv, BudgetInv

\* Whenever a request is sent, every call in the message list has its answer in
\* its place: for batches of any size if no tool is sequential (as in the
\* application) or none terminates, and always for batches of at most two.
THEOREM CallsAreAnswered == Spec => []EveryCallAnswered
<1>1. Inv => EveryCallAnswered
  BY DEF Inv, HistoryInv, EveryCallAnswered
<1> QED
  BY <1>1, Invariance, PTL

-----------------------------------------------------------------------------
(* The archive.  Messages that are not the user's are ordered by turn, and  *)
(* within a turn by their place; the rows of T2 follow that order.          *)

Place(m) == IF m.role = "assistant" THEN 0 ELSE m.n
Before(a, b) == a.turn < b.turn \/ (a.turn = b.turn /\ Place(a) < Place(b))

KeysInv ==
    /\ \A k \in 1..Len(history) :
          /\ history[k].turn <= turn
          /\ history[k].role = "user" <=> history[k].turn = 0
    /\ \A k, l \in 1..Len(history) :
          k < l /\ history[k].role # "user" /\ history[l].role # "user" => Before(history[k], history[l])

\* The messages of the running turn: its text, and once they are collected the
\* results, none of which was truncated.
Shown == IF pc = "hooks" THEN Collected ELSE 0
TurnInv ==
    /\ pc \in {"request", "tools"} => count = 0
    /\ pc \in {"tools", "hooks"} =>
          /\ turn > 0 /\ count <= Collected + 1
          /\ \A i \in Calls : slot[i].content # "truncated"
          /\ \A k \in 1..Len(history) :
                history[k].turn = turn => \E i \in 0..Shown : history[k] = Entry(i)
          /\ \A i \in 0..Shown : \E k \in 1..Len(history) : history[k] = Entry(i)

\* The rows are the messages worth keeping; in a turn whose entries are being
\* written those before entry c, where a failed write may have left one more.
KeptMessages(h) == {h[k] : k \in Kept(h)}
Rows == {t2[i] : i \in 1..Len(t2)}
Logged(c) == {m \in KeptMessages(history) : m.turn < turn \/ Place(m) < c}
ArchiveInv ==
    /\ pc \in {"tools", "hooks"} => Rows = Logged(count)
    /\ pc = "failed" => \E c \in {count, count + 1} : Rows = Logged(c)
    /\ pc \notin {"tools", "hooks", "failed"} => Rows = KeptMessages(history)
    /\ \A i, j \in 1..Len(t2) : i < j => Before(t2[i], t2[j])

-----------------------------------------------------------------------------
(* Injected messages.  What is in a queue comes after what has left it.     *)

QueueInv(h, q, content, top) ==
    /\ \A j \in 1..Len(q) : Injected(q[j], content) /\ q[j].n <= top
    /\ \A i, j \in 1..Len(q) : i < j => q[i].n < q[j].n
    /\ \A k \in 1..Len(h) : Injected(h[k], content) =>
          h[k].n <= top /\ \A j \in 1..Len(q) : h[k].n < q[j].n
    /\ Increasing(h, content)

\* A follow-up message is taken right behind the results of a batch.
NudgesPlaced(h) ==
    \A k \in 1..Len(h) : Injected(h[k], "nudge") => k > 1 /\ h[k - 1].role = "tool"
BehindResults ==
    (pc = "hooks" /\ batch # <<>>) \/ (pc = "drain" /\ count = 0) =>
        Len(history) > 0 /\ history[Len(history)].role = "tool"

InjectionInv ==
    /\ QueueInv(history, steering, "text", sent) /\ QueueInv(history, followUp, "nudge", sent)
    /\ NudgesPlaced(history) /\ BehindResults

Deep == KeysInv /\ TurnInv /\ ArchiveInv /\ InjectionInv

-----------------------------------------------------------------------------
(* What the invariants say together.                                        *)

LEMMA MessageFacts ==
    ASSUME NEW m \in Message
    PROVE  m.turn \in Nat /\ m.n \in Nat /\ Place(m) \in Nat
BY DEF Message, Place

LEMMA KeptFacts ==
    ASSUME NEW h, NEW k
    PROVE  k \in Kept(h) <=> /\ k \in 1..Len(h) /\ h[k].role # "user" /\ h[k].content # "empty"
                             /\ h[k].turn \notin Truncated(h)
BY DEF Kept

\* Before is the order of the history, wherever it holds between two messages.
LEMMA BeforeIsOrder ==
    ASSUME TypeOK, KeysInv, NEW k \in Kept(history), NEW l \in Kept(history)
    PROVE  Before(history[k], history[l]) <=> k < l
<1>1. /\ k \in 1..Len(history) /\ l \in 1..Len(history) /\ Len(history) \in Nat
      /\ history[k].role # "user" /\ history[l].role # "user"
  BY KeptFacts, Types
<1>2. history[k] \in Message /\ history[l] \in Message
  BY <1>1, Types, SeqFacts
<1> DEFINE a == history[k].turn
           b == history[l].turn
           c == Place(history[k])
           d == Place(history[l])
<1>3. a \in Nat /\ b \in Nat /\ c \in Nat /\ d \in Nat
  BY <1>2, MessageFacts
<1>4. /\ Before(history[k], history[l]) <=> (a < b \/ (a = b /\ c < d))
      /\ Before(history[l], history[k]) <=> (b < a \/ (b = a /\ d < c))
  BY DEF Before
<1>5. /\ k < l => Before(history[k], history[l])
      /\ l < k => Before(history[l], history[k])
      /\ k = l => a = b /\ c = d
  BY <1>1 DEF KeysInv
<1> HIDE DEF a, b, c, d
<1> QED  BY <1>1, <1>3, <1>4, <1>5

LEMMA ArchiveFollows ==
    ASSUME TypeOK, KeysInv, ArchiveInv
    PROVE  ArchiveMatchesHistory
<1> DEFINE kept == Kept(history)
<1>1. \A k \in kept : /\ k \in 1..Len(history) /\ history[k] \in Message
                      /\ history[k].turn \in Nat /\ Place(history[k]) \in Nat
  <2> TAKE k \in kept
  <2>1. k \in 1..Len(history)  BY KeptFacts
  <2>2. history[k] \in Message  BY <2>1, Types, SeqFacts
  <2> QED  BY <2>1, <2>2, MessageFacts
<1>2. turn \in Nat /\ count \in Nat /\ Len(t2) \in Nat
  BY Types, SeqFacts
<1>3. \E c \in Nat : Rows = KeptMessages(history) \/ Rows = Logged(c)
  <2>1. count + 1 \in Nat  BY <1>2
  <2> QED  BY <1>2, <2>1 DEF ArchiveInv
<1>4. PICK c \in Nat : Rows = KeptMessages(history) \/ Rows = Logged(c)
  BY <1>3
<1>5. Rows \subseteq {history[k] : k \in kept}
  BY <1>4 DEF Logged, KeptMessages
<1>6. ASSUME NEW i \in 1..Len(t2), NEW k \in kept, t2[i] = history[k],
             NEW j \in (i + 1)..Len(t2), NEW l \in kept, t2[j] = history[l]
      PROVE  k < l
  <2>1. j \in 1..Len(t2) /\ i < j  BY <1>2
  <2>2. Before(history[k], history[l])  BY <1>6, <2>1 DEF ArchiveInv
  <2> QED  BY <2>2, BeforeIsOrder
<1>7. ASSUME NEW k \in kept, NEW l \in kept, k < l, history[l] \in Rows
      PROVE  history[k] \in Rows
  <2>1. history[k] \in KeptMessages(history)  BY DEF KeptMessages
  <2>2. CASE Rows = KeptMessages(history)  BY <2>1, <2>2
  <2>3. CASE Rows = Logged(c)
    <3>1. history[l].turn < turn \/ Place(history[l]) < c  BY <1>7, <2>3 DEF Logged
    <3>2. Before(history[k], history[l])  BY <1>7, BeforeIsOrder
    <3>3. history[k].turn < history[l].turn \/ (history[k].turn = history[l].turn /\ Place(history[k]) < Place(history[l]))
      BY <3>2 DEF Before
    <3>4. history[l].turn <= turn  BY <1>1 DEF KeysInv
    <3>5. history[k].turn < turn \/ Place(history[k]) < c
      <4> DEFINE a == history[k].turn
                 b == history[l].turn
                 x == Place(history[k])
                 y == Place(history[l])
      <4>1. /\ a \in Nat /\ b \in Nat /\ x \in Nat /\ y \in Nat /\ b <= turn
            /\ b < turn \/ y < c
            /\ a < b \/ (a = b /\ x < y)
        BY <1>1, <3>1, <3>3, <3>4
      <4> HIDE DEF a, b, x, y
      <4>2. a < turn \/ x < c  BY <1>2, <4>1
      <4> QED  BY <4>2 DEF a, x
    <3> QED  BY <2>1, <2>3, <3>5 DEF Logged
  <2> QED  BY <1>4, <2>2, <2>3
<1>8. ASSUME pc \in {"request", "drain"} \cup (Returned \ {"failed"}), NEW k \in kept
      PROVE  history[k] \in Rows
  <2>1. pc \notin {"tools", "hooks", "failed"}  BY <1>8 DEF Returned
  <2>2. Rows = KeptMessages(history)  BY <2>1 DEF ArchiveInv
  <2> QED  BY <2>2 DEF KeptMessages
<1> HIDE DEF kept
<1>9. /\ Rows \subseteq {history[k] : k \in kept}
      /\ \A i \in 1..Len(t2) : \A k \in kept : t2[i] = history[k] =>
            \A j \in (i + 1)..Len(t2) : \A l \in kept : t2[j] = history[l] => k < l
      /\ \A k, l \in kept : k < l /\ history[l] \in Rows => history[k] \in Rows
      /\ pc \in {"request", "drain"} \cup (Returned \ {"failed"}) => \A k \in kept : history[k] \in Rows
  BY <1>5, <1>6, <1>7, <1>8
<1> QED  BY <1>9 DEF ArchiveMatchesHistory, Rows, kept

LEMMA InjectionFollows ==
    ASSUME TypeOK, KeysInv, InjectionInv
    PROVE  InjectionOrder
<1>1. ASSUME NEW q \in Seq(Message), NEW content, QueueInv(history, q, content, sent)
      PROVE  Increasing(history \o q, content)
  <2> DEFINE g == history \o q
             L == Len(history)
  <2>1. /\ Len(g) = L + Len(q) /\ L \in Nat /\ Len(q) \in Nat
        /\ \A i \in 1..L : g[i] = history[i]
        /\ \A i \in 1..Len(q) : g[L + i] = q[i]
    BY Types, ConcatFacts
  <2> HIDE DEF g, L
  <2>2. \A i \in 1..Len(g) : i > L => i - L \in 1..Len(q) /\ g[i] = q[i - L]
    <3> SUFFICES ASSUME NEW i \in 1..Len(g), i > L PROVE i - L \in 1..Len(q) /\ g[i] = q[i - L]
      OBVIOUS
    <3>1. i - L \in 1..Len(q) /\ L + (i - L) = i  BY <2>1
    <3>2. g[L + (i - L)] = q[i - L]  BY <2>1, <3>1
    <3> QED  BY <3>1, <3>2
  <2> SUFFICES ASSUME NEW i \in 1..Len(g), NEW j \in 1..Len(g), i < j,
                      Injected(g[i], content), Injected(g[j], content)
               PROVE  g[i].n < g[j].n
    BY DEF Increasing, g
  <2>3. CASE j <= L
    <3>1. i \in 1..L /\ j \in 1..L  BY <2>1, <2>3
    <3>2. g[i] = history[i] /\ g[j] = history[j]  BY <2>1, <3>1
    <3> QED  BY <1>1, <3>1, <3>2 DEF QueueInv, Increasing, L
  <2>4. CASE i <= L /\ j > L
    <3>1. i \in 1..L /\ g[i] = history[i]  BY <2>1, <2>4
    <3>2. j - L \in 1..Len(q) /\ g[j] = q[j - L]  BY <2>2, <2>4
    <3> QED  BY <1>1, <3>1, <3>2 DEF QueueInv, L
  <2>5. CASE i > L
    <3>1. i - L \in 1..Len(q) /\ g[i] = q[i - L]  BY <2>2, <2>5
    <3>2. j - L \in 1..Len(q) /\ g[j] = q[j - L] /\ i - L < j - L  BY <2>1, <2>2, <2>5
    <3> QED  BY <1>1, <3>1, <3>2 DEF QueueInv
  <2> QED  BY <2>1, <2>3, <2>4, <2>5
<1>2. Increasing(history \o steering, "text") /\ Increasing(history \o followUp, "nudge")
  BY <1>1, Types DEF InjectionInv
<1> QED  BY <1>2 DEF InjectionOrder, InjectionInv, NudgesPlaced, KeysInv

-----------------------------------------------------------------------------
(* How the keys, the kept messages and the queues change when the history  *)
(* grows.                                                                   *)

GrowsTo(h, g) ==
    /\ h \in Seq(Message) /\ g \in Seq(Message)
    /\ Len(h) \in Nat /\ Len(g) \in Nat /\ Len(h) <= Len(g)
    /\ \A k \in 1..Len(h) : g[k] = h[k]

\* Every message is an old one or one of the new.
LEMMA OldOrNew ==
    ASSUME NEW h, NEW g, GrowsTo(h, g), NEW k \in 1..Len(g)
    PROVE  \/ k \in 1..Len(h) /\ g[k] = h[k]
           \/ k \in (Len(h) + 1)..Len(g)
BY DEF GrowsTo

LEMMA AppendGrows ==
    ASSUME NEW h \in Seq(Message), NEW m \in Message
    PROVE  /\ GrowsTo(h, Append(h, m)) /\ Len(Append(h, m)) = Len(h) + 1
           /\ \A k \in (Len(h) + 1)..Len(Append(h, m)) : k = Len(h) + 1 /\ Append(h, m)[k] = m
<1>1. /\ Append(h, m) \in Seq(Message) /\ Len(Append(h, m)) = Len(h) + 1 /\ Len(h) \in Nat
      /\ \A i \in 1..Len(h) : Append(h, m)[i] = h[i]
      /\ Append(h, m)[Len(h) + 1] = m
  BY AppendFacts
<1>2. GrowsTo(h, Append(h, m))
  BY <1>1 DEF GrowsTo
<1>3. ASSUME NEW k \in (Len(h) + 1)..Len(Append(h, m)) PROVE k = Len(h) + 1 /\ Append(h, m)[k] = m
  <2>1. k = Len(h) + 1  BY <1>1
  <2> QED  BY <1>1, <2>1
<1> QED  BY <1>1, <1>2, <1>3

LEMMA ConcatGrows ==
    ASSUME NEW h \in Seq(Message), NEW q \in Seq(Message)
    PROVE  /\ GrowsTo(h, h \o q) /\ Len(h \o q) = Len(h) + Len(q)
           /\ \A k \in (Len(h) + 1)..Len(h \o q) : k - Len(h) \in 1..Len(q) /\ (h \o q)[k] = q[k - Len(h)]
<1> DEFINE g == h \o q
<1>1. /\ g \in Seq(Message) /\ Len(g) = Len(h) + Len(q)
      /\ Len(h) \in Nat /\ Len(q) \in Nat
      /\ \A i \in 1..Len(h) : g[i] = h[i]
      /\ \A i \in 1..Len(q) : g[Len(h) + i] = q[i]
  BY ConcatFacts
<1> HIDE DEF g
<1>2. GrowsTo(h, g)
  BY <1>1 DEF GrowsTo
<1>3. ASSUME NEW k \in (Len(h) + 1)..Len(g) PROVE k - Len(h) \in 1..Len(q) /\ g[k] = q[k - Len(h)]
  <2>1. k - Len(h) \in 1..Len(q) /\ Len(h) + (k - Len(h)) = k  BY <1>1
  <2>2. g[Len(h) + (k - Len(h))] = q[k - Len(h)]  BY <1>1, <2>1
  <2> QED  BY <2>1, <2>2
<1>4. GrowsTo(h, g) /\ Len(g) = Len(h) + Len(q)
      /\ \A k \in (Len(h) + 1)..Len(g) : k - Len(h) \in 1..Len(q) /\ g[k] = q[k - Len(h)]
  BY <1>1, <1>2, <1>3
<1> QED  BY <1>4 DEF g

LEMMA GrowsTwice ==
    ASSUME NEW h, NEW f, NEW g, GrowsTo(h, f), GrowsTo(f, g)
    PROVE  GrowsTo(h, g)
BY DEF GrowsTo

\* The keys, when a run of messages of turn t is appended, their places
\* counting up.
LEMMA KeysBlock ==
    ASSUME KeysInv, GrowsTo(history, history'), turn \in Nat, turn' \in Nat, turn <= turn', turn' > 0,
           NEW o \in Nat,
           \A k \in (Len(history) + 1)..Len(history') :
              /\ history'[k].turn = turn' /\ history'[k].role # "user"
              /\ Place(history'[k]) = k - o,
           \A k \in 1..Len(history) : history[k].role # "user" =>
              history[k].turn < turn' \/ (history[k].turn = turn' /\ Place(history[k]) < Len(history) + 1 - o)
    PROVE  KeysInv'
<1> DEFINE L == Len(history)
           M == Len(history')
<1>1. L \in Nat /\ M \in Nat /\ L <= M /\ \A k \in 1..L : history'[k] = history[k]
  BY DEF GrowsTo
<1>2. ASSUME NEW k \in 1..M
      PROVE  /\ history'[k] \in Message /\ history'[k].turn \in Nat /\ Place(history'[k]) \in Nat
             /\ history'[k].turn <= turn' /\ (history'[k].role = "user" <=> history'[k].turn = 0)
  <2>1. history'[k] \in Message  BY SeqFacts DEF GrowsTo
  <2>2. history'[k].turn \in Nat /\ Place(history'[k]) \in Nat  BY <2>1, MessageFacts
  <2>3. CASE k \in 1..L
    <3>1. history'[k] = history[k] /\ history[k].turn <= turn
          /\ (history[k].role = "user" <=> history[k].turn = 0)
      BY <1>1, <2>3 DEF KeysInv
    <3> QED  BY <2>1, <2>2, <3>1
  <2>4. CASE k \in (L + 1)..M
    BY <2>1, <2>2, <2>4
  <2> QED  BY <1>1, <2>3, <2>4
<1>3. ASSUME NEW k \in 1..M, NEW l \in 1..M, k < l, history'[k].role # "user", history'[l].role # "user"
      PROVE  Before(history'[k], history'[l])
  <2>1. CASE l \in 1..L
    <3>1. k \in 1..L /\ history'[k] = history[k] /\ history'[l] = history[l]
      BY <1>1, <1>3, <2>1
    <3> QED  BY <1>3, <2>1, <3>1 DEF KeysInv
  <2>2. CASE l \in (L + 1)..M
    <3>1. history'[l].turn = turn' /\ Place(history'[l]) = l - o  BY <2>2
    <3>2. CASE k \in 1..L
      <4>1. history'[k] = history[k]  BY <1>1, <3>2
      <4>2. history[k].turn < turn' \/ (history[k].turn = turn' /\ Place(history[k]) < L + 1 - o)
        BY <1>3, <3>2, <4>1
      <4>3. Place(history'[k]) < L + 1 - o => Place(history'[k]) < l - o
        <5>1. Place(history'[k]) \in Nat  BY <1>2
        <5> QED  BY <5>1, <1>1, <2>2
      <4>4. CASE history[k].turn < turn'
        BY <3>1, <4>1, <4>4 DEF Before
      <4>5. CASE history[k].turn = turn' /\ Place(history[k]) < L + 1 - o
        <5>1. Place(history'[k]) < L + 1 - o  BY <4>1, <4>5
        <5>2. Place(history'[k]) < l - o  BY <4>3, <5>1
        <5> QED  BY <3>1, <4>1, <4>5, <5>2 DEF Before
      <4> QED  BY <4>2, <4>4, <4>5
    <3>3. CASE k \in (L + 1)..M
      <4>1. history'[k].turn = turn' /\ Place(history'[k]) = k - o  BY <3>3
      <4>2. k - o < l - o  BY <1>1, <1>3
      <4> QED  BY <3>1, <4>1, <4>2 DEF Before
    <3> QED  BY <1>1, <3>2, <3>3
  <2> QED  BY <1>1, <2>1, <2>2
<1> QED  BY <1>2, <1>3 DEF KeysInv

\* The keys, when nothing or only messages of the user are appended.
LEMMA KeysUsers ==
    ASSUME KeysInv, GrowsTo(history, history'), turn \in Nat, turn' \in Nat, turn <= turn',
           \A k \in (Len(history) + 1)..Len(history') : history'[k].turn = 0 /\ history'[k].role = "user"
    PROVE  KeysInv'
<1> DEFINE L == Len(history)
           M == Len(history')
<1>1. L \in Nat /\ M \in Nat /\ L <= M /\ \A k \in 1..L : history'[k] = history[k]
  BY DEF GrowsTo
<1>2. ASSUME NEW k \in 1..M
      PROVE  history'[k].turn <= turn' /\ (history'[k].role = "user" <=> history'[k].turn = 0)
  <2>1. CASE k \in 1..L
    <3>1. history[k] \in Message  BY <2>1, SeqFacts DEF GrowsTo
    <3>2. history[k].turn \in Nat  BY <3>1, MessageFacts
    <3>3. history'[k] = history[k] /\ history[k].turn <= turn
          /\ (history[k].role = "user" <=> history[k].turn = 0)
      BY <1>1, <2>1 DEF KeysInv
    <3> QED  BY <3>2, <3>3
  <2>2. CASE k \in (L + 1)..M
    BY <2>2
  <2> QED  BY <1>1, <2>1, <2>2
<1>3. ASSUME NEW k \in 1..M, NEW l \in 1..M, k < l, history'[k].role # "user", history'[l].role # "user"
      PROVE  Before(history'[k], history'[l])
  <2>1. k \in 1..L /\ l \in 1..L  BY <1>1, <1>3
  <2>2. history'[k] = history[k] /\ history'[l] = history[l]  BY <1>1, <2>1
  <2> QED  BY <1>3, <2>1, <2>2 DEF KeysInv
<1> QED  BY <1>2, <1>3 DEF KeysInv

LEMMA TruncatedFacts ==
    ASSUME NEW h, NEW t
    PROVE  t \in Truncated(h) <=> \E k \in 1..Len(h) : h[k].content = "truncated" /\ h[k].turn = t
BY DEF Truncated

LEMMA KeptMessageFacts ==
    ASSUME NEW h, NEW m
    PROVE  m \in KeptMessages(h) <=>
              /\ \E k \in 1..Len(h) : h[k] = m
              /\ m.role # "user" /\ m.content # "empty" /\ m.turn \notin Truncated(h)
BY DEF KeptMessages, Kept

\* New messages of turn t do not change what is kept of the other turns.
LEMMA KeptOlder ==
    ASSUME NEW h, NEW g, GrowsTo(h, g), NEW t \in Nat,
           \A k \in (Len(h) + 1)..Len(g) : g[k].turn = t,
           NEW m, m.turn # t
    PROVE  m \in KeptMessages(g) <=> m \in KeptMessages(h)
<1>1. \A k \in 1..Len(h) : k \in 1..Len(g) /\ g[k] = h[k]
  BY DEF GrowsTo
<1>2. m.turn \in Truncated(g) <=> m.turn \in Truncated(h)
  <2>1. ASSUME NEW k \in 1..Len(g), g[k].content = "truncated", g[k].turn = m.turn
        PROVE  m.turn \in Truncated(h)
    <3>1. k \in 1..Len(h) /\ g[k] = h[k]  BY <2>1, OldOrNew
    <3> QED  BY <2>1, <3>1, TruncatedFacts
  <2> QED  BY <1>1, <2>1, TruncatedFacts
<1>3. (\E k \in 1..Len(g) : g[k] = m) <=> (\E k \in 1..Len(h) : h[k] = m)
  <2>1. ASSUME NEW k \in 1..Len(g), g[k] = m PROVE \E l \in 1..Len(h) : h[l] = m
    BY <2>1, OldOrNew
  <2> QED  BY <1>1, <2>1
<1> QED  BY <1>2, <1>3, KeptMessageFacts

\* Messages of the user are not kept, and keep nothing out.
LEMMA KeptUsers ==
    ASSUME NEW h, NEW g, GrowsTo(h, g),
           \A k \in (Len(h) + 1)..Len(g) : g[k].role = "user" /\ g[k].content # "truncated"
    PROVE  KeptMessages(g) = KeptMessages(h)
<1>1. \A k \in 1..Len(h) : k \in 1..Len(g) /\ g[k] = h[k]
  BY DEF GrowsTo
<1>2. ASSUME NEW t PROVE t \in Truncated(g) <=> t \in Truncated(h)
  <2>1. ASSUME NEW k \in 1..Len(g), g[k].content = "truncated", g[k].turn = t
        PROVE  t \in Truncated(h)
    <3>1. k \in 1..Len(h) /\ g[k] = h[k]  BY <2>1, OldOrNew
    <3> QED  BY <2>1, <3>1, TruncatedFacts
  <2> QED  BY <1>1, <2>1, TruncatedFacts
<1>3. ASSUME NEW m, m.role # "user"
      PROVE  (\E k \in 1..Len(g) : g[k] = m) <=> (\E k \in 1..Len(h) : h[k] = m)
  <2>1. ASSUME NEW k \in 1..Len(g), g[k] = m PROVE \E l \in 1..Len(h) : h[l] = m
    BY <1>3, <2>1, OldOrNew
  <2> QED  BY <1>1, <2>1
<1>4. \A m : m \in KeptMessages(g) <=> m \in KeptMessages(h)
  BY <1>2, <1>3, KeptMessageFacts
<1> QED  BY <1>4

\* A queue does not notice messages that are not its own.
LEMMA QueueGrows ==
    ASSUME NEW h, NEW g, GrowsTo(h, g), NEW q, NEW content, NEW top, QueueInv(h, q, content, top),
           \A k \in (Len(h) + 1)..Len(g) : ~Injected(g[k], content)
    PROVE  QueueInv(g, q, content, top)
<1>1. ASSUME NEW k \in 1..Len(g), Injected(g[k], content) PROVE k \in 1..Len(h) /\ g[k] = h[k]
  BY <1>1, OldOrNew
<1>2. Increasing(g, content)
  <2> SUFFICES ASSUME NEW i \in 1..Len(g), NEW j \in 1..Len(g), i < j,
                      Injected(g[i], content), Injected(g[j], content)
               PROVE  g[i].n < g[j].n
    BY DEF Increasing
  <2>1. i \in 1..Len(h) /\ g[i] = h[i] /\ j \in 1..Len(h) /\ g[j] = h[j]  BY <1>1
  <2> QED  BY <2>1 DEF QueueInv, Increasing
<1>3. \A k \in 1..Len(g) : Injected(g[k], content) =>
         g[k].n <= top /\ \A j \in 1..Len(q) : g[k].n < q[j].n
  BY <1>1 DEF QueueInv
<1> QED  BY <1>2, <1>3 DEF QueueInv

LEMMA TailFacts ==
    ASSUME NEW q \in Seq(Message), q # <<>>
    PROVE  /\ Tail(q) \in Seq(Message) /\ Head(q) \in Message /\ Head(q) = q[1] /\ 1 \in 1..Len(q)
           /\ Len(q) \in Nat /\ Len(Tail(q)) = Len(q) - 1
           /\ \A i \in 1..Len(Tail(q)) : i + 1 \in 1..Len(q) /\ Tail(q)[i] = q[i + 1]
OBVIOUS

\* What leaves the queue is dropped, or becomes the last message.
LEMMA QueueDrop ==
    ASSUME NEW h, NEW q \in Seq(Message), q # <<>>, NEW content, NEW top, QueueInv(h, q, content, top)
    PROVE  QueueInv(h, Tail(q), content, top)
<1> DEFINE p == Tail(q)
<1>1. \A i \in 1..Len(p) : i + 1 \in 1..Len(q) /\ p[i] = q[i + 1]
  BY TailFacts
<1>2. Len(p) \in Nat
  BY TailFacts, SeqFacts
<1> HIDE DEF p
<1>3. \A i, j \in 1..Len(p) : i < j => p[i].n < p[j].n
  <2> SUFFICES ASSUME NEW i \in 1..Len(p), NEW j \in 1..Len(p), i < j PROVE p[i].n < p[j].n
    OBVIOUS
  <2>1. i + 1 < j + 1  BY <1>2
  <2> QED  BY <1>1, <2>1 DEF QueueInv
<1>4. QueueInv(h, p, content, top)
  BY <1>1, <1>3 DEF QueueInv
<1> QED  BY <1>4 DEF p

LEMMA QueueTake ==
    ASSUME NEW h \in Seq(Message), NEW q \in Seq(Message), q # <<>>, NEW content, NEW top,
           QueueInv(h, q, content, top)
    PROVE  QueueInv(Append(h, Head(q)), Tail(q), content, top)
<1> DEFINE g == Append(h, Head(q))
           p == Tail(q)
<1>1. /\ Head(q) \in Message /\ Head(q) = q[1] /\ 1 \in 1..Len(q)
      /\ \A i \in 1..Len(p) : i + 1 \in 1..Len(q) /\ p[i] = q[i + 1] /\ i \in Nat /\ 1 < i + 1
  <2>1. /\ p \in Seq(Message) /\ Head(q) \in Message /\ Head(q) = q[1] /\ 1 \in 1..Len(q)
        /\ \A i \in 1..Len(p) : i + 1 \in 1..Len(q) /\ p[i] = q[i + 1]
    BY TailFacts
  <2>2. Len(p) \in Nat  BY <2>1, SeqFacts
  <2> HIDE DEF p
  <2> QED  BY <2>1, <2>2
<1>2. QueueInv(h, p, content, top)
  BY QueueDrop
<1>3. /\ Len(g) = Len(h) + 1 /\ Len(h) \in Nat
      /\ \A i \in 1..Len(h) : g[i] = h[i]
      /\ g[Len(h) + 1] = Head(q)
  BY <1>1, AppendFacts
<1> HIDE DEF g, p
<1>4. ASSUME NEW k \in 1..Len(g)
      PROVE  (k \in 1..Len(h) /\ g[k] = h[k]) \/ (k = Len(h) + 1 /\ g[k] = q[1])
  BY <1>1, <1>3
<1>5. \A k \in 1..Len(g) : Injected(g[k], content) =>
         g[k].n <= top /\ \A j \in 1..Len(p) : g[k].n < p[j].n
  <2> SUFFICES ASSUME NEW k \in 1..Len(g), Injected(g[k], content)
               PROVE  g[k].n <= top /\ \A j \in 1..Len(p) : g[k].n < p[j].n
    OBVIOUS
  <2>1. CASE k \in 1..Len(h) /\ g[k] = h[k]
    BY <1>2, <2>1 DEF QueueInv
  <2>2. CASE g[k] = q[1]
    BY <1>1, <2>2 DEF QueueInv
  <2> QED  BY <1>4, <2>1, <2>2
<1>6. Increasing(g, content)
  <2> SUFFICES ASSUME NEW i \in 1..Len(g), NEW j \in 1..Len(g), i < j,
                      Injected(g[i], content), Injected(g[j], content)
               PROVE  g[i].n < g[j].n
    BY DEF Increasing
  <2>1. i \in 1..Len(h) /\ g[i] = h[i]  BY <1>3
  <2>2. CASE j \in 1..Len(h) /\ g[j] = h[j]
    BY <2>1, <2>2 DEF QueueInv, Increasing
  <2>3. CASE g[j] = q[1]
    BY <1>1, <2>1, <2>3 DEF QueueInv
  <2> QED  BY <1>4, <2>2, <2>3
<1>7. QueueInv(g, p, content, top)
  BY <1>2, <1>5, <1>6 DEF QueueInv
<1> QED  BY <1>7 DEF g, p

\* A message that is sent has the next number.
LEMMA QueueSend ==
    ASSUME NEW h \in Seq(Message), NEW q \in Seq(Message), NEW content, NEW top \in Nat,
           QueueInv(h, q, content, top)
    PROVE  /\ QueueInv(h, q, content, top + 1)
           /\ \A m \in Message : Injected(m, content) /\ m.n = top + 1 =>
                 QueueInv(h, Append(q, m), content, top + 1)
<1>1. \A j \in 1..Len(q) : q[j].n \in Nat /\ q[j].n <= top + 1 /\ q[j].n < top + 1
  <2> TAKE j \in 1..Len(q)
  <2>1. q[j] \in Message  BY SeqFacts
  <2>2. q[j].n \in Nat  BY <2>1, MessageFacts
  <2>3. q[j].n <= top  BY DEF QueueInv
  <2> QED  BY <2>2, <2>3
<1>2. \A k \in 1..Len(h) : Injected(h[k], content) => h[k].n <= top + 1 /\ h[k].n < top + 1
  <2> SUFFICES ASSUME NEW k \in 1..Len(h), Injected(h[k], content)
               PROVE  h[k].n <= top + 1 /\ h[k].n < top + 1
    OBVIOUS
  <2>1. h[k] \in Message  BY SeqFacts
  <2>2. h[k].n \in Nat  BY <2>1, MessageFacts
  <2>3. h[k].n <= top  BY DEF QueueInv
  <2> QED  BY <2>2, <2>3
<1>3. QueueInv(h, q, content, top + 1)
  BY <1>1, <1>2 DEF QueueInv
<1>4. ASSUME NEW m \in Message, Injected(m, content), m.n = top + 1
      PROVE  QueueInv(h, Append(q, m), content, top + 1)
  <2> DEFINE p == Append(q, m)
  <2>1. /\ Len(p) = Len(q) + 1 /\ Len(q) \in Nat
        /\ \A i \in 1..Len(q) : p[i] = q[i]
        /\ p[Len(q) + 1] = m
    BY AppendFacts
  <2> HIDE DEF p
  <2>2. ASSUME NEW j \in 1..Len(p)
        PROVE  (j \in 1..Len(q) /\ p[j] = q[j]) \/ (j = Len(q) + 1 /\ p[j] = m)
    BY <2>1
  <2>3. \A j \in 1..Len(p) : Injected(p[j], content) /\ p[j].n <= top + 1
    <3> SUFFICES ASSUME NEW j \in 1..Len(p) PROVE Injected(p[j], content) /\ p[j].n <= top + 1
      OBVIOUS
    <3>1. CASE j \in 1..Len(q) /\ p[j] = q[j]
      BY <1>1, <3>1 DEF QueueInv
    <3>2. CASE p[j] = m
      BY <1>4, <3>2
    <3> QED  BY <2>2, <3>1, <3>2
  <2>4. \A i, j \in 1..Len(p) : i < j => p[i].n < p[j].n
    <3> SUFFICES ASSUME NEW i \in 1..Len(p), NEW j \in 1..Len(p), i < j PROVE p[i].n < p[j].n
      OBVIOUS
    <3>1. i \in 1..Len(q) /\ p[i] = q[i]  BY <2>1
    <3>2. CASE j \in 1..Len(q) /\ p[j] = q[j]
      BY <3>1, <3>2 DEF QueueInv
    <3>3. CASE p[j] = m
      BY <1>1, <1>4, <3>1, <3>3
    <3> QED  BY <2>2, <3>2, <3>3
  <2>5. \A k \in 1..Len(h) : Injected(h[k], content) => \A j \in 1..Len(p) : h[k].n < p[j].n
    <3> SUFFICES ASSUME NEW k \in 1..Len(h), Injected(h[k], content), NEW j \in 1..Len(p)
                 PROVE  h[k].n < p[j].n
      OBVIOUS
    <3>1. CASE j \in 1..Len(q) /\ p[j] = q[j]
      BY <3>1 DEF QueueInv
    <3>2. CASE p[j] = m
      BY <1>2, <1>4, <3>2
    <3> QED  BY <2>2, <3>1, <3>2
  <2>6. QueueInv(h, p, content, top + 1)
    BY <1>2, <2>3, <2>4, <2>5 DEF QueueInv
  <2> QED  BY <2>6 DEF p
<1> QED  BY <1>3, <1>4

\* Follow-up messages stay behind a result.
LEMMA NudgesGrow ==
    ASSUME NEW h, NEW g, GrowsTo(h, g), NudgesPlaced(h),
           \A k \in (Len(h) + 1)..Len(g) : ~Injected(g[k], "nudge")
    PROVE  NudgesPlaced(g)
<1> SUFFICES ASSUME NEW k \in 1..Len(g), Injected(g[k], "nudge")
             PROVE  k > 1 /\ g[k - 1].role = "tool"
  BY DEF NudgesPlaced
<1>1. k \in 1..Len(h) /\ g[k] = h[k]
  BY OldOrNew
<1>2. k > 1 /\ h[k - 1].role = "tool"
  BY <1>1 DEF NudgesPlaced
<1>3. k - 1 \in 1..Len(h)
  BY <1>1, <1>2 DEF GrowsTo
<1> QED  BY <1>2, <1>3 DEF GrowsTo

-----------------------------------------------------------------------------
(* The steps of the loop, for the archive and the injected messages.        *)

LEMMA EntryFacts ==
    ASSUME TypeOK, SlotInv, pc \in {"tools", "hooks"}, NEW i \in 0..Collected
    PROVE  /\ Entry(i) \in Message /\ Entry(i).turn = turn /\ Place(Entry(i)) = i
           /\ Entry(i).role # "user"
           /\ i = 0 => Entry(i).content = text
           /\ i # 0 => i \in Calls /\ Entry(i).role = "tool" /\ Entry(i).content = slot[i].content
<1>1. /\ turn \in Nat /\ Len(batch) \in Nat /\ text \in Content
      /\ slot \in Seq(Result) /\ Len(slot) = Len(batch)
  BY Types DEF SlotInv, Content
<1>2. Collected \in 0..Len(batch)
  BY CollectedFacts
<1>3. CASE i = 0
  <2>1. Entry(i) = Msg("assistant", turn, Len(batch), text)  BY <1>3 DEF Entry
  <2>2. /\ Entry(i) \in Message /\ Entry(i).turn = turn /\ Entry(i).role = "assistant"
        /\ Entry(i).content = text
    BY <1>1, <2>1, MsgFacts
  <2> QED  BY <1>3, <2>2 DEF Place
<1>4. CASE i # 0
  <2>1. i \in 1..Len(batch) /\ i \in Nat  BY <1>1, <1>2, <1>4
  <2>2. slot[i].content \in Content
    <3>1. slot[i] \in Result  BY <1>1, <2>1, SeqFacts
    <3> QED  BY <3>1 DEF Result
  <2>3. Entry(i) = Msg("tool", turn, i, slot[i].content)  BY <1>4 DEF Entry
  <2>4. /\ Entry(i) \in Message /\ Entry(i).turn = turn /\ Entry(i).role = "tool"
        /\ Entry(i).n = i /\ Entry(i).content = slot[i].content
    BY <1>1, <2>1, <2>2, <2>3, MsgFacts
  <2> QED  BY <1>4, <2>1, <2>4 DEF Place, Calls
<1> QED  BY <1>3, <1>4

\* All of a list's messages are messages.
LEMMA InHistory ==
    ASSUME TypeOK, KeysInv, NEW m \in KeptMessages(history)
    PROVE  m \in Message /\ m.turn \in Nat /\ Place(m) \in Nat /\ m.turn <= turn
<1>1. PICK k \in 1..Len(history) : history[k] = m
  BY KeptMessageFacts
<1>2. m \in Message  BY <1>1, Types, SeqFacts
<1> QED  BY <1>1, <1>2, MessageFacts DEF KeysInv

\* While entries are written, the kept messages of the turn are the entries
\* that are not empty.
LEMMA KeptEntries ==
    ASSUME TypeOK, SlotInv, KeysInv, TurnInv, pc = "hooks"
    PROVE  /\ \A m \in KeptMessages(history) : m.turn = turn =>
                 \E i \in 0..Collected : m = Entry(i) /\ Place(m) = i
           /\ \A i \in 0..Collected : Entry(i).content # "empty" => Entry(i) \in KeptMessages(history)
<1>1. /\ \A i \in Calls : slot[i].content # "truncated"
      /\ \A k \in 1..Len(history) :
            history[k].turn = turn => \E i \in 0..Collected : history[k] = Entry(i)
      /\ \A i \in 0..Collected : \E k \in 1..Len(history) : history[k] = Entry(i)
  BY DEF TurnInv, Shown
<1>2. \A i \in 0..Collected : Place(Entry(i)) = i /\ Entry(i).content # "truncated"
                               /\ Entry(i).turn = turn /\ Entry(i).role # "user"
  <2> TAKE i \in 0..Collected
  <2>1. text # "truncated"  BY Types
  <2> QED  BY <1>1, <2>1, EntryFacts
<1>3. turn \notin Truncated(history)
  BY <1>1, <1>2, TruncatedFacts
<1>4. ASSUME NEW m \in KeptMessages(history), m.turn = turn
      PROVE  \E i \in 0..Collected : m = Entry(i) /\ Place(m) = i
  <2>1. PICK k \in 1..Len(history) : history[k] = m  BY KeptMessageFacts
  <2> QED  BY <1>1, <1>2, <1>4, <2>1
<1>5. ASSUME NEW i \in 0..Collected, Entry(i).content # "empty" PROVE Entry(i) \in KeptMessages(history)
  BY <1>1, <1>2, <1>3, <1>5, KeptMessageFacts
<1> QED  BY <1>4, <1>5

\* The number of results is settled by the batch and the slots.
LEMMA CollectedSame ==
    ASSUME batch' = batch, slot' = slot
    PROVE  Collected' = Collected
BY DEF Collected, Serial, Calls

LEMMA EntrySame ==
    ASSUME batch' = batch, slot' = slot, turn' = turn, text' = text, NEW i
    PROVE  Entry(i)' = Entry(i)
BY DEF Entry

LEMMA DeepSend ==
    ASSUME Inv, Deep, Send PROVE Deep'
<1>1. TypeOK /\ KeysInv /\ TurnInv /\ ArchiveInv /\ InjectionInv
  BY DEF Inv, Deep
<1>2. /\ pc' = pc /\ turn' = turn /\ batch' = batch /\ text' = text /\ cost' = cost /\ billed' = billed
      /\ history' = history /\ slot' = slot /\ count' = count /\ t2' = t2
      /\ sent' = sent + 1
  BY DEF Send, model
<1>3. Collected' = Collected /\ \A i : Entry(i)' = Entry(i)
  BY <1>2, CollectedSame, EntrySame
<1>4. KeysInv'
  BY <1>1, <1>2 DEF KeysInv
<1>5. TurnInv'
  BY <1>1, <1>2, <1>3 DEF TurnInv, Shown, Calls
<1>6. ArchiveInv'
  BY <1>1, <1>2 DEF ArchiveInv, Rows, Logged
<1>7. QueueInv(history, steering', "text", sent + 1) /\ QueueInv(history, followUp', "nudge", sent + 1)
  <2>1. /\ history \in Seq(Message) /\ steering \in Seq(Message) /\ followUp \in Seq(Message)
        /\ sent \in Nat /\ sent + 1 \in Nat /\ sent + 1 > 0
    BY <1>1, Types
  <2>2. PICK role \in {"user", "assistant"} :
           \/ steering' = Append(steering, Msg(role, 0, sent + 1, "text")) /\ followUp' = followUp
           \/ followUp' = Append(followUp, Msg(role, 0, sent + 1, "nudge")) /\ steering' = steering
    BY DEF Send
  <2> DEFINE a == Msg(role, 0, sent + 1, "text")
             b == Msg(role, 0, sent + 1, "nudge")
  <2>3. /\ a \in Message /\ a.turn = 0 /\ a.n = sent + 1 /\ a.content = "text"
        /\ b \in Message /\ b.turn = 0 /\ b.n = sent + 1 /\ b.content = "nudge"
    <3>1. "text" \in Content /\ "nudge" \in Content /\ 0 \in Nat
      BY DEF Content
    <3>2. role \in {"user", "assistant", "tool"}  BY <2>2
    <3> DEFINE k == sent + 1
    <3>3. k \in Nat  BY <2>1
    <3> HIDE DEF k
    <3>4. ASSUME NEW c \in Content
          PROVE  /\ Msg(role, 0, k, c) \in Message /\ Msg(role, 0, k, c).turn = 0
                 /\ Msg(role, 0, k, c).n = k /\ Msg(role, 0, k, c).content = c
      BY <3>1, <3>2, <3>3, MsgFacts
    <3>5. a = Msg(role, 0, k, "text") /\ b = Msg(role, 0, k, "nudge") /\ k = sent + 1
      BY DEF k
    <3> QED  BY <3>1, <3>4, <3>5, Zenon
  <2> HIDE DEF a, b
  <2>4. Injected(a, "text") /\ Injected(b, "nudge")
    BY <2>1, <2>3 DEF Injected
  <2>5. QueueInv(history, steering, "text", sent) /\ QueueInv(history, followUp, "nudge", sent)
    BY <1>1 DEF InjectionInv
  <2>6. /\ QueueInv(history, steering, "text", sent + 1)
        /\ QueueInv(history, Append(steering, a), "text", sent + 1)
    BY <2>1, <2>3, <2>4, <2>5, QueueSend
  <2>7. /\ QueueInv(history, followUp, "nudge", sent + 1)
        /\ QueueInv(history, Append(followUp, b), "nudge", sent + 1)
    BY <2>1, <2>3, <2>4, <2>5, QueueSend
  <2> QED  BY <2>2, <2>6, <2>7 DEF a, b
<1>8. InjectionInv'
  BY <1>1, <1>2, <1>7 DEF InjectionInv, BehindResults
<1> QED  BY <1>4, <1>5, <1>6, <1>8 DEF Deep

\* A step of one call of a running batch.
LEMMA DeepSlot ==
    ASSUME Inv, Deep, pc = "tools", TypeOK',
           UNCHANGED <<pc, model, history, count, t2, used, queues>>,
           \A i \in Calls : slot'[i].content # "truncated"
    PROVE  Deep'
<1>1. TypeOK /\ KeysInv /\ TurnInv /\ ArchiveInv /\ InjectionInv
  BY DEF Inv, Deep
<1>2. /\ pc' = pc /\ turn' = turn /\ batch' = batch /\ text' = text
      /\ history' = history /\ count' = count /\ t2' = t2
      /\ steering' = steering /\ followUp' = followUp /\ sent' = sent
  BY DEF model, queues
<1>3. KeysInv'
  BY <1>1, <1>2 DEF KeysInv
<1>4. TurnInv'
  <2>1. count = 0 /\ Shown = 0 /\ Shown' = 0  BY <1>1, <1>2 DEF TurnInv, Shown
  <2>2. Collected' \in Nat
    <3>1. Len(batch) \in Nat  BY <1>1, Types
    <3>2. CASE (Serial /\ \E i \in Calls : slot[i].ends)'
      <4>1. Collected' \in Calls'  BY <3>2 DEF Collected
      <4> QED  BY <1>2, <3>1, <4>1 DEF Calls
    <3>3. CASE ~(Serial /\ \E i \in Calls : slot[i].ends)'
      BY <1>2, <3>1, <3>3 DEF Collected
    <3> QED  BY <3>2, <3>3
  <2>3. \A i \in 0..0 : Entry(i)' = Entry(i)
    BY <1>2 DEF Entry
  <2>4. /\ turn > 0
        /\ \A k \in 1..Len(history) : history[k].turn = turn => \E i \in 0..0 : history[k] = Entry(i)
        /\ \A i \in 0..0 : \E k \in 1..Len(history) : history[k] = Entry(i)
    BY <1>1, <2>1 DEF TurnInv
  <2>5. /\ \A k \in 1..Len(history') : history'[k].turn = turn' => \E i \in 0..0 : history'[k] = Entry(i)'
        /\ \A i \in 0..0 : \E k \in 1..Len(history') : history'[k] = Entry(i)'
    BY <1>2, <2>3, <2>4
  <2>6. count' = 0 /\ count' <= Collected' + 1 /\ turn' > 0
    BY <1>2, <2>1, <2>2, <2>4
  <2>7. \A i \in Calls' : slot'[i].content # "truncated"
    BY <1>2 DEF Calls
  <2> QED  BY <2>1, <2>5, <2>6, <2>7 DEF TurnInv
<1>5. ArchiveInv'
  BY <1>1, <1>2 DEF ArchiveInv, Rows, Logged
<1>6. InjectionInv'
  BY <1>1, <1>2 DEF InjectionInv, BehindResults
<1> QED  BY <1>3, <1>4, <1>5, <1>6 DEF Deep

LEMMA DeepTools ==
    ASSUME Inv, Inv', Deep, NEW i \in Calls, Begin(i) \/ Execute(i) \/ Review(i)
    PROVE  Deep'
<1>1. TypeOK /\ TypeOK' /\ SlotInv /\ TurnInv
  BY DEF Inv, Deep
<1>2. pc = "tools" /\ UNCHANGED <<pc, model, history, count, t2, used, queues>>
  BY DEF Begin, Execute, Review
<1>3. slot \in Seq(Result) /\ Len(slot) = Len(batch) /\ i \in 1..Len(slot)
  BY <1>1, <1>2, Types DEF SlotInv, Calls
<1>4. slot[i].content # "truncated" /\ slot[i] \in Result
  BY <1>1, <1>2, <1>3, SeqFacts DEF TurnInv
<1>5. \E r : slot' = [slot EXCEPT ![i] = r] /\ r.content # "truncated" /\ r \in Result
  <2>1. CASE Begin(i)
    <3> DEFINE r == [slot[i] EXCEPT !.phase = "running"]
    <3>1. r.content = slot[i].content /\ r \in Result  BY <1>4 DEF Result
    <3>2. Done("error", FALSE).content = "error" /\ Done("error", FALSE) \in Result
      BY DEF Done, Result, Content
    <3>3. slot' = [slot EXCEPT ![i] = r] \/ slot' = [slot EXCEPT ![i] = Done("error", FALSE)]
      BY <2>1 DEF Begin
    <3> HIDE DEF r
    <3> QED  BY <1>4, <3>1, <3>2, <3>3
  <2>2. CASE Execute(i)
    <3>1. Done("error", FALSE).content = "error" /\ Done("error", FALSE) \in Result
      BY DEF Done, Result, Content
    <3>2. ASSUME NEW out \in Outputs,
                 slot' = [slot EXCEPT ![i] = [phase |-> "executed", content |-> out,
                                              ends |-> batch[i] \in Terminating]]
          PROVE  \E r : slot' = [slot EXCEPT ![i] = r] /\ r.content # "truncated" /\ r \in Result
      <4> DEFINE r == [phase |-> "executed", content |-> out, ends |-> batch[i] \in Terminating]
      <4>1. out # "truncated" /\ out \in Content /\ r.content = out  BY LoopAssumption DEF Content
      <4>2. r \in Result
        <5>1. (batch[i] \in Terminating) \in BOOLEAN  OBVIOUS
        <5> QED  BY <4>1, <5>1, ResultFacts, Zenon
      <4>3. slot' = [slot EXCEPT ![i] = r]  BY <3>2
      <4> HIDE DEF r
      <4> QED  BY <4>1, <4>2, <4>3
    <3> QED  BY <2>2, <3>1, <3>2 DEF Execute
  <2>3. CASE Review(i)
    <3>1. ASSUME NEW c \in Content, c # "truncated", slot' = [slot EXCEPT ![i] = Done(c, slot[i].ends)]
          PROVE  \E r : slot' = [slot EXCEPT ![i] = r] /\ r.content # "truncated" /\ r \in Result
      <4>1. Done(c, slot[i].ends) \in Result /\ Done(c, slot[i].ends).content = c
        BY <1>4 DEF Done, Result
      <4> QED  BY <3>1, <4>1
    <3>2. slot[i].content \in Content
      BY <1>4 DEF Result
    <3>3. /\ Reviewed(batch[i], slot[i].content) \in Content
          /\ Reviewed(batch[i], slot[i].content) # "truncated"
      BY <1>4, <3>2 DEF Reviewed, Content
    <3>4. \/ slot' = [slot EXCEPT ![i] = Done(Reviewed(batch[i], slot[i].content), slot[i].ends)]
          \/ slot' = [slot EXCEPT ![i] = Done(slot[i].content, slot[i].ends)]
      BY <2>3 DEF Review
    <3> QED  BY <1>4, <3>1, <3>2, <3>3, <3>4
  <2> QED  BY <2>1, <2>2, <2>3
<1>6. \A k \in Calls : slot'[k].content # "truncated"
  <2>1. PICK r : slot' = [slot EXCEPT ![i] = r] /\ r.content # "truncated" /\ r \in Result
    BY <1>5
  <2>2. \A k \in 1..Len(slot) : slot'[k] = IF k = i THEN r ELSE slot[k]
    BY <1>3, <2>1, ExceptFacts
  <2>3. \A k \in 1..Len(slot) : slot[k].content # "truncated"
    BY <1>1, <1>2, <1>3 DEF TurnInv, Calls
  <2> QED  BY <1>3, <2>1, <2>2, <2>3 DEF Calls
<1> QED  BY <1>1, <1>2, <1>6, DeepSlot

LEMMA DeepCollect ==
    ASSUME Inv, Deep, Collect PROVE Deep'
<1> DEFINE L == Len(history)
           M == Len(history')
           C == Collected
           R == [i \in 1..Collected |-> Entry(i)]
<1>1. TypeOK /\ SlotInv /\ KeysInv /\ TurnInv /\ ArchiveInv /\ InjectionInv
  BY DEF Inv, Deep
<1>2. /\ pc = "tools" /\ pc' = "hooks"
      /\ turn' = turn /\ batch' = batch /\ text' = text /\ slot' = slot /\ count' = count /\ t2' = t2
      /\ steering' = steering /\ followUp' = followUp /\ sent' = sent
  BY DEF Collect, model, queues
<1>3. /\ turn \in Nat /\ history \in Seq(Message) /\ L \in Nat /\ turn > 0 /\ count = 0
      /\ C \in 0..Len(batch) /\ Len(batch) \in Nat /\ C \in Nat
  <2>1. turn \in Nat /\ history \in Seq(Message) /\ L \in Nat /\ Len(batch) \in Nat  BY <1>1, Types
  <2>2. turn > 0 /\ count = 0  BY <1>1, <1>2 DEF TurnInv
  <2>3. C \in 0..Len(batch)  BY <1>1, CollectedFacts
  <2> QED  BY <2>1, <2>2, <2>3
<1>4. Collected' = C /\ \A i : Entry(i)' = Entry(i)
  BY <1>2, CollectedSame, EntrySame
<1>5. \A i \in 0..C : /\ Entry(i) \in Message /\ Entry(i).turn = turn /\ Place(Entry(i)) = i
                      /\ Entry(i).role # "user" /\ (i # 0 => Entry(i).role = "tool")
  BY <1>1, <1>2, EntryFacts
<1>6. R \in Seq(Message) /\ Len(R) = C /\ \A i \in 1..C : R[i] = Entry(i)
  <2>1. \A i \in 1..C : Entry(i) \in Message  BY <1>3, <1>5
  <2>2. R \in [1..C -> Message] /\ \A i \in 1..C : R[i] = Entry(i)  BY <2>1
  <2> HIDE DEF R, C
  <2> QED  BY <1>3, <2>2, FunctionIsSeq
<1>7. history' = history \o R
  <2>1. R = [i \in 1..Collected |-> Msg("tool", turn, i, slot[i].content)]
    <3>1. \A i \in 1..Collected : Entry(i) = Msg("tool", turn, i, slot[i].content)
      BY <1>3 DEF Entry
    <3> QED  BY <3>1
  <2> HIDE DEF R
  <2> QED  BY <2>1 DEF Collect
<1> HIDE DEF R, C
<1>8. /\ GrowsTo(history, history') /\ M = L + C
      /\ \A k \in (L + 1)..M : k - L \in 1..C /\ history'[k] = R[k - L]
  BY <1>3, <1>6, <1>7, ConcatGrows
<1> HIDE DEF L, M
<1>9. \A k \in (L + 1)..M :
         /\ k - L \in 1..C /\ k - L \in 0..C /\ k - L # 0 /\ history'[k] = Entry(k - L)
         /\ history'[k].turn = turn' /\ history'[k].role = "tool" /\ Place(history'[k]) = k - L
  <2> TAKE k \in (L + 1)..M
  <2>1. k - L \in 1..C /\ k - L \in 0..C /\ k - L # 0  BY <1>3, <1>8
  <2>2. history'[k] = Entry(k - L)  BY <1>6, <1>8, <2>1
  <2> QED  BY <1>2, <1>5, <2>1, <2>2
<1>10. \A k \in 1..L : history[k].role # "user" =>
          history[k].turn < turn \/ (history[k].turn = turn /\ Place(history[k]) < 1)
  <2> SUFFICES ASSUME NEW k \in 1..L, history[k].role # "user"
               PROVE  history[k].turn < turn \/ (history[k].turn = turn /\ Place(history[k]) < 1)
    OBVIOUS
  <2>1. history[k] \in Message  BY <1>3, SeqFacts DEF L
  <2>2. history[k].turn \in Nat /\ history[k].turn <= turn  BY <1>1, <2>1, MessageFacts DEF KeysInv, L
  <2>3. CASE history[k].turn = turn
    <3>1. \E i \in 0..0 : history[k] = Entry(i)  BY <1>1, <1>2, <2>3 DEF TurnInv, Shown, L
    <3>2. history[k] = Entry(0) /\ 0 \in 0..C  BY <1>3, <3>1
    <3> QED  BY <1>5, <2>3, <3>2
  <2> QED  BY <1>3, <2>2, <2>3
<1>11. KeysInv'
  <2>1. /\ \A k \in (Len(history) + 1)..Len(history') :
              /\ history'[k].turn = turn' /\ history'[k].role # "user"
              /\ Place(history'[k]) = k - L
        /\ \A k \in 1..Len(history) : history[k].role # "user" =>
              history[k].turn < turn' \/ (history[k].turn = turn' /\ Place(history[k]) < Len(history) + 1 - L)
    <3>1. L + 1 - L = 1  BY <1>3
    <3> QED  BY <1>2, <1>9, <1>10, <3>1 DEF L, M
  <2>2. turn <= turn' /\ turn' > 0 /\ turn' \in Nat  BY <1>2, <1>3
  <2> QED  BY <1>1, <1>3, <1>8, <2>1, <2>2, KeysBlock
<1>12. TurnInv'
  <2>1. Shown' = C  BY <1>2, <1>4 DEF Shown
  <2>2. ASSUME NEW k \in 1..M, history'[k].turn = turn PROVE \E i \in 0..C : history'[k] = Entry(i)
    <3>1. CASE k \in 1..L /\ history'[k] = history[k]
      <4>1. \E i \in 0..0 : history[k] = Entry(i)  BY <1>1, <1>2, <2>2, <3>1 DEF TurnInv, Shown, L
      <4>2. history'[k] = Entry(0) /\ 0 \in 0..C  BY <1>3, <3>1, <4>1
      <4> QED  BY <4>2
    <3>2. CASE k \in (L + 1)..M
      BY <1>9, <3>2
    <3> QED  BY <1>8, <3>1, <3>2, OldOrNew DEF L, M
  <2>3. ASSUME NEW i \in 0..C PROVE \E k \in 1..M : history'[k] = Entry(i)
    <3>1. CASE i = 0
      <4>1. PICK k \in 1..L : history[k] = Entry(0)  BY <1>1, <1>2 DEF TurnInv, Shown, L
      <4>2. k \in 1..M /\ history'[k] = history[k]  BY <1>3, <1>8 DEF GrowsTo, L, M
      <4> QED  BY <3>1, <4>1, <4>2
    <3>2. CASE i # 0
      <4>1. L + i \in (L + 1)..M /\ L + i \in 1..M /\ (L + i) - L = i  BY <1>3, <1>8, <3>2
      <4>2. history'[L + i] = Entry((L + i) - L)  BY <1>9, <4>1
      <4> QED  BY <4>1, <4>2
    <3> QED  BY <3>1, <3>2
  <2>4. \A i \in Calls' : slot'[i].content # "truncated"
    BY <1>1, <1>2 DEF TurnInv, Calls
  <2>5. turn' > 0 /\ count' <= Collected' + 1
    BY <1>2, <1>3, <1>4
  <2>6. /\ \A k \in 1..Len(history') : history'[k].turn = turn' => \E i \in 0..Shown' : history'[k] = Entry(i)'
        /\ \A i \in 0..Shown' : \E k \in 1..Len(history') : history'[k] = Entry(i)'
    BY <1>2, <1>4, <2>1, <2>2, <2>3 DEF M
  <2> QED  BY <1>2, <2>4, <2>5, <2>6 DEF TurnInv
<1>13. ArchiveInv'
  <2>1. Rows' = Rows /\ Rows = Logged(0)  BY <1>1, <1>2, <1>3 DEF ArchiveInv, Rows
  <2>2. ASSUME NEW m PROVE m \in Logged(0) <=> m \in Logged(0)'
    <3>1. m \in Logged(0) <=> m \in KeptMessages(history) /\ m.turn < turn
      BY <1>1, InHistory DEF Logged
    <3>2. m \in Logged(0)' <=> m \in KeptMessages(history') /\ m.turn < turn
      <4>1. ASSUME m \in KeptMessages(history') PROVE Place(m) \in Nat
        <5>1. PICK k \in 1..Len(history') : history'[k] = m  BY <4>1, KeptMessageFacts
        <5>2. m \in Message  BY <1>8, <5>1, SeqFacts DEF GrowsTo
        <5> QED  BY <5>2, MessageFacts
      <4> QED  BY <1>2, <4>1 DEF Logged
    <3>3. m.turn < turn => m.turn # turn  BY <1>3
    <3>4. \A k \in (Len(history) + 1)..Len(history') : history'[k].turn = turn  BY <1>2, <1>9 DEF L, M
    <3> QED  BY <1>3, <1>8, <3>1, <3>2, <3>3, <3>4, KeptOlder
  <2>3. Rows' = Logged(0)'  BY <2>1, <2>2
  <2> QED  BY <1>1, <1>2, <1>3, <2>3 DEF ArchiveInv
<1>14. InjectionInv'
  <2>1. \A k \in (Len(history) + 1)..Len(history') :
           ~Injected(history'[k], "text") /\ ~Injected(history'[k], "nudge")
    BY <1>2, <1>3, <1>9 DEF Injected, L, M
  <2>2. QueueInv(history', steering, "text", sent) /\ QueueInv(history', followUp, "nudge", sent)
    BY <1>1, <1>8, <2>1, QueueGrows DEF InjectionInv
  <2>3. NudgesPlaced(history')
    BY <1>1, <1>8, <2>1, NudgesGrow DEF InjectionInv
  <2>4. BehindResults'
    <3> SUFFICES ASSUME batch # <<>> PROVE M > 0 /\ history'[M].role = "tool"
      BY <1>2 DEF BehindResults, M
    <3>1. C >= 1
      <4>1. Len(batch) # 0  BY <1>1, Types, SeqFacts
      <4>2. C # Len(batch) => C \in 1..Len(batch)  BY <1>1, CollectedFacts DEF C, Calls
      <4> QED  BY <1>3, <4>1, <4>2
    <3>2. M \in (L + 1)..M  BY <1>3, <1>8, <3>1
    <3> QED  BY <1>3, <1>8, <1>9, <3>1, <3>2
  <2> QED  BY <1>2, <2>2, <2>3, <2>4 DEF InjectionInv
<1> QED  BY <1>11, <1>12, <1>13, <1>14 DEF Deep

LEMMA DeepLogEntry ==
    ASSUME Inv, Deep, LogEntry PROVE Deep'
<1> DEFINE E == Entry(count)
<1>1. TypeOK /\ SlotInv /\ KeysInv /\ TurnInv /\ ArchiveInv /\ InjectionInv
  BY DEF Inv, Deep
<1>2. /\ pc = "hooks" /\ count <= Collected
      /\ turn' = turn /\ batch' = batch /\ text' = text /\ history' = history /\ slot' = slot
      /\ steering' = steering /\ followUp' = followUp /\ sent' = sent
      /\ \/ pc' = "hooks" /\ count' = count + 1 /\ t2' = IF E.content = "empty" THEN t2 ELSE Append(t2, E)
         \/ /\ pc' = "failed" /\ count' = count /\ E.content # "empty"
            /\ t2' = t2 \/ t2' = Append(t2, E)
  BY DEF LogEntry, model, queues
<1>3. /\ turn \in Nat /\ count \in Nat /\ t2 \in Seq(Message) /\ Collected \in Nat
      /\ count \in 0..Collected /\ Len(t2) \in Nat
  <2>1. turn \in Nat /\ count \in Nat /\ t2 \in Seq(Message) /\ Len(batch) \in Nat  BY <1>1, Types
  <2>2. Collected \in 0..Len(batch)  BY <1>1, CollectedFacts
  <2> QED  BY <1>2, <2>1, <2>2, SeqFacts
<1>4. Collected' = Collected /\ \A i : Entry(i)' = Entry(i)
  BY <1>2, CollectedSame, EntrySame
<1>5. E \in Message /\ E.turn = turn /\ Place(E) = count
  BY <1>1, <1>2, <1>3, EntryFacts
<1>6. /\ \A m \in KeptMessages(history) : m.turn = turn =>
            \E i \in 0..Collected : m = Entry(i) /\ Place(m) = i
      /\ E.content # "empty" => E \in KeptMessages(history)
  BY <1>1, <1>2, <1>3, KeptEntries
<1>7. E.content = "empty" => E \notin KeptMessages(history)
  BY KeptMessageFacts
<1>8. \A m \in KeptMessages(history) : m.turn = turn /\ Place(m) = count => m = E
  BY <1>6
<1> HIDE DEF E
<1>9. ASSUME NEW m
      PROVE  m \in Logged(count + 1) <=> m \in Logged(count) \/ (m = E /\ m \in KeptMessages(history))
  <2> SUFFICES ASSUME m \in KeptMessages(history)
               PROVE  (m.turn < turn \/ Place(m) < count + 1) <=> (m.turn < turn \/ Place(m) < count \/ m = E)
    BY DEF Logged
  <2>1. m.turn \in Nat /\ Place(m) \in Nat /\ m.turn <= turn  BY <1>1, InHistory
  <2>2. m.turn = turn /\ Place(m) = count => m = E  BY <1>8
  <2>3. m = E => m.turn = turn /\ Place(m) = count  BY <1>5
  <2> DEFINE a == m.turn
             b == Place(m)
  <2>4. /\ a \in Nat /\ b \in Nat /\ a <= turn
        /\ (a = turn /\ b = count) => m = E
        /\ m = E => (a = turn /\ b = count)
    BY <2>1, <2>2, <2>3
  <2> HIDE DEF a, b
  <2>5. (a < turn \/ b < count + 1) <=> (a < turn \/ b < count \/ m = E)
    BY <1>3, <2>4
  <2> QED  BY <2>5 DEF a, b
<1>10. Rows = Logged(count)
  BY <1>1, <1>2 DEF ArchiveInv
<1>11. ASSUME t2' = Append(t2, E), E.content # "empty"
       PROVE  Rows' = Logged(count + 1) /\ \A i, j \in 1..Len(t2') : i < j => Before(t2'[i], t2'[j])
  <2>1. /\ Len(t2') = Len(t2) + 1 /\ \A i \in 1..Len(t2) : t2'[i] = t2[i]
        /\ t2'[Len(t2) + 1] = E
    BY <1>3, <1>5, <1>11, AppendFacts
  <2>2. \A i \in 1..Len(t2') : (i \in 1..Len(t2) /\ t2'[i] = t2[i]) \/ (i = Len(t2) + 1 /\ t2'[i] = E)
    BY <1>3, <2>1
  <2>3. ASSUME NEW m PROVE m \in Rows' <=> m \in Rows \/ m = E
    <3>1. m \in Rows' <=> \E i \in 1..Len(t2') : t2'[i] = m  BY DEF Rows
    <3>2. m \in Rows <=> \E i \in 1..Len(t2) : t2[i] = m  BY DEF Rows
    <3>3. \A i \in 1..Len(t2) : i \in 1..Len(t2') /\ t2'[i] = t2[i]  BY <1>3, <2>1
    <3>4. Len(t2) + 1 \in 1..Len(t2')  BY <1>3, <2>1
    <3>5. ASSUME m \in Rows' PROVE m \in Rows \/ m = E
      BY <2>2, <3>1, <3>2, <3>5
    <3>6. ASSUME m \in Rows \/ m = E PROVE m \in Rows'
      BY <2>1, <3>1, <3>2, <3>3, <3>4, <3>6
    <3> QED  BY <3>5, <3>6
  <2>4. E \in KeptMessages(history)  BY <1>6, <1>11 DEF E
  <2>5. Rows' = Logged(count + 1)
    <3>1. \A m : m \in Rows' <=> m \in Logged(count + 1)  BY <1>9, <1>10, <2>3, <2>4
    <3> QED  BY <3>1
  <2>6. ASSUME NEW i \in 1..Len(t2) PROVE Before(t2[i], E)
    <3>1. t2[i] \in Logged(count)  BY <1>10 DEF Rows
    <3>2. t2[i] \in KeptMessages(history) /\ (t2[i].turn < turn \/ Place(t2[i]) < count)
      BY <3>1 DEF Logged
    <3>3. t2[i].turn \in Nat /\ t2[i].turn <= turn  BY <1>1, <3>2, InHistory
    <3> QED  BY <1>3, <1>5, <3>2, <3>3 DEF Before
  <2>7. ASSUME NEW i \in 1..Len(t2'), NEW j \in 1..Len(t2'), i < j PROVE Before(t2'[i], t2'[j])
    <3>1. i \in 1..Len(t2) /\ t2'[i] = t2[i]  BY <1>3, <2>1, <2>7
    <3>2. CASE j \in 1..Len(t2) /\ t2'[j] = t2[j]
      BY <1>1, <2>7, <3>1, <3>2 DEF ArchiveInv
    <3>3. CASE t2'[j] = E
      BY <2>6, <3>1, <3>3
    <3> QED  BY <2>2, <3>2, <3>3
  <2> QED  BY <2>5, <2>7
<1>12. ASSUME t2' = t2
       PROVE  Rows' = Logged(count) /\ \A i, j \in 1..Len(t2') : i < j => Before(t2'[i], t2'[j])
  BY <1>1, <1>10, <1>12 DEF Rows, ArchiveInv
<1>13. \A c : Logged(c)' = Logged(c)
  BY <1>2 DEF Logged
<1>14. ArchiveInv'
  <2>1. CASE /\ pc' = "hooks" /\ count' = count + 1
             /\ t2' = IF E.content = "empty" THEN t2 ELSE Append(t2, E)
    <3>1. CASE E.content = "empty"
      <4>1. t2' = t2  BY <2>1, <3>1
      <4>2. \A m : m \in Logged(count + 1) <=> m \in Logged(count)  BY <1>7, <1>9, <3>1 DEF E
      <4>3. Rows' = Logged(count + 1)  BY <1>12, <4>1, <4>2
      <4> QED  BY <1>12, <1>13, <2>1, <4>1, <4>3 DEF ArchiveInv
    <3>2. CASE E.content # "empty"
      <4>1. t2' = Append(t2, E)  BY <2>1, <3>2
      <4> QED  BY <1>11, <1>13, <2>1, <3>2, <4>1 DEF ArchiveInv
    <3> QED  BY <3>1, <3>2
  <2>2. CASE /\ pc' = "failed" /\ count' = count /\ E.content # "empty"
             /\ t2' = t2 \/ t2' = Append(t2, E)
    <3>1. CASE t2' = t2
      BY <1>12, <1>13, <2>2, <3>1 DEF ArchiveInv
    <3>2. CASE t2' = Append(t2, E)
      BY <1>11, <1>13, <2>2, <3>2 DEF ArchiveInv
    <3> QED  BY <2>2, <3>1, <3>2
  <2> QED  BY <1>2, <2>1, <2>2
<1>15. KeysInv'
  BY <1>1, <1>2 DEF KeysInv
<1>16. TurnInv'
  <2>1. CASE pc' = "failed"
    BY <2>1 DEF TurnInv
  <2>2. CASE pc' = "hooks" /\ count' = count + 1
    <3>1. Shown' = Shown /\ count' <= Collected' + 1 /\ Calls' = Calls
      BY <1>2, <1>3, <1>4, <2>2 DEF Shown, Calls
    <3> QED  BY <1>1, <1>2, <1>4, <2>2, <3>1 DEF TurnInv
  <2> QED  BY <1>2, <2>1, <2>2
<1>17. InjectionInv'
  BY <1>1, <1>2 DEF InjectionInv, BehindResults
<1> QED  BY <1>14, <1>15, <1>16, <1>17 DEF Deep

LEMMA DeepFinishHooks ==
    ASSUME Inv, Deep, FinishHooks PROVE Deep'
<1>1. TypeOK /\ SlotInv /\ KeysInv /\ TurnInv /\ ArchiveInv /\ InjectionInv
  BY DEF Inv, Deep
<1>2. /\ pc = "hooks" /\ count > Collected /\ count' = 0
      /\ turn' = turn /\ batch' = batch /\ history' = history /\ t2' = t2
      /\ steering' = steering /\ followUp' = followUp /\ sent' = sent
      /\ pc' \in {"finished", "terminated", "drain"} /\ (pc' = "drain" => batch # <<>>)
  BY DEF FinishHooks, model, queues
<1>3. KeysInv' /\ TurnInv'
  BY <1>1, <1>2 DEF KeysInv, TurnInv
<1>4. ArchiveInv'
  <2>1. Rows = Logged(count)  BY <1>1, <1>2 DEF ArchiveInv
  <2>2. count \in Nat /\ Collected \in Nat /\ turn \in Nat
    <3>1. Collected \in 0..Len(batch) /\ Len(batch) \in Nat  BY <1>1, CollectedFacts, Types
    <3> QED  BY <1>1, <3>1, Types
  <2>3. ASSUME NEW m \in KeptMessages(history) PROVE m.turn < turn \/ Place(m) < count
    <3>1. m.turn \in Nat /\ m.turn <= turn  BY <1>1, InHistory
    <3>2. CASE m.turn = turn
      <4>1. PICK i \in 0..Collected : Place(m) = i  BY <1>1, <1>2, <3>2, KeptEntries
      <4> QED  BY <1>2, <2>2, <4>1
    <3> QED  BY <2>2, <3>1, <3>2
  <2>4. Rows = KeptMessages(history)  BY <2>1, <2>3 DEF Logged
  <2> QED  BY <1>1, <1>2, <2>4 DEF ArchiveInv, Rows
<1>5. InjectionInv'
  BY <1>1, <1>2 DEF InjectionInv, BehindResults
<1> QED  BY <1>3, <1>4, <1>5 DEF Deep

\* A message of the user joins the history after the hooks of a turn.
LEMMA DeepUser ==
    ASSUME TypeOK, KeysInv, ArchiveInv, pc = "drain", NEW m \in Message, m.role = "user", m.turn = 0,
           m.content # "truncated",
           history' = Append(history, m) \/ history' = history,
           turn' = turn, t2' = t2, pc' \in {"drain", "stopped", "exhausted", "request"}
    PROVE  /\ KeysInv' /\ ArchiveInv' /\ GrowsTo(history, history')
           /\ \A k \in (Len(history) + 1)..Len(history') : k = Len(history) + 1 /\ history'[k] = m
<1>1. history \in Seq(Message) /\ turn \in Nat /\ Len(history) \in Nat
  BY Types
<1>2. /\ GrowsTo(history, history')
      /\ \A k \in (Len(history) + 1)..Len(history') : k = Len(history) + 1 /\ history'[k] = m
  <2>1. CASE history' = Append(history, m)
    BY <1>1, <2>1, AppendGrows
  <2>2. CASE history' = history
    BY <1>1, <2>2 DEF GrowsTo
  <2> QED  BY <2>1, <2>2
<1>3. KeysInv'
  <2>1. turn <= turn'  BY <1>1
  <2> QED  BY <1>1, <1>2, <2>1, KeysUsers
<1>4. KeptMessages(history') = KeptMessages(history)
  BY <1>2, KeptUsers
<1>5. ArchiveInv'
  BY <1>4 DEF ArchiveInv, Rows
<1> QED  BY <1>2, <1>3, <1>5

LEMMA DeepSteer ==
    ASSUME Inv, Deep, Steer PROVE Deep'
<1> DEFINE m == Head(steering)
<1>1. TypeOK /\ KeysInv /\ TurnInv /\ ArchiveInv /\ InjectionInv
  BY DEF Inv, Deep
<1>2. /\ pc = "drain" /\ steering # <<>> /\ pc' = pc /\ steering' = Tail(steering)
      /\ turn' = turn /\ batch' = batch /\ t2' = t2 /\ followUp' = followUp /\ sent' = sent
      /\ \/ m.role = "user" /\ history' = Append(history, m) /\ count' = count + 1
         \/ history' = history /\ count' = count
  BY DEF Steer, model
<1>3. /\ history \in Seq(Message) /\ steering \in Seq(Message) /\ count \in Nat
      /\ m \in Message /\ Injected(m, "text")
  <2>1. history \in Seq(Message) /\ steering \in Seq(Message) /\ count \in Nat  BY <1>1, Types
  <2>2. m \in Message /\ m = steering[1] /\ 1 \in 1..Len(steering)  BY <1>2, <2>1, TailFacts
  <2> HIDE DEF m
  <2>3. Injected(m, "text")  BY <1>1, <2>2 DEF InjectionInv, QueueInv
  <2> QED  BY <2>1, <2>2, <2>3
<1>4. TurnInv'
  BY <1>2 DEF TurnInv
<1>5. QueueInv(history, steering, "text", sent) /\ QueueInv(history, followUp, "nudge", sent)
      /\ NudgesPlaced(history)
  BY <1>1 DEF InjectionInv
<1>6. CASE m.role = "user" /\ history' = Append(history, m) /\ count' = count + 1
  <2>1. QueueInv(history', steering', "text", sent)
    BY <1>2, <1>3, <1>5, <1>6, QueueTake
  <2> HIDE DEF m
  <2>2. m.turn = 0 /\ m.content = "text"  BY <1>3 DEF Injected
  <2>3. m.content # "truncated" /\ pc' \in {"drain", "stopped", "exhausted", "request"}  BY <1>2, <2>2
  <2>4. /\ KeysInv' /\ ArchiveInv' /\ GrowsTo(history, history')
        /\ \A k \in (Len(history) + 1)..Len(history') : k = Len(history) + 1 /\ history'[k] = m
    BY <1>1, <1>2, <1>3, <1>6, <2>2, <2>3, DeepUser
  <2>5. \A k \in (Len(history) + 1)..Len(history') : ~Injected(history'[k], "nudge")
    BY <2>2, <2>4 DEF Injected
  <2>6. QueueInv(history', followUp, "nudge", sent) /\ NudgesPlaced(history')
    BY <1>5, <2>4, <2>5, QueueGrows, NudgesGrow
  <2>7. BehindResults'
    BY <1>2, <1>3, <1>6 DEF BehindResults
  <2>8. InjectionInv'
    BY <1>2, <2>1, <2>6, <2>7 DEF InjectionInv
  <2> QED  BY <1>4, <2>4, <2>8 DEF Deep
<1>7. CASE history' = history /\ count' = count
  <2>1. QueueInv(history', steering', "text", sent)
    BY <1>2, <1>3, <1>5, <1>7, QueueDrop
  <2>2. InjectionInv'
    BY <1>1, <1>2, <1>5, <1>7, <2>1 DEF InjectionInv, BehindResults
  <2>3. KeysInv' /\ ArchiveInv'
    BY <1>1, <1>2, <1>7 DEF KeysInv, ArchiveInv, Rows
  <2> QED  BY <1>4, <2>2, <2>3 DEF Deep
<1> QED  BY <1>2, <1>6, <1>7

LEMMA DeepEndTurn ==
    ASSUME Inv, Deep, EndTurn PROVE Deep'
<1> DEFINE m == Head(followUp)
<1>1. TypeOK /\ KeysInv /\ TurnInv /\ ArchiveInv /\ InjectionInv
  BY DEF Inv, Deep
<1>2. /\ pc = "drain" /\ count' = 0 /\ steering' = steering
      /\ turn' = turn /\ batch' = batch /\ t2' = t2 /\ sent' = sent
      /\ pc' \in {"stopped", "exhausted", "request"}
  BY DEF EndTurn, model
<1>3. \/ /\ count = 0 /\ followUp # <<>> /\ followUp' = Tail(followUp)
         /\ history' = IF m.role = "user" THEN Append(history, m) ELSE history
      \/ followUp' = followUp /\ history' = history
  BY DEF EndTurn, TakesFollowUp
<1>4. history \in Seq(Message) /\ followUp \in Seq(Message) /\ Len(history) \in Nat
  BY <1>1, Types
<1>5. TurnInv' /\ BehindResults'
  BY <1>2 DEF TurnInv, BehindResults
<1>6. QueueInv(history, steering, "text", sent) /\ QueueInv(history, followUp, "nudge", sent)
      /\ NudgesPlaced(history)
  BY <1>1 DEF InjectionInv
<1>7. history' = history => KeysInv' /\ ArchiveInv'
  BY <1>1, <1>2 DEF KeysInv, ArchiveInv, Rows
<1>8. CASE followUp' = followUp /\ history' = history
  BY <1>2, <1>5, <1>6, <1>7, <1>8 DEF InjectionInv, Deep
<1>9. CASE /\ count = 0 /\ followUp # <<>> /\ followUp' = Tail(followUp)
           /\ history' = IF m.role = "user" THEN Append(history, m) ELSE history
  <2>1. CASE m.role # "user"
    <3>1. history' = history  BY <1>9, <2>1
    <3>2. QueueInv(history', followUp', "nudge", sent)
      BY <1>4, <1>6, <1>9, <3>1, QueueDrop
    <3> QED  BY <1>2, <1>5, <1>6, <1>7, <3>1, <3>2 DEF InjectionInv, Deep
  <2>2. CASE m.role = "user"
    <3>1. history' = Append(history, m)  BY <1>9, <2>2
    <3>2. QueueInv(history', followUp', "nudge", sent)
      BY <1>4, <1>6, <1>9, <3>1, QueueTake
    <3>3. m \in Message /\ m = followUp[1] /\ 1 \in 1..Len(followUp)  BY <1>4, <1>9, TailFacts
    <3> HIDE DEF m
    <3>4. Injected(m, "nudge")  BY <1>6, <3>3 DEF QueueInv
    <3>5. m.turn = 0 /\ m.content = "nudge" /\ m.content # "truncated"  BY <3>4 DEF Injected
    <3>6. pc' \in {"drain", "stopped", "exhausted", "request"}  BY <1>2
    <3>7. /\ KeysInv' /\ ArchiveInv' /\ GrowsTo(history, history')
          /\ \A k \in (Len(history) + 1)..Len(history') : k = Len(history) + 1 /\ history'[k] = m
      BY <1>1, <1>2, <2>2, <3>1, <3>3, <3>5, <3>6, DeepUser
    <3>8. \A k \in (Len(history) + 1)..Len(history') : ~Injected(history'[k], "text")
      BY <3>5, <3>7 DEF Injected
    <3>9. QueueInv(history', steering, "text", sent)
      BY <1>6, <3>7, <3>8, QueueGrows
    <3>10. NudgesPlaced(history')
      <4> SUFFICES ASSUME NEW k \in 1..Len(history'), Injected(history'[k], "nudge")
                   PROVE  k > 1 /\ history'[k - 1].role = "tool"
        BY DEF NudgesPlaced
      <4>1. CASE k \in 1..Len(history) /\ history'[k] = history[k]
        <5>1. k > 1 /\ history[k - 1].role = "tool"  BY <1>6, <4>1 DEF NudgesPlaced
        <5>2. k - 1 \in 1..Len(history)  BY <1>4, <4>1, <5>1
        <5> QED  BY <3>7, <5>1, <5>2 DEF GrowsTo
      <4>2. CASE k \in (Len(history) + 1)..Len(history')
        <5>1. k = Len(history) + 1  BY <3>7, <4>2
        <5>2. Len(history) > 0 /\ history[Len(history)].role = "tool"
          BY <1>1, <1>2, <1>9 DEF InjectionInv, BehindResults
        <5>3. k > 1 /\ k - 1 = Len(history) /\ k - 1 \in 1..Len(history)  BY <1>4, <5>1, <5>2
        <5>4. history'[k - 1] = history[k - 1]  BY <3>7, <5>3 DEF GrowsTo
        <5> QED  BY <5>2, <5>3, <5>4
      <4> QED  BY <3>7, <4>1, <4>2, OldOrNew
    <3> QED  BY <1>2, <1>5, <3>2, <3>7, <3>9, <3>10 DEF InjectionInv, Deep
  <2> QED  BY <2>1, <2>2
<1> QED  BY <1>3, <1>8, <1>9

LEMMA DeepRespond ==
    ASSUME Inv, Deep, pc = "request", NEW b \in Batches, NEW tx \in Texts, NEW c \in Costs,
           NEW finish \in {"stop", "length"}, Respond(b, tx, c, finish),
           UNCHANGED <<count, t2, used, queues>>
    PROVE  Deep'
<1> DEFINE L == Len(history)
           M == Len(history')
           t == turn + 1
           A == Msg("assistant", turn + 1, Len(b), tx)
           said == Append(history, A)
           T == [i \in 1..Len(b) |-> Msg("tool", turn + 1, i, "truncated")]
<1>1. TypeOK /\ KeysInv /\ TurnInv /\ ArchiveInv /\ InjectionInv
  BY DEF Inv, Deep
<1>2. Len(b) \in Nat /\ (b = <<>> <=> Len(b) = 0)
  <2>1. PICK n \in 0..MaxBatch : b \in [1..n -> Tools]
    BY DEF Batches
  <2>2. n \in Nat
    BY <2>1, LoopAssumption
  <2> QED
    BY <2>1, <2>2, FunctionIsSeq, SeqFacts
<1>3. /\ turn' = t /\ batch' = b /\ text' = tx /\ count' = count /\ t2' = t2
      /\ steering' = steering /\ followUp' = followUp /\ sent' = sent
  BY DEF Respond, queues
<1>4. /\ turn \in Nat /\ t \in Nat /\ t > 0 /\ turn < t /\ turn <= t
      /\ history \in Seq(Message) /\ L \in Nat /\ count = 0
  <2>1. turn \in Nat /\ history \in Seq(Message) /\ L \in Nat  BY <1>1, Types
  <2>2. count = 0  BY <1>1 DEF TurnInv
  <2> QED  BY <2>1, <2>2
<1>5. /\ A \in Message /\ A.role = "assistant" /\ A.turn = t /\ Place(A) = 0
  <2>1. tx \in Content
    BY LoopAssumption DEF Content
  <2>2. A \in Message /\ A.role = "assistant" /\ A.turn = t
    BY <1>2, <1>4, <2>1, MsgFacts
  <2> QED  BY <2>2 DEF Place
<1>6. \A i \in 1..Len(b) : /\ T[i] \in Message /\ T[i].role = "tool" /\ T[i].turn = t
                           /\ Place(T[i]) = i /\ T[i].content = "truncated"
  <2> TAKE i \in 1..Len(b)
  <2>1. i \in Nat /\ "truncated" \in Content
    BY <1>2 DEF Content
  <2>2. T[i] = Msg("tool", t, i, "truncated")
    OBVIOUS
  <2>3. /\ T[i] \in Message /\ T[i].role = "tool" /\ T[i].turn = t
        /\ T[i].n = i /\ T[i].content = "truncated"
    BY <1>4, <2>1, <2>2, MsgFacts
  <2> QED  BY <2>3 DEF Place
<1>7. T \in Seq(Message) /\ Len(T) = Len(b)
  <2>1. T \in [1..Len(b) -> Message]
    BY <1>6
  <2> QED
    BY <1>2, <2>1, FunctionIsSeq
<1>8. \/ /\ finish = "length" /\ b # <<>> /\ history' = said \o T
         /\ pc' \in {"exhausted", "request"}
      \/ /\ history' = said /\ slot' = [i \in 1..Len(b) |-> Waiting]
         /\ pc' = IF b = <<>> THEN "hooks" ELSE "tools"
  BY DEF Respond
<1> HIDE DEF T
<1>9. /\ GrowsTo(history, said) /\ Len(said) = L + 1 /\ said \in Seq(Message)
      /\ \A k \in (L + 1)..Len(said) : k = L + 1 /\ said[k] = A
  BY <1>4, <1>5, AppendGrows DEF GrowsTo
<1> HIDE DEF said, A
<1>10. /\ GrowsTo(history, history')
       /\ M = L + 1 \/ (b # <<>> /\ pc' \in {"exhausted", "request"} /\ M = L + 1 + Len(b))
       /\ \A k \in (L + 1)..M :
             \/ k = L + 1 /\ history'[k] = A
             \/ k - (L + 1) \in 1..Len(b) /\ history'[k] = T[k - (L + 1)] /\ history' = said \o T
  <2>1. CASE b # <<>> /\ history' = said \o T /\ pc' \in {"exhausted", "request"}
    <3>1. /\ GrowsTo(said, history') /\ M = Len(said) + Len(T)
          /\ \A k \in (Len(said) + 1)..M : k - Len(said) \in 1..Len(T) /\ history'[k] = T[k - Len(said)]
      BY <1>7, <1>9, <2>1, ConcatGrows
    <3>2. GrowsTo(history, history')
      BY <1>9, <3>1, GrowsTwice
    <3>3. ASSUME NEW k \in (L + 1)..M
          PROVE  \/ k = L + 1 /\ history'[k] = A
                 \/ k - (L + 1) \in 1..Len(b) /\ history'[k] = T[k - (L + 1)] /\ history' = said \o T
      <4>1. CASE k = L + 1
        <5>1. k \in 1..Len(said) /\ k \in (L + 1)..Len(said)  BY <1>4, <1>9, <4>1
        <5> QED  BY <1>9, <3>1, <4>1, <5>1 DEF GrowsTo
      <4>2. CASE k # L + 1
        <5>1. k \in (Len(said) + 1)..M  BY <1>4, <1>9, <4>2
        <5> QED  BY <1>7, <1>9, <2>1, <3>1, <5>1
      <4> QED  BY <4>1, <4>2
    <3> QED  BY <1>7, <1>9, <2>1, <3>1, <3>2, <3>3
  <2>2. CASE history' = said
    BY <1>9, <2>2
  <2> QED  BY <1>8, <2>1, <2>2
<1> HIDE DEF L, M, t
<1>11. \A k \in (L + 1)..M :
          history'[k].turn = t /\ history'[k].role # "user" /\ Place(history'[k]) = k - (L + 1)
  <2> TAKE k \in (L + 1)..M
  <2>1. CASE k = L + 1 /\ history'[k] = A
    <3>1. k - (L + 1) = 0  BY <1>4, <2>1
    <3> QED  BY <1>5, <2>1, <3>1
  <2>2. CASE k - (L + 1) \in 1..Len(b) /\ history'[k] = T[k - (L + 1)]
    BY <1>6, <2>2
  <2> QED  BY <1>10, <2>1, <2>2
<1>12. \A k \in 1..L : history[k].turn \in Nat /\ history[k].turn < t
  <2> TAKE k \in 1..L
  <2>1. history[k] \in Message  BY <1>4, SeqFacts DEF L
  <2>2. history[k].turn \in Nat /\ history[k].turn <= turn  BY <1>1, <2>1, MessageFacts DEF KeysInv, L
  <2> QED  BY <1>4, <2>2
<1>13. KeysInv'
  <2>1. L + 1 \in Nat  BY <1>4
  <2> QED  BY <1>1, <1>3, <1>4, <1>10, <1>11, <1>12, <2>1, KeysBlock DEF L, M
<1>14. ASSUME NEW m, m \in KeptMessages(history) PROVE m.turn \in Nat /\ m.turn < t
  <2>1. PICK k \in 1..L : history[k] = m  BY <1>14, KeptMessageFacts DEF L
  <2> QED  BY <1>12, <2>1
<1>15. ASSUME NEW m, m.turn # t PROVE m \in KeptMessages(history') <=> m \in KeptMessages(history)
  BY <1>4, <1>10, <1>11, <1>15, KeptOlder DEF L, M
<1>16. Rows' = KeptMessages(history) /\ \A i, j \in 1..Len(t2') : i < j => Before(t2'[i], t2'[j])
  BY <1>1, <1>3 DEF ArchiveInv, Rows
<1>17. InjectionInv'
  <2>1. \A k \in (Len(history) + 1)..Len(history') :
           ~Injected(history'[k], "text") /\ ~Injected(history'[k], "nudge")
    BY <1>4, <1>11 DEF Injected, L, M
  <2>2. QueueInv(history', steering, "text", sent) /\ QueueInv(history', followUp, "nudge", sent)
    BY <1>1, <1>10, <2>1, QueueGrows DEF InjectionInv
  <2>3. NudgesPlaced(history')
    BY <1>1, <1>10, <2>1, NudgesGrow DEF InjectionInv
  <2>4. BehindResults'
    BY <1>3, <1>8 DEF BehindResults
  <2> QED  BY <1>3, <2>2, <2>3, <2>4 DEF InjectionInv
<1>18. CASE finish = "length" /\ b # <<>> /\ history' = said \o T /\ pc' \in {"exhausted", "request"}
  <2>1. TurnInv'
    BY <1>3, <1>4, <1>18 DEF TurnInv
  <2>2. t \in Truncated(history')
    <3>1. Len(b) >= 1 /\ 1 \in 1..Len(b)  BY <1>2, <1>18
    <3>2. Len(said) + 1 = L + 2 /\ L + 2 \in 1..M /\ (said \o T)[Len(said) + 1] = T[1]
      <4>1. /\ Len(said \o T) = Len(said) + Len(T)
            /\ \A i \in 1..Len(T) : (said \o T)[Len(said) + i] = T[i]
        <5>1. said \in Seq(Message) /\ T \in Seq(Message)  BY <1>7, <1>9
        <5> QED  BY ONLY <5>1
      <4>2. M = L + 1 + Len(b)  BY <1>7, <1>9, <1>18, <4>1 DEF M
      <4> QED  BY <1>4, <1>7, <1>9, <3>1, <4>1, <4>2
    <3>3. history'[L + 2] = T[1]  BY <1>18, <3>2
    <3> QED  BY <1>6, <3>1, <3>2, <3>3, TruncatedFacts DEF M
  <2>3. ASSUME NEW m PROVE m \in KeptMessages(history') <=> m \in KeptMessages(history)
    <3>1. CASE m.turn = t
      BY <1>4, <1>14, <2>2, <3>1, KeptMessageFacts
    <3>2. CASE m.turn # t
      BY <1>15, <3>2
    <3> QED  BY <3>1, <3>2
  <2>4. KeptMessages(history') = KeptMessages(history)  BY <2>3
  <2>5. ArchiveInv'
    BY <1>16, <1>18, <2>4 DEF ArchiveInv
  <2> QED  BY <1>13, <1>17, <2>1, <2>5 DEF Deep
<1>19. CASE /\ history' = said /\ slot' = [i \in 1..Len(b) |-> Waiting]
            /\ pc' = IF b = <<>> THEN "hooks" ELSE "tools"
  <2>1. ASSUME NEW m PROVE m \in Logged(0)' <=> m \in KeptMessages(history)
    <3>1. m \in Logged(0)' <=> m \in KeptMessages(history') /\ m.turn < t
      <4>1. ASSUME m \in KeptMessages(history') PROVE Place(m) \in Nat
        <5>1. PICK k \in 1..Len(history') : history'[k] = m  BY <4>1, KeptMessageFacts
        <5>2. m \in Message  BY <1>10, <5>1, SeqFacts DEF GrowsTo
        <5> QED  BY <5>2, MessageFacts
      <4> QED  BY <1>3, <4>1 DEF Logged
    <3>2. m.turn < t => m.turn # t  BY <1>4
    <3> QED  BY <1>14, <1>15, <3>1, <3>2
  <2>2. Rows' = Logged(count)'  BY <1>3, <1>4, <1>16, <2>1
  <2>3. ArchiveInv'
    BY <1>16, <1>19, <2>2 DEF ArchiveInv
  <2>4. TurnInv'
    <3>1. Shown' = 0 /\ Collected' \in Nat
      <4>1. CASE b = <<>>
        <5>1. Calls' = {}  BY <1>2, <1>3, <4>1 DEF Calls
        <5>2. Collected' = 0  BY <1>2, <1>3, <4>1, <5>1 DEF Collected
        <5> QED  BY <1>19, <4>1, <5>2 DEF Shown
      <4>2. CASE b # <<>>
        <5>1. \A i \in Calls' : ~slot'[i].ends  BY <1>3, <1>19 DEF Calls, Waiting
        <5>2. Collected' = Len(b)  BY <1>3, <5>1 DEF Collected
        <5> QED  BY <1>2, <1>19, <4>2, <5>2 DEF Shown
      <4> QED  BY <4>1, <4>2
    <3>2. \A i \in Calls' : slot'[i].content # "truncated"
      BY <1>3, <1>19 DEF Calls, Waiting
    <3>3. Entry(0)' = A
      BY <1>3 DEF Entry, A, t
    <3>4. M = L + 1 /\ L + 1 \in 1..M /\ history'[L + 1] = A
      BY <1>4, <1>9, <1>19 DEF M
    <3>5. ASSUME NEW k \in 1..M, history'[k].turn = t PROVE history'[k] = A
      <4>1. CASE k \in 1..L /\ history'[k] = history[k]
        BY <1>4, <1>12, <3>5, <4>1
      <4>2. CASE k = L + 1
        BY <3>4, <4>2
      <4> QED  BY <1>4, <1>10, <3>4, <4>1, <4>2 DEF GrowsTo, L
    <3>6. /\ \A k \in 1..Len(history') : history'[k].turn = turn' => \E i \in 0..0 : history'[k] = Entry(i)'
          /\ \A i \in 0..0 : \E k \in 1..Len(history') : history'[k] = Entry(i)'
      BY <1>3, <3>3, <3>4, <3>5 DEF M
    <3>7. turn' > 0 /\ count' = 0 /\ count' <= Collected' + 1
      <4>1. turn' > 0 /\ count' = 0  BY <1>3, <1>4
      <4>2. \A x \in Nat : 0 <= x + 1  OBVIOUS
      <4>3. 0 <= Collected' + 1  BY <3>1, <4>2, Zenon
      <4> QED  BY <4>1, <4>3
    <3> QED  BY <3>1, <3>2, <3>6, <3>7 DEF TurnInv
  <2> QED  BY <1>13, <1>17, <2>3, <2>4 DEF Deep
<1> QED  BY <1>8, <1>18, <1>19

LEMMA DeepRequest ==
    ASSUME Inv, Deep, Request PROVE Deep'
<1>1. TypeOK /\ KeysInv /\ TurnInv /\ ArchiveInv /\ InjectionInv
  BY DEF Inv, Deep
<1>2. pc = "request" /\ UNCHANGED <<count, t2, used, queues>>
  BY DEF Request
<1>3. CASE \E b \in Batches, tx \in Texts, c \in Costs, finish \in {"stop", "length"} :
              Respond(b, tx, c, finish)
  BY <1>2, <1>3, DeepRespond
<1>4. CASE /\ Fault /\ pc' = "failed" /\ turn' = turn + 1
           /\ UNCHANGED <<history, batch, text, cost, billed, slot>>
  <2>1. turn \in Nat /\ turn + 1 \in Nat /\ turn <= turn + 1 /\ history \in Seq(Message)
    BY <1>1, Types
  <2>2. /\ steering' = steering /\ followUp' = followUp /\ sent' = sent
        /\ count' = count /\ t2' = t2 /\ history' = history /\ batch' = batch
    BY <1>2, <1>4 DEF queues
  <2>3. KeysInv'
    <3>1. GrowsTo(history, history') /\ (Len(history) + 1)..Len(history') = {}
      BY <2>1, <2>2, Types DEF GrowsTo
    <3> QED  BY <1>1, <1>4, <2>1, <3>1, KeysUsers
  <2>4. TurnInv'
    BY <1>4 DEF TurnInv
  <2>5. ArchiveInv'
    <3>1. Rows' = KeptMessages(history)  BY <1>1, <1>2, <2>2 DEF ArchiveInv, Rows
    <3>2. \A m \in KeptMessages(history) : m.turn < turn + 1
      <4> TAKE m \in KeptMessages(history)
      <4>1. m.turn \in Nat /\ m.turn <= turn  BY <1>1, InHistory
      <4> QED  BY <2>1, <4>1
    <3>3. Logged(count)' = KeptMessages(history)  BY <1>4, <2>2, <3>2 DEF Logged
    <3> QED  BY <1>1, <1>4, <2>2, <3>1, <3>3 DEF ArchiveInv
  <2>6. InjectionInv'
    BY <1>1, <1>4, <2>2 DEF InjectionInv, BehindResults
  <2> QED  BY <2>3, <2>4, <2>5, <2>6 DEF Deep
<1> QED  BY <1>3, <1>4 DEF Request

LEMMA DeepStutter ==
    ASSUME Deep, UNCHANGED vars PROVE Deep'
<1>1. /\ pc' = pc /\ turn' = turn /\ batch' = batch /\ text' = text
      /\ history' = history /\ slot' = slot /\ count' = count /\ t2' = t2
      /\ sent' = sent /\ steering' = steering /\ followUp' = followUp
  BY DEF vars
<1>2. Collected' = Collected /\ \A i : Entry(i)' = Entry(i)
  BY <1>1, CollectedSame, EntrySame
<1>3. KeysInv'
  BY <1>1 DEF Deep, KeysInv
<1>4. TurnInv'
  BY <1>1, <1>2 DEF Deep, TurnInv, Shown, Calls
<1>5. ArchiveInv'
  BY <1>1 DEF Deep, ArchiveInv, Rows, Logged
<1>6. InjectionInv'
  BY <1>1 DEF Deep, InjectionInv, BehindResults
<1> QED  BY <1>3, <1>4, <1>5, <1>6 DEF Deep

LEMMA DeepInit == Init => Deep
<1> SUFFICES ASSUME Init PROVE Deep
  OBVIOUS
<1> DEFINE m == Msg("user", 0, 0, "text")
<1>1. m \in Message /\ m.role = "user" /\ m.turn = 0 /\ m.n = 0
  BY MsgFacts DEF Content
<1>2. /\ history = <<m>> /\ pc = "request" /\ turn = 0 /\ count = 0 /\ t2 = <<>>
      /\ steering = <<>> /\ followUp = <<>> /\ sent = 0
  BY DEF Init
<1> HIDE DEF m
<1>3. Len(history) = 1 /\ \A k \in 1..Len(history) : k = 1 /\ history[k] = m
  BY <1>1, <1>2
<1>4. Len(t2) = 0 /\ Len(steering) = 0 /\ Len(followUp) = 0
  BY <1>2
<1>5. KeysInv
  BY <1>1, <1>2, <1>3 DEF KeysInv
<1>6. TurnInv
  BY <1>2 DEF TurnInv
<1>7. ArchiveInv
  <2>1. Rows = {}  BY <1>4 DEF Rows
  <2>2. ASSUME NEW x PROVE x \notin KeptMessages(history)
    BY <1>1, <1>3, KeptMessageFacts
  <2>3. KeptMessages(history) = {}  BY <2>2
  <2> QED  BY <1>2, <1>4, <2>1, <2>3 DEF ArchiveInv
<1>8. \A k \in 1..Len(history) : ~Injected(history[k], "text") /\ ~Injected(history[k], "nudge")
  BY <1>1, <1>3 DEF Injected
<1>9. InjectionInv
  BY <1>2, <1>4, <1>8 DEF InjectionInv, QueueInv, Increasing, NudgesPlaced, BehindResults
<1> QED  BY <1>5, <1>6, <1>7, <1>9 DEF Deep

\* The order of the messages, the entries of the running turn, the rows of the
\* archive and the numbers in the queues, together, are kept by every step.
THEOREM DeepInvariance == Spec => [](Inv /\ Deep)
<1>1. Init => Inv /\ Deep
  BY InvInit, DeepInit
<1>2. Inv /\ Inv' /\ Deep /\ [Next]_vars => Deep'
  <2> SUFFICES ASSUME Inv, Inv', Deep, [Next]_vars PROVE Deep'
    OBVIOUS
  <2>1. CASE Request
    BY <2>1, DeepRequest
  <2>2. ASSUME NEW i \in Calls, Begin(i) \/ Execute(i) \/ Review(i) PROVE Deep'
    BY <2>2, DeepTools
  <2>3. CASE Collect
    BY <2>3, DeepCollect
  <2>4. CASE LogEntry
    BY <2>4, DeepLogEntry
  <2>5. CASE FinishHooks
    BY <2>5, DeepFinishHooks
  <2>6. CASE Steer
    BY <2>6, DeepSteer
  <2>7. CASE EndTurn
    BY <2>7, DeepEndTurn
  <2>8. CASE Send
    BY <2>8, DeepSend
  <2>9. CASE UNCHANGED vars
    BY <2>9, DeepStutter
  <2> QED
    BY <2>1, <2>2, <2>3, <2>4, <2>5, <2>6, <2>7, <2>8, <2>9 DEF Next, Loop
<1> QED
  BY <1>1, <1>2, Invariance, PTL DEF Spec

\* The T2 logger's promise, for batches of any size and any fault of the store:
\* the archive holds what the history holds, in its order and without a gap,
\* and all of it whenever a request is sent or the loop returns without error.
THEOREM ArchiveIsFaithful == Spec => []ArchiveMatchesHistory
<1>1. Inv /\ Deep => ArchiveMatchesHistory
  BY ArchiveFollows DEF Inv, Deep
<1> QED  BY <1>1, DeepInvariance, PTL

\* Steering and follow-up messages enter the history once and in the order in
\* which they were sent, however many are waiting, and a follow-up only behind
\* the results of a batch.
THEOREM InjectionIsOrdered == Spec => []InjectionOrder
<1>1. Inv /\ Deep => InjectionOrder
  BY InjectionFollows DEF Inv, Deep
<1> QED  BY <1>1, DeepInvariance, PTL

=============================================================================

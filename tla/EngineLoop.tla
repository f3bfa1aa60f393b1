----------------------------- MODULE EngineLoop -----------------------------
(***************************************************************************)
(* The agentic loop, internal/engine: RunLoop with its tool batches, the   *)
(* Aegis hooks around each call, the turn hooks RunSession registers (T2   *)
(* logger, budget monitor), steering and follow-up messages, and every way *)
(* out of the loop.                                                        *)
(*                                                                         *)
(* A call is named by its turn and its place in the turn's batch.  A tool  *)
(* is a name; Sequential, Terminating and External say how it was          *)
(* registered.  Contents are kinds: "critical" is what Aegis finds        *)
(* critical, "annotated" and "blocked" what its review makes of it.        *)
(***************************************************************************)
EXTENDS Integers, Sequences

CONSTANTS
    Tools,           \* registered tools
    Sequential,      \* those with ExecMode sequential
    Terminating,     \* those whose result signals Terminate
    External,        \* those with Destination external
    Texts,           \* what a response may say beside its calls, of {"empty", "text"}
    Outputs,         \* what a tool may return, of {"empty", "clean", "critical"}
    Costs,           \* tokens of one turn, prompt and completion
    Total,           \* TokenBudget.total; 0 switches the budget off
    HardFloor,       \* TokenBudget.hardFloor
    MaxIterations,   \* cfg.MaxIterations, 25 in RunSession
    MaxBatch,        \* bound: calls in one response
    MaxDrain,        \* maxSteeringDrain, 16 in the code
    MaxMessages,     \* bound: messages sent to either queue
    MaxFaults        \* bound: errors of the model's calls, the tools, Aegis, the store

ASSUME LoopAssumption ==
    /\ MaxIterations \in Nat \ {0} /\ MaxDrain \in Nat \ {0}
    /\ MaxBatch \in Nat /\ MaxMessages \in Nat /\ MaxFaults \in Nat
    /\ Total \in Nat /\ HardFloor \in Nat /\ Costs \subseteq Nat
    /\ Sequential \subseteq Tools /\ Terminating \subseteq Tools /\ External \subseteq Tools
    /\ Texts \subseteq {"empty", "text"} /\ Outputs \subseteq {"empty", "clean", "critical"}

VARIABLES
    pc,          \* where RunLoop is
    turn,        \* iterations
    history,     \* the message list
    batch,       \* tool calls of the last response
    text,        \* TextContent of the last response
    cost,        \* its tokens
    slot,        \* per call of the batch: the goroutine in executeSingleTool and its result
    count,       \* entries logged, then messages drained, in this turn
    t2,          \* experiential_logs rows of the session, in order
    used,        \* TokenBudget.used
    steering,    \* SteeringChan
    followUp,    \* FollowUpChan
    billed,      \* history variable: tokens of the responses that were not cut off
    sent,        \* history variable: messages sent so far
    faults       \* errors so far

vars == <<pc, turn, history, batch, text, cost, billed, slot, count, t2, used, steering, followUp,
          sent, faults>>
model == <<turn, batch, text, cost, billed>>
queues == <<steering, followUp, sent>>

-----------------------------------------------------------------------------
(* Messages, rows and results.  n is the number of calls of an assistant   *)
(* message, the place of the call a tool message answers, the number of a  *)
(* user message.                                                           *)

Content == {"empty", "clean", "critical", "annotated", "blocked", "error", "truncated", "text", "nudge"}
Message == [role : {"user", "assistant", "tool"}, turn : Nat, n : Nat, content : Content]
Returned == {"finished", "terminated", "stopped", "exhausted", "failed"}
Result == [phase : {"waiting", "running", "executed", "done"}, content : Content, ends : BOOLEAN]

Msg(role, t, n, content) == [role |-> role, turn |-> t, n |-> n, content |-> content]

\* The zero ToolResult of a call that has not been started.
Waiting == [phase |-> "waiting", content |-> "empty", ends |-> FALSE]
Done(content, ends) == [phase |-> "done", content |-> content, ends |-> ends]

Calls == 1..Len(batch)

\* executeToolCalls: one sequential tool makes the whole batch sequential, and
\* a single call is not worth a goroutine.
Serial == Len(batch) <= 1 \/ \E i \in Calls : batch[i] \in Sequential

\* TokenBudget.level.
Hard(u) == Total # 0 /\ (100 * u >= 95 * Total \/ Total - u <= HardFloor)

\* A call may fail: the outcome is chosen, and counted.
Fault == faults < MaxFaults /\ faults' = faults + 1
NoFault == faults' = faults

Batches == UNION {[1..n -> Tools] : n \in 0..MaxBatch}

-----------------------------------------------------------------------------
\* RunLoop up to its loop: the history is the request's one user message.
Init ==
    /\ pc = "request" /\ turn = 0
    /\ history = <<Msg("user", 0, 0, "text")>>
    /\ batch = <<>> /\ text = "empty" /\ cost = 0 /\ slot = <<>> /\ count = 0
    /\ t2 = <<>> /\ used = 0 /\ billed = 0
    /\ steering = <<>> /\ followUp = <<>> /\ sent = 0
    /\ faults = 0

\* Mutant: a truncated response is repeated without answering its calls.
RespondUnanswered(b, tx, c, finish) ==
    /\ turn' = turn + 1 /\ batch' = b /\ text' = tx /\ cost' = c
    /\ billed' = billed + (IF finish = "length" /\ b # <<>> THEN 0 ELSE c)
    /\ history' = Append(history, Msg("assistant", turn + 1, Len(b), tx))
    /\ slot' = IF finish = "length" THEN <<>> ELSE [i \in 1..Len(b) |-> Waiting]
    /\ pc' = IF b = <<>> THEN "hooks"
             ELSE IF finish # "length" THEN "tools"
             ELSE IF turn + 1 >= MaxIterations THEN "exhausted" ELSE "request"

\* A response.  One that was cut off has its calls answered without running
\* them, and goes round the loop before the hooks.
Respond(b, tx, c, finish) ==
    /\ turn' = turn + 1 /\ batch' = b /\ text' = tx /\ cost' = c
    /\ billed' = billed + (IF finish = "length" /\ b # <<>> THEN 0 ELSE c)
    /\ LET said == Append(history, Msg("assistant", turn + 1, Len(b), tx))
       IN  IF finish = "length" /\ b # <<>>
           THEN /\ history' = said \o [i \in 1..Len(b) |-> Msg("tool", turn + 1, i, "truncated")]
                /\ slot' = <<>>
                /\ pc' = IF turn + 1 >= MaxIterations THEN "exhausted" ELSE "request"
           ELSE /\ history' = said
                /\ slot' = [i \in 1..Len(b) |-> Waiting]
                /\ pc' = IF b = <<>> THEN "hooks" ELSE "tools"

\* client.Complete: a response, or an error that ends the loop.
Request ==
    /\ pc = "request"
    /\ \/ /\ \E b \in Batches, tx \in Texts, c \in Costs, finish \in {"stop", "length"} :
                Respond(b, tx, c, finish)
          /\ NoFault
       \/ /\ Fault /\ pc' = "failed" /\ turn' = turn + 1
          /\ UNCHANGED <<history, batch, text, cost, billed, slot>>
    /\ UNCHANGED <<count, t2, used, queues>>

\* A call of a sequential batch waits for the calls before it and is never
\* started after one that signalled Terminate.
MayStart(i) == Serial => \A k \in Calls : k < i => slot[k].phase = "done" /\ ~slot[k].ends

\* executeSingleTool to its execution: an unknown tool, malformed arguments,
\* an inbound scan that fails or finds something, answer with an error.
Begin(i) ==
    /\ pc = "tools" /\ slot[i].phase = "waiting" /\ MayStart(i)
    /\ \/ slot' = [slot EXCEPT ![i] = [@ EXCEPT !.phase = "running"]] /\ NoFault
       \/ slot' = [slot EXCEPT ![i] = Done("error", FALSE)] /\ Fault
    /\ UNCHANGED <<pc, model, history, count, t2, used, queues>>

\* The handler: a result, which may signal Terminate, or an error or timeout,
\* which is not reviewed.
Execute(i) ==
    /\ pc = "tools" /\ slot[i].phase = "running"
    /\ \/ \E out \in Outputs :
            /\ slot' = [slot EXCEPT ![i] = [phase |-> "executed", content |-> out,
                                            ends |-> batch[i] \in Terminating]]
            /\ NoFault
       \/ slot' = [slot EXCEPT ![i] = Done("error", FALSE)] /\ Fault
    /\ UNCHANGED <<pc, model, history, count, t2, used, queues>>

\* AfterToolCall, ReviewOutbound: critical content of an external tool is
\* replaced, of an internal tool annotated; an error of the review keeps it.
Reviewed(tool, content) ==
    CASE content # "critical" -> content
      [] content = "critical" /\ tool \in External -> "blocked"
      [] content = "critical" /\ tool \notin External -> "annotated"

Review(i) ==
    /\ pc = "tools" /\ slot[i].phase = "executed"
    /\ \/ slot' = [slot EXCEPT ![i] = Done(Reviewed(batch[i], @.content), @.ends)] /\ NoFault
       \/ slot' = [slot EXCEPT ![i] = Done(@.content, @.ends)] /\ Fault
    /\ UNCHANGED <<pc, model, history, count, t2, used, queues>>

\* The number of results executeToolCalls returns: all, or those up to the
\* Terminate that stopped a sequential batch, after which no call was started.
Collected ==
    IF Serial /\ \E i \in Calls : slot[i].ends
    THEN CHOOSE i \in Calls : slot[i].ends
    ELSE Len(batch)

\* Mutant: the batch waits for every call, started or not.
CollectAll ==
    /\ pc = "tools"
    /\ \A i \in Calls : slot[i].phase = "done"
    /\ history' = history \o [i \in 1..Collected |-> Msg("tool", turn, i, slot[i].content)]
    /\ pc' = "hooks"
    /\ UNCHANGED <<model, slot, count, t2, used, queues, faults>>

\* The tool messages, in the order of the calls whatever order they ended in.
Collect ==
    /\ pc = "tools"
    /\ \A i \in 1..Collected : slot[i].phase = "done"
    /\ history' = history \o [i \in 1..Collected |-> Msg("tool", turn, i, slot[i].content)]
    /\ pc' = "hooks"
    /\ UNCHANGED <<model, slot, count, t2, used, queues, faults>>

\* executeToolCalls: only a unanimous Terminate ends the loop.
Terminated == batch # <<>> /\ \A i \in 1..Collected : slot[i].ends

\* T2LoggerHook writes the text as entry 0, then the results; empty ones are
\* left out.
Entry(i) ==
    IF i = 0 THEN Msg("assistant", turn, Len(batch), text)
             ELSE Msg("tool", turn, i, slot[i].content)

\* Mutant: the T2 logger is advisory, its error a warning.
LogEntryAdvisory ==
    /\ pc = "hooks" /\ count <= Collected
    /\ \/ NoFault /\ t2' = IF Entry(count).content = "empty" THEN t2 ELSE Append(t2, Entry(count))
       \/ Fault /\ UNCHANGED t2
    /\ count' = count + 1
    /\ UNCHANGED <<pc, model, history, slot, used, queues>>

\* One AppendExperiential.  The logger is a critical hook: its error ends the
\* loop, whether or not the row was written.
LogEntry ==
    /\ pc = "hooks" /\ count <= Collected
    /\ \/ /\ t2' = IF Entry(count).content = "empty" THEN t2 ELSE Append(t2, Entry(count))
          /\ count' = count + 1
          /\ NoFault /\ UNCHANGED pc
       \/ /\ Entry(count).content # "empty"
          /\ t2' \in {t2, Append(t2, Entry(count))}
          /\ pc' = "failed"
          /\ Fault /\ UNCHANGED count
    /\ UNCHANGED <<model, history, slot, used, queues>>

\* The advisory hooks, of which the budget monitor keeps state, and the two
\* returns behind the hooks.
FinishHooks ==
    /\ pc = "hooks" /\ count > Collected
    /\ used' = used + cost
    /\ pc' = CASE batch = <<>> -> "finished"
               [] batch # <<>> /\ Terminated -> "terminated"
               [] batch # <<>> /\ ~Terminated -> "drain"
    /\ count' = 0
    /\ UNCHANGED <<model, history, slot, t2, queues, faults>>

\* One receive from SteeringChan.  Messages of another role than user are
\* dropped, and do not count.
Steer ==
    /\ pc = "drain" /\ steering # <<>> /\ count < MaxDrain
    /\ IF Head(steering).role = "user"
       THEN history' = Append(history, Head(steering)) /\ count' = count + 1
       ELSE UNCHANGED <<history, count>>
    /\ steering' = Tail(steering)
    /\ UNCHANGED <<pc, model, slot, t2, used, followUp, sent, faults>>

\* Mutant: a follow-up message is taken beside the steering messages.
FollowUpAlways == followUp # <<>>

\* FollowUpChan is looked at only when no steering message was accepted.
TakesFollowUp == count = 0 /\ followUp # <<>>

\* Mutant: ShouldStop looks at the last turn's tokens, not at the budget.
StopsOnTurn == Hard(cost)

\* ShouldStop, as RunSession defines it.
ShouldStop == Hard(used)

\* The end of the drain: at most one follow-up message, then ShouldStop and
\* MaxIterations.
EndTurn ==
    /\ pc = "drain" /\ (steering = <<>> \/ count >= MaxDrain)
    /\ IF TakesFollowUp
       THEN /\ followUp' = Tail(followUp)
            /\ history' = IF Head(followUp).role = "user" THEN Append(history, Head(followUp)) ELSE history
       ELSE UNCHANGED <<followUp, history>>
    /\ pc' = IF ShouldStop THEN "stopped"
             ELSE IF turn >= MaxIterations THEN "exhausted" ELSE "request"
    /\ count' = 0
    /\ UNCHANGED <<model, slot, t2, used, steering, sent, faults>>

\* The daemon or the keeper sends a message, of the right role or not.
Send ==
    /\ pc \notin Returned
    /\ sent < MaxMessages /\ sent' = sent + 1
    /\ \E role \in {"user", "assistant"} :
          \/ steering' = Append(steering, Msg(role, 0, sent + 1, "text")) /\ UNCHANGED followUp
          \/ followUp' = Append(followUp, Msg(role, 0, sent + 1, "nudge")) /\ UNCHANGED steering
    /\ UNCHANGED <<pc, model, history, slot, count, t2, used, faults>>

Loop == Request \/ (\E i \in Calls : Begin(i) \/ Execute(i) \/ Review(i)) \/ Collect
        \/ LogEntry \/ FinishHooks \/ Steer \/ EndTurn
Next == Loop \/ Send

Spec == Init /\ [][Next]_vars

\* The loop's goroutine and those of its tools run, and every call returns:
\* the client and the tools have timeouts.
FairSpec == Spec /\ WF_vars(Loop)

-----------------------------------------------------------------------------
(* Properties.                                                             *)

TypeOK ==
    /\ pc \in {"request", "tools", "hooks", "drain"} \cup Returned
    /\ turn \in Nat
    /\ history \in Seq(Message) /\ t2 \in Seq(Message)
    /\ batch \in Seq(Tools)
    /\ text \in {"empty", "text"} /\ cost \in Nat /\ used \in Nat /\ billed \in Nat
    /\ slot \in Seq(Result) /\ count \in Nat
    /\ steering \in Seq(Message) /\ followUp \in Seq(Message)
    /\ sent \in Nat /\ faults \in Nat

\* What a provider asks of a message list: right behind an assistant message
\* with n calls stand the answers to its calls 1 to n, and no message that is
\* not an answer has the tool role.  Checked whenever a request is sent, after
\* batches that ran in parallel, were truncated, failed or were blocked.  The
\* code does not keep it where a sequential batch of three stops at a Terminate
\* that is not unanimous: the loop goes on with the last call unanswered.
Answered(k) ==
    \A c \in 1..history[k].n :
        /\ k + c <= Len(history)
        /\ history[k + c].role = "tool"
        /\ history[k + c].turn = history[k].turn
        /\ history[k + c].n = c
Answers(k) ==
    /\ history[k].n < k
    /\ history[k - history[k].n].role = "assistant"
    /\ history[k].n <= history[k - history[k].n].n
WellPlaced(k) ==
    /\ history[k].role = "assistant" => Answered(k)
    /\ history[k].role = "tool" => Answers(k)
BatchesEndTogether == Sequential = {} \/ Terminating = {} \/ MaxBatch <= 2
EveryCallAnswered ==
    pc = "request" /\ BatchesEndTogether => \A k \in 1..Len(history) : WellPlaced(k)

\* The T2 logger is critical so that nothing the model goes on from is missing
\* in the archive.  T2 holds texts and results of the history, truncated turns
\* and empty ones apart, each once and in the order of the history, with no
\* gap; and when the next request is sent, and when the loop returns without
\* an error, all of them.
Truncated(h) == {h[k].turn : k \in {i \in 1..Len(h) : h[i].content = "truncated"}}
Kept(h) ==
    LET cut == Truncated(h)
    IN  {k \in 1..Len(h) : h[k].role # "user" /\ h[k].content # "empty" /\ h[k].turn \notin cut}
ArchiveMatchesHistory ==
    LET kept == Kept(history)
        rows == {t2[i] : i \in 1..Len(t2)}
    IN  /\ rows \subseteq {history[k] : k \in kept}
        /\ \A i \in 1..Len(t2) : \A k \in kept : t2[i] = history[k] =>
              \A j \in (i + 1)..Len(t2) : \A l \in kept : t2[j] = history[l] => k < l
        /\ \A k, l \in kept : k < l /\ history[l] \in rows => history[k] \in rows
        /\ pc \in {"request", "drain"} \cup (Returned \ {"failed"}) =>
              \A k \in kept : history[k] \in rows

\* No request is sent once the responses before it, those that were cut off
\* apart, have made the budget hard: every such response passes the budget monitor
\* once and before ShouldStop, whatever its calls did.  A response that was cut
\* off goes round before the hooks: its tokens are counted nowhere, and only
\* MaxIterations limits how many of them a session can pay for.
NoRequestWhenHard == pc = "request" => billed = 0 \/ ~Hard(billed)

\* MaxIterations bounds the responses of one loop, truncated ones included.
TurnsBounded == turn <= MaxIterations

\* Steering and follow-up messages reach the history at most once, each queue
\* in its own order, none of another role than user, and a follow-up only where
\* no steering message did.
Injected(m, content) == m.turn = 0 /\ m.n > 0 /\ m.content = content
Increasing(q, content) ==
    \A i, j \in 1..Len(q) :
        i < j /\ Injected(q[i], content) /\ Injected(q[j], content) => q[i].n < q[j].n
InjectionOrder ==
    /\ Increasing(history \o steering, "text") /\ Increasing(history \o followUp, "nudge")
    /\ \A k \in 1..Len(history) :
          /\ history[k].turn = 0 => history[k].role = "user"
          /\ Injected(history[k], "nudge") => k > 1 /\ history[k - 1].role = "tool"

\* RunLoop returns.
LoopReturns == <>(pc \in Returned)

=============================================================================

------------------------------ MODULE BotFleet ------------------------------
(***************************************************************************)
(* internal/botfleet/botfleet.go: each bot sends orders over one stream    *)
(* and a goroutine of its own receives the responses, matches them with    *)
(* the pending orders and records a metric; a bot that cannot open its     *)
(* stream falls back to unary calls.  Run joins the bots; the judge then   *)
(* drains what they pushed (internal/judge, drainRingBuffer).              *)
(*                                                                         *)
(* The buffer between them is the abstract queue MetricQueue, which        *)
(* RingBuffer implements.  An order is its sequence number.  The engine is *)
(* external: it answers in any order, late, twice, with ids nobody sent    *)
(* (order 0), or not at all, and it may end the stream at any time, also   *)
(* because it does not implement StreamOrders, which the client sees like  *)
(* a stream that ends before the first response.                           *)
(***************************************************************************)
EXTENDS RunStats

CONSTANTS
    Bots,
    Orders,      \* bound: orders each bot builds, a function on Bots
    Probes,      \* which of them the generator makes cancel probes (quantity 0)
    MaxReplies,  \* bound: responses on each bot's stream, a function on Bots
    Statuses,    \* what the engine answers
    Latencies,   \* what the clocks of a metric differ by
    Capacity,    \* slots of the ring buffer (500_000)
    Inputs,      \* samples of other runs, for StatisticsAgree
    None

ASSUME FleetBounds ==
    /\ Orders \in [Bots -> Nat]
    /\ Probes \in [Bots -> SUBSET Nat]
    /\ MaxReplies \in [Bots -> Nat]
    /\ Latencies \subseteq Int
    /\ Capacity \in Nat \ {0}
    /\ Inputs \subseteq Seq(Samples(Int))
ASSUME StatusAssumption == "error" \notin Statuses

VARIABLES
    fleet,     \* where the judge is: in botfleet.Run, draining, done
    ctx,       \* runCtx: "live" or "done"
    pc,        \* each bot's goroutine
    rpc,       \* its receive goroutine
    seq,       \* its last order
    pending,   \* its orders waiting for a response
    stream,    \* "none", "open" or "broken"
    wire,      \* the orders its engine has received
    replies,   \* the responses not yet received
    heard,     \* history: the responses received, by Recv or by PlaceOrder
    measured,  \* the metrics made from them, which Kafka's writer gets too
    items, out, refused,  \* the buffer
    samples,   \* what the drain has seen
    result     \* the statistics of the run

botVars == <<pc, seq>>
netVars == <<stream, wire, replies>>
bufVars == <<items, out, refused>>
judgeVars == <<fleet, samples, result>>
vars == <<ctx, botVars, rpc, pending, netVars, heard, measured, bufVars, judgeVars>>

\* The metric of a bot's n-th Push, as in RingBuffer.
Metrics == Bots \X Nat
Buffer == INSTANCE MetricQueue

Init ==
    /\ fleet = "start"
    /\ ctx = "live"
    /\ pc = [b \in Bots |-> "open"]
    /\ rpc = [b \in Bots |-> "none"]
    /\ seq = [b \in Bots |-> 0]
    /\ pending = [b \in Bots |-> {}]
    /\ stream = [b \in Bots |-> "none"]
    /\ wire = [b \in Bots |-> {}]
    /\ replies = [b \in Bots |-> <<>>]
    /\ heard = [b \in Bots |-> <<>>]
    /\ measured = [b \in Bots |-> <<>>]
    /\ Buffer!Init
    /\ samples = <<>>
    /\ result = None

Goto(b, label) == pc' = [pc EXCEPT ![b] = label]
GotoRecv(b, label) == rpc' = [rpc EXCEPT ![b] = label]

-----------------------------------------------------------------------------
(***************************************************************************)
(* A response becomes a metric                                             *)
(***************************************************************************)

\* A cancel probe must be rejected, any other order filled.
Verdict(b, order, status) ==
    IF status \in (IF order \in Probes[b] THEN {"REJECTED"}
                                        ELSE {"FILLED", "PARTIALLY_FILLED"})
      THEN "correct" ELSE "wrong"

\* The metric is pushed, which a full buffer refuses silently, and handed to
\* the writer of Kafka, which sends it in the background.
RecordMetric(b, order, status) ==
    /\ measured' = [measured EXCEPT ![b] =
         Append(@, [order |-> order, verdict |-> Verdict(b, order, status)])]
    /\ LET m == <<b, Len(measured[b]) + 1>>
       IN  Buffer!Accept(m) \/ Buffer!Refuse(m)

-----------------------------------------------------------------------------
(***************************************************************************)
(* runBot: the receive goroutine                                           *)
(***************************************************************************)

Response(b) == Last(heard[b])

Recv(b) ==
    /\ rpc[b] = "recv"
    /\ replies[b] # <<>>
    /\ heard' = [heard EXCEPT ![b] = Append(@, Head(replies[b]))]
    /\ replies' = [replies EXCEPT ![b] = Tail(@)]
    /\ GotoRecv(b, "lookup")
    /\ UNCHANGED <<ctx, botVars, pending, stream, wire, measured, bufVars, judgeVars>>

\* Faulty variant: the stream is opened under a context that never expires.
RecvErrorDetached(b) == stream[b] = "broken" /\ replies[b] = <<>>

\* The stream has ended, or the context has expired (with responses left or not).
RecvError(b) == (stream[b] = "broken" /\ replies[b] = <<>>) \/ ctx = "done"

RecvFails(b) ==
    /\ rpc[b] = "recv"
    /\ RecvError(b)
    /\ GotoRecv(b, "done")
    /\ UNCHANGED <<ctx, botVars, pending, netVars, heard, measured, bufVars, judgeVars>>

\* Faulty variant: the ok of the lookup is not looked at.
AfterLookupAny(b) == "record"

\* A response without a pending order is skipped.
AfterLookup(b) == IF Response(b).order \in pending[b] THEN "record" ELSE "recv"

\* Faulty variant: the entry is looked up and not deleted.
UnpendNot(b) == pending[b]

Unpend(b) == pending[b] \ {Response(b).order}

\* Under the mutex: take the order out of the pending ones, if it is there.
Lookup(b) ==
    /\ rpc[b] = "lookup"
    /\ GotoRecv(b, AfterLookup(b))
    /\ pending' = [pending EXCEPT ![b] = Unpend(b)]
    /\ UNCHANGED <<ctx, botVars, netVars, heard, measured, bufVars, judgeVars>>

Record(b) ==
    /\ rpc[b] = "record"
    /\ RecordMetric(b, Response(b).order, Response(b).status)
    /\ GotoRecv(b, "recv")
    /\ UNCHANGED <<ctx, botVars, pending, netVars, heard, judgeVars>>

Receiver(b) == Recv(b) \/ RecvFails(b) \/ Lookup(b) \/ Record(b)

-----------------------------------------------------------------------------
(***************************************************************************)
(* runBot: the bot's own goroutine                                         *)
(***************************************************************************)

\* StreamOrders; an error (no connection, expired context) means unary calls.
Open(b) ==
    /\ fleet = "running"
    /\ pc[b] = "open"
    /\ \/ /\ stream' = [stream EXCEPT ![b] = "open"]
          /\ GotoRecv(b, "recv")
          /\ Goto(b, "select")
       \/ /\ Goto(b, "unary")
          /\ UNCHANGED <<stream, rpc>>
    /\ UNCHANGED <<ctx, seq, pending, wire, replies, heard, measured, bufVars,
                   judgeVars>>

\* buildOrder: the next order.
BuildOrder(b) ==
    /\ seq[b] < Orders[b]
    /\ seq' = [seq EXCEPT ![b] = @ + 1]

\* The case <-ticker.C up to the Send: the order is registered first.  The
\* select may take this case with the context expired already.
Tick(b) ==
    /\ pc[b] = "select"
    /\ BuildOrder(b)
    /\ pending' = [pending EXCEPT ![b] = @ \cup {seq'[b]}]
    /\ Goto(b, "send")
    /\ UNCHANGED <<ctx, rpc, netVars, heard, measured, bufVars, judgeVars>>

\* Faulty variant: the cleanup of the error branch runs after every Send.
SendOkCleaning(b) ==
    /\ pc[b] = "send"
    /\ wire' = IF stream[b] = "open" THEN [wire EXCEPT ![b] = @ \cup {seq[b]}] ELSE wire
    /\ pending' = [pending EXCEPT ![b] = @ \ {seq[b]}]
    /\ Goto(b, "select")
    /\ UNCHANGED <<ctx, seq, rpc, stream, replies, heard, measured, bufVars,
                   judgeVars>>

\* Send returns nil, also while the end of the stream has not been noticed yet.
SendOk(b) ==
    /\ pc[b] = "send"
    /\ wire' = IF stream[b] = "open" THEN [wire EXCEPT ![b] = @ \cup {seq[b]}] ELSE wire
    /\ Goto(b, "select")
    /\ UNCHANGED <<ctx, seq, rpc, pending, stream, replies, heard, measured,
                   bufVars, judgeVars>>

\* Faulty variant: CloseSend without waiting for the receiver.
CloseLabelUnjoined == "returned"

\* CloseSend, then <-recvDone.
CloseLabel == "closing"

\* Send returns an error: the order is withdrawn and the bot gives up.
SendFails(b) ==
    /\ pc[b] = "send"
    /\ ctx = "done" \/ stream[b] = "broken"
    /\ pending' = [pending EXCEPT ![b] = @ \ {seq[b]}]
    /\ Goto(b, CloseLabel)
    /\ UNCHANGED <<ctx, seq, rpc, netVars, heard, measured, bufVars, judgeVars>>

\* The case <-ctx.Done() of both loops.
CtxDone(b) ==
    /\ ctx = "done"
    /\ \/ pc[b] = "select" /\ Goto(b, CloseLabel)
       \/ pc[b] = "unary" /\ Goto(b, "returned")
    /\ UNCHANGED <<ctx, seq, rpc, pending, netVars, heard, measured, bufVars,
                   judgeVars>>

\* The receiver has closed recvDone.
RecvDone(b) ==
    /\ pc[b] = "closing"
    /\ rpc[b] = "done"
    /\ Goto(b, "returned")
    /\ UNCHANGED <<ctx, seq, rpc, pending, netVars, heard, measured, bufVars,
                   judgeVars>>

-----------------------------------------------------------------------------
(***************************************************************************)
(* runBotUnary                                                             *)
(***************************************************************************)

TickUnary(b) ==
    /\ pc[b] = "unary"
    /\ BuildOrder(b)
    /\ Goto(b, "calling")
    /\ UNCHANGED <<ctx, rpc, pending, netVars, heard, measured, bufVars, judgeVars>>

\* PlaceOrder returns; an error is recorded as a wrong response.
Called(b, status) ==
    /\ pc[b] = "calling"
    /\ heard' = [heard EXCEPT ![b] = Append(@, [order |-> seq[b], status |-> status])]
    /\ RecordMetric(b, seq[b], status)
    /\ Goto(b, "unary")
    /\ UNCHANGED <<ctx, seq, rpc, pending, netVars, judgeVars>>

PlaceOrder(b) == \E status \in Statuses \cup {"error"} : Called(b, status)

\* The context expires during the call.
PlaceOrderCut(b) == ctx = "done" /\ Called(b, "error")

Bot(b) ==
    \/ Open(b) \/ Tick(b) \/ SendFails(b) \/ CtxDone(b) \/ RecvDone(b)
    \/ TickUnary(b) \/ PlaceOrderCut(b)

-----------------------------------------------------------------------------
(***************************************************************************)
(* The engine and the network                                              *)
(***************************************************************************)

\* A response with an id that nobody sent; its status is never looked at.
Unknown == [order |-> 0, status |-> "error"]

\* The engine answers an order it has received, or one that nobody sent.
Answer(b) ==
    /\ stream[b] = "open"
    /\ Len(heard[b]) + Len(replies[b]) < MaxReplies[b]
    /\ \E response \in [order : wire[b], status : Statuses] \cup {Unknown} :
         replies' = [replies EXCEPT ![b] = Append(@, response)]
    /\ UNCHANGED <<ctx, botVars, rpc, pending, stream, wire, heard, measured, bufVars,
                   judgeVars>>

\* The stream ends; responses that have not arrived are lost.
StreamEnds(b) ==
    /\ stream[b] = "open"
    /\ stream' = [stream EXCEPT ![b] = "broken"]
    /\ \E k \in 0..Len(replies[b]) : replies' = [replies EXCEPT ![b] = SubSeq(@, 1, k)]
    /\ UNCHANGED <<ctx, botVars, rpc, pending, wire, heard, measured, bufVars, judgeVars>>

-----------------------------------------------------------------------------
(***************************************************************************)
(* Run, and the judge after it                                             *)
(***************************************************************************)

\* Dial and make the producer; an error ends Run before any bot starts.
Start ==
    /\ fleet = "start"
    /\ fleet' \in {"running", "failed"}
    /\ UNCHANGED <<ctx, botVars, rpc, pending, netVars, heard, measured, bufVars, samples,
                   result>>

\* cfg.Duration has passed, or the caller's context is done.
Expire ==
    /\ fleet = "running"
    /\ ctx = "live"
    /\ ctx' = "done"
    /\ UNCHANGED <<botVars, rpc, pending, netVars, heard, measured, bufVars, judgeVars>>

\* wg.Wait
Join ==
    /\ fleet = "running"
    /\ \A b \in Bots : pc[b] = "returned"
    /\ fleet' = "joined"
    /\ UNCHANGED <<ctx, botVars, rpc, pending, netVars, heard, measured, bufVars, samples,
                   result>>

\* drainRingBuffer takes the next metric.  What its two clock readings differ
\* by plays no part in any earlier step and is chosen here.
Drain ==
    /\ fleet \in {"joined", "failed"}
    /\ Buffer!Take
    /\ \E us \in Latencies :
         samples' = Append(samples, [us |-> us,
           verdict |-> measured[Head(items)[1]][Head(items)[2]].verdict])
    /\ UNCHANGED <<ctx, botVars, rpc, pending, netVars, heard, measured, fleet, result>>

\* The buffer is empty: the statistics of the run.
Summarise ==
    /\ fleet \in {"joined", "failed"}
    /\ items = <<>>
    /\ result' = LocalStats(samples)
    /\ fleet' = "done"
    /\ UNCHANGED <<ctx, botVars, rpc, pending, netVars, heard, measured, bufVars, samples>>

Judge == Start \/ Join \/ Drain \/ Summarise

Finished == fleet = "done" /\ UNCHANGED vars

Next ==
    \/ \E b \in Bots : Bot(b) \/ Receiver(b) \/ SendOk(b) \/ PlaceOrder(b)
    \/ \E b \in Bots : Answer(b) \/ StreamEnds(b)
    \/ Expire
    \/ Judge
    \/ Finished

\* The goroutines keep being scheduled and the run's context has a deadline.
\* Nothing is assumed of the engine: it may never answer, and a Send may block
\* on flow control until the context expires.
Fairness ==
    /\ \A b \in Bots : WF_vars(Bot(b)) /\ WF_vars(Receiver(b))
    /\ WF_vars(Expire)
    /\ WF_vars(Judge)

Spec == Init /\ [][Next]_vars /\ Fairness

-----------------------------------------------------------------------------
(***************************************************************************)
(* Properties                                                              *)
(***************************************************************************)

Responses == [order : Nat, status : Statuses \cup {"error"}]

TypeOK ==
    /\ fleet \in {"start", "running", "joined", "failed", "done"}
    /\ ctx \in {"live", "done"}
    /\ pc \in [Bots -> {"open", "select", "send", "closing", "unary", "calling", "returned"}]
    /\ rpc \in [Bots -> {"none", "recv", "lookup", "record", "done"}]
    /\ stream \in [Bots -> {"none", "open", "broken"}]
    /\ \A b \in Bots :
         /\ seq[b] \in 0..Orders[b]
         /\ pending[b] \subseteq 1..seq[b]
         /\ wire[b] \subseteq 1..seq[b]
         /\ replies[b] \in Seq(Responses)
         /\ heard[b] \in Seq(Responses)
         /\ measured[b] \in Seq([order : 1..seq[b], verdict : Verdicts])
    /\ items \in Seq(Metrics) /\ Len(items) <= Capacity
    /\ samples \in Seq(Samples(Latencies))

\* The responses the bot has dealt with, the one in its hand left out.
Handled(b) == IF rpc[b] \in {"lookup", "record"} THEN Front(heard[b]) ELSE heard[b]

\* The first response of an order.
FirstResponse(b, order) ==
    heard[b][CHOOSE k \in DOMAIN heard[b] :
        /\ heard[b][k].order = order
        /\ \A j \in 1..(k - 1) : heard[b][j].order # order]

\* An order is measured at most once, by the first response received for it:
\* duplicates, late responses and responses with an unknown id change nothing.
\* And no response overtakes the registration of its order: every order that was
\* answered is measured, however fast the engine is.
FirstResponseCounts ==
    \A b \in Bots :
        /\ \A k \in DOMAIN measured[b] :
             LET order == measured[b][k].order
             IN  /\ \A j \in DOMAIN measured[b] : measured[b][j].order = order => j = k
                 /\ \E j \in DOMAIN heard[b] : heard[b][j].order = order
                 /\ measured[b][k].verdict = Verdict(b, order, FirstResponse(b, order).status)
        /\ \A k \in DOMAIN Handled(b) :
             heard[b][k].order # 0 =>
                 \E j \in DOMAIN measured[b] : measured[b][j].order = heard[b][k].order

\* Once Run has returned no bot and no receiver is left that could record a
\* metric.
JoinedIsQuiet ==
    fleet \in {"joined", "failed", "done"} =>
        \A b \in Bots : pc[b] \in {"open", "returned"} /\ rpc[b] \in {"none", "done"}

\* The result is about every metric that was made, except the ones a full buffer
\* refused, each once.
CountsEverything ==
    fleet = "done" =>
        /\ \A b \in Bots : \A k \in DOMAIN measured[b] :
             Cardinality({j \in DOMAIN out : out[j] = <<b, k>>}) =
               (IF <<b, k>> \in refused THEN 0 ELSE 1)
        /\ result.count = Len(out)
        /\ result.correct = Cardinality({j \in DOMAIN out :
             measured[out[j][1]][out[j][2]].verdict = "correct"})

\* Nothing is recorded behind the judge's back, its result counts every metric
\* that was made and not refused once, and its percentiles are right.
ResultIsComplete ==
    /\ JoinedIsQuiet
    /\ CountsEverything
    /\ fleet = "done" => PercentilesAt(result, Measured(samples))

\* The percentiles of a run have their share of its latencies below them
\* (judge.go:379), and a leaderboard window over the same samples counts what the
\* run counts, with its minimum and maximum around them (aggregator.go:129):
\* the two computations differ only for clocks that went backwards.  The samples
\* are those of the run and the inputs, which are looked at once, at the start.
StatisticsAgree ==
    \A input \in CASE fleet = "start" -> Inputs
                   [] fleet = "done"  -> {samples}
                   [] OTHER           -> {} :
        Agree(input)

\* The fleet always comes to an end, whatever the engine does: a silent engine,
\* a blocked Send or a broken stream keeps no bot and no receiver waiting.
FleetEnds == <>(fleet = "done")
=============================================================================

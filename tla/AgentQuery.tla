------------------------------ MODULE AgentQuery ------------------------------
(***************************************************************************)
(* query of agent/mod.rs: a statement, run and rendered within a budget of  *)
(* rows, bytes and time.                                                    *)
(*                                                                         *)
(* The future (pc) waits for the submission, for fetchmany_arrow or for a   *)
(* blocking worker that renders (AgentRender); between two of its awaits it *)
(* is one step.  The timer of the deadline, and a caller that drops the     *)
(* future, end it at any await.  A worker that has started goes on until it *)
(* looks at its interrupt.                                                  *)
(*                                                                         *)
(* The ResultStream is what ResultStream.tla promises of fetchmany: the     *)
(* rows in order, fewer than asked for only at the end.                     *)
(***************************************************************************)
EXTENDS AgentRender, AgentDiagnostics, InFlight

CONSTANTS
  Batch,   \* the 128 rows asked for at a time
  Messages \* what a failure may say, and what its category and class take

\* The longest category and next step leave room for a message.
ASSUME BatchAssumption == Batch \in Nat \ {0}
ASSUME MessagesAssumption ==
  /\ Messages # {} /\ Messages \subseteq [text : Seq(Runs), fixed : Nat, class : Nat]
  /\ \A m \in Messages : m.fixed + Truncated <= 256

VARIABLES
  late,        \* the deadline has passed
  pc,          \* what the future waits for
  pulled,      \* rows the stream has decoded
  taken,       \* rows fetchmany_arrow has returned
  exhausted,   \* ResultStream.exhausted
  worker,      \* the blocking task
  queue,       \* the row counts of the batches it has not pushed
  unrendered,  \* unrendered_rows
  interrupted, \* CancelOnDrop.interrupted
  hook,        \* CancelOnDrop.hook: none, armed, fired or defused
  hint,        \* QueryStatsAccumulator.outcome
  reports,     \* the outcomes sent to the event sink
  answer       \* what the caller has

streamVars == <<pulled, taken, exhausted>>
workVars == <<worker, queue, unrendered>>
cancelVars == <<interrupted, hook, hint>>
endVars == <<inFlightVars, reports, answer>>
vars == <<renderVars, late, pc, streamVars, workVars, cancelVars, endVars>>

Total == Len(result.rows)
Submission == {"submit", "poll"}
Outcomes == {"success", "error", "cancelled", "timeout"}
Answers == [kind : {"none", "output", "dropped"}, wholly : BOOLEAN]
           \cup [kind : {"error", "timeout"}, message : Messages]

\* The types of the code's variables; that none of its unsigned subtractions
\* (the bytes left for a row, for a cell and for its next piece) goes below zero.
TypeOK ==
  /\ NumbersOK /\ FlagsOK
  /\ Available \in Nat
  /\ late \in BOOLEAN
  /\ pc \in {"submit", "poll", "fetch", "render", "look", "over"}
  /\ InFlightTypeOK
  /\ pulled \in 0..Total /\ taken \in 0..Total /\ taken <= pulled
  /\ exhausted \in BOOLEAN
  /\ worker \in {"none", "queued", "running", "done", "failed"}
  /\ queue \in Seq(Nat)
  /\ unrendered \in BOOLEAN /\ interrupted \in BOOLEAN
  /\ hook \in {"none", "armed", "fired", "defused"}
  /\ hint \in {"unset", "cancelled", "timeout"}
  /\ reports \in Seq(Outcomes)
  /\ answer \in Answers

Init ==
  /\ RenderInit
  /\ late = FALSE /\ pc = "submit" /\ InFlightInit
  /\ pulled = 0 /\ taken = 0 /\ exhausted = FALSE
  /\ worker = "none" /\ queue = <<>> /\ unrendered = FALSE
  /\ interrupted = FALSE /\ hook = "none" /\ hint = "unset"
  /\ reports = <<>> /\ answer = [kind |-> "none", wholly |-> FALSE]

-----------------------------------------------------------------------------
(* The end of a query                                                       *)

\* StatsReporter::finish: the first outcome wins.
Finish(outcome) == reports' = IF reports = <<>> THEN <<outcome>> ELSE reports

\* CancelOnDrop::fire: the hook leaves its hint before it asks the server.
Fire(outcome) ==
  /\ interrupted' = TRUE
  /\ IF hook = "armed"
     THEN hook' = "fired" /\ hint' = IF hint = "unset" THEN outcome ELSE hint
     ELSE UNCHANGED <<hook, hint>>

Output(wholly) == answer' = [kind |-> "output", wholly |-> wholly]
ErrorJson(kind) == \E message \in Messages : answer' = [kind |-> kind, message |-> message]

\* The Err arm: the time is read for the report, and again for the answer.
Fail ==
  /\ pc' = "over"
  /\ late' \in {late, TRUE}
  /\ Fire(IF late' THEN "timeout" ELSE "cancelled")
  /\ ErrorJson(IF late' THEN "timeout" ELSE "error")

\* The work is dropped with an await pending: a statement in flight is cancelled if
\* its handle is known, the stream reports, a worker that has not started never
\* does.
DropWork(outcome) ==
  /\ IF pc \in Submission THEN UNCHANGED reports ELSE Finish(outcome)
  /\ \/ pc = "submit" /\ AbandonPost
     \/ pc = "poll" /\ CancelInFlight
     \/ pc \notin Submission /\ UNCHANGED inFlightVars
  /\ worker' = IF worker = "running" THEN "running" ELSE "none"
  /\ UNCHANGED <<queue, unrendered>>

-----------------------------------------------------------------------------
(* Mutants                                                                  *)

\* The work is dropped before the hook has left its hint.
DeadlineDropsFirst ==
  /\ late
  /\ pc # "over"
  /\ pc' = "over"
  /\ DropWork(IF hint = "unset" THEN "cancelled" ELSE hint)
  /\ Fire("timeout")
  /\ ErrorJson("timeout")
  /\ UNCHANGED <<renderVars, late, streamVars>>

\* The timer is set up behind the submission.
DeadlineOfFetch ==
  /\ pc \notin Submission
  /\ late
  /\ pc # "over"
  /\ pc' = "over"
  /\ Fire("timeout")
  /\ DropWork("timeout")
  /\ ErrorJson("timeout")
  /\ UNCHANGED <<renderVars, late, streamVars>>

\* Exhaustion alone is taken for the whole result.
WhollyIfExhausted(found, omitted) == ~omitted /\ exhausted' /\ taken' = pulled'

\* Any output defuses the hook.
DecideDefused(wholly) ==
  /\ pc' = "over"
  /\ UNCHANGED late
  /\ IF late THEN Finish("timeout") /\ Fire("timeout") /\ ErrorJson("timeout")
     ELSE Finish("success") /\ Output(wholly) /\ hook' = "defused" /\ interrupted' = TRUE /\ UNCHANGED hint

-----------------------------------------------------------------------------
(* Submission and fetches                                                   *)

\* The deadline passes.
Late == ~late /\ pc # "over" /\ late' = TRUE
        /\ UNCHANGED <<renderVars, pc, streamVars, workVars, cancelVars, endVars>>

\* The handle arrives ...
Accepted ==
  /\ pc = "submit"
  /\ pc' = "poll"
  /\ Heard
  /\ UNCHANGED <<renderVars, late, streamVars, workVars, cancelVars, reports, answer>>

ServerFinishes ==
  /\ StatementEnds
  /\ UNCHANGED <<renderVars, late, pc, streamVars, workVars, cancelVars, reports, answer>>

\* ... the statement is found terminal: the stream is there, and its hook.
Submitted ==
  /\ pc = "poll" /\ statement = "finished"
  /\ pc' = "fetch"
  /\ hook' = "armed"
  /\ UNCHANGED <<renderVars, late, streamVars, workVars, interrupted, hint, endVars>>

\* report_submit_error, of a request whose answer may be lost; of a statement that
\* has failed; of a poll that has, which leaves the statement in flight.
SubmitFails ==
  /\ \/ pc = "submit" /\ Unheard
     \/ pc = "poll" /\ statement = "finished" /\ UNCHANGED inFlightVars
     \/ pc = "poll" /\ CancelInFlight
  /\ Finish("error")
  /\ Fail
  /\ UNCHANGED <<renderVars, streamVars, workVars>>

\* What was spawned for the statement goes on by itself.
CleanUp ==
  /\ CleanupStep
  /\ UNCHANGED <<renderVars, late, pc, streamVars, workVars, cancelVars, reports, answer>>

\* fetchmany_arrow(want): chunks are pulled until there are rows enough or no
\* more chunks; where a chunk does not say how many rows it has, its end may be
\* met although there are enough.
Fetchmany(want) ==
  /\ IF exhausted \/ pulled - taken >= want
     THEN UNCHANGED <<pulled, exhausted>>
     ELSE \E p \in pulled..Total, e \in BOOLEAN :
            /\ e => p = Total
            /\ e \/ p - taken >= want
            /\ pulled' = p /\ exhausted' = e
  /\ taken' = LeastOf(taken + want, pulled')

Want == LeastOf(Batch, IF phase = "none" THEN MaxRows ELSE MaxRows - rows)

\* The rows come in batches, one of them may be empty.
Batches(n) == {<<k, n - k>> : k \in 0..n} \cup IF n = 0 THEN {<<>>} ELSE {}

\* ... and a worker is spawned to render them.
Fetched ==
  /\ pc = "fetch"
  /\ Fetchmany(Want)
  /\ queue' \in Batches(taken' - taken)
  /\ worker' = "queued"
  /\ pc' = "render"
  /\ UNCHANGED <<renderVars, late, unrendered, cancelVars, endVars>>

\* PoisonOnDrop::fail reports the error before the Err arm looks at the time.
FetchFails ==
  /\ pc \in {"fetch", "look"}
  /\ Finish("error")
  /\ Fail
  /\ UNCHANGED <<renderVars, streamVars, workVars, inFlightVars>>

-----------------------------------------------------------------------------
(* The blocking worker                                                      *)

WorkerOnly == UNCHANGED <<late, pc, streamVars, unrendered, cancelVars, endVars>>

WorkerStart ==
  /\ worker = "queued"
  /\ worker' = "running"
  /\ UNCHANGED <<queue, renderVars>>
  /\ WorkerOnly

Interrupted == CheckDue /\ (interrupted \/ late)

\* The next batch is pushed, or the one in progress goes on.
WorkerRenders ==
  /\ worker = "running"
  /\ ~Interrupted
  /\ \/ (NewRenderer \/ RenderStep) /\ UNCHANGED queue
     \/ queue # <<>> /\ StartBatch(Head(queue)) /\ queue' = Tail(queue)
  /\ UNCHANGED worker
  /\ WorkerOnly

\* Nobody waits for a worker whose query is over.
WorkerIsOver(how) ==
  /\ worker = "running"
  /\ worker' = IF pc = "over" THEN "none" ELSE how
  /\ UNCHANGED <<queue, renderVars>>
  /\ WorkerOnly

WorkerDone == WorkerIsOver("done") /\ (phase = "stopped" \/ (phase = "idle" /\ queue = <<>>))
WorkerFails == WorkerIsOver("failed") /\ (phase = "failed" \/ Interrupted)

-----------------------------------------------------------------------------
(* What is rendered, and whether it is all                                  *)

Wholly(found, omitted) == ~found /\ ~omitted /\ exhausted' /\ taken' = pulled'

\* finish, and a last look at the time.
Decide(wholly) ==
  /\ pc' = "over"
  /\ UNCHANGED late
  /\ IF late THEN Finish("timeout") /\ Fire("timeout") /\ ErrorJson("timeout")
     ELSE /\ Finish("success")
          /\ Output(wholly)
          /\ IF wholly THEN hook' = "defused" /\ interrupted' = TRUE /\ UNCHANGED hint ELSE Fire("cancelled")

\* The worker has come back: a row beyond the last one shown is looked for, or
\* there is more to fetch, or this is all.
Rendered ==
  LET stopped == phase = "stopped"
      omitted == unrendered \/ (stopped /\ (left > 0 \/ \E i \in DOMAIN queue : queue[i] > 0))
  IN  /\ pc = "render"
      /\ worker = "done"
      /\ worker' = "none"
      /\ unrendered' = omitted
      /\ UNCHANGED <<renderVars, streamVars, queue, inFlightVars>>
      /\ \/ rows >= MaxRows /\ pc' = "look" /\ UNCHANGED <<late, cancelVars, reports, answer>>
         \/ /\ rows < MaxRows
            /\ stopped \/ (exhausted /\ pulled = taken)
            /\ Decide(Wholly(FALSE, omitted))
         \/ /\ rows < MaxRows
            /\ ~stopped /\ (~exhausted \/ pulled # taken)
            /\ pc' = "fetch" /\ UNCHANGED <<late, cancelVars, reports, answer>>

RenderFails ==
  /\ pc = "render"
  /\ worker = "failed"
  /\ worker' = "none"
  /\ Finish(IF late THEN "timeout" ELSE "error")
  /\ Fail
  /\ UNCHANGED <<renderVars, streamVars, queue, unrendered, inFlightVars>>

\* One row proves that the result is larger.
Looked ==
  /\ pc = "look"
  /\ Fetchmany(1)
  /\ Decide(Wholly(taken' > taken, unrendered))
  /\ UNCHANGED <<renderVars, workVars, inFlightVars>>

-----------------------------------------------------------------------------
(* The deadline, and a caller that leaves                                   *)

\* The timer's arm: the hook first, then the work is dropped.
Deadline ==
  /\ late
  /\ pc # "over"
  /\ pc' = "over"
  /\ Fire("timeout")
  /\ DropWork(IF hint' = "unset" THEN "cancelled" ELSE hint')
  /\ ErrorJson("timeout")
  /\ UNCHANGED <<renderVars, late, streamVars>>

\* The future is dropped: the work goes before the CancelOnDrop.
DropQuery ==
  /\ pc # "over"
  /\ pc' = "over"
  /\ DropWork(IF hint = "unset" THEN "cancelled" ELSE hint)
  /\ Fire("cancelled")
  /\ answer' = [kind |-> "dropped", wholly |-> FALSE]
  /\ UNCHANGED <<renderVars, late, streamVars>>

-----------------------------------------------------------------------------
WorkerStep == WorkerStart \/ WorkerRenders \/ WorkerDone \/ WorkerFails
Work == Rendered \/ RenderFails
Answered == Accepted \/ ServerFinishes \/ Submitted \/ SubmitFails \/ Fetched \/ FetchFails \/ Looked

Next == Late \/ Work \/ Answered \/ WorkerStep \/ Deadline \/ DropQuery \/ CleanUp

Spec == Init /\ [][Next]_vars

\* The blocking thread runs, time passes (total_timeout_s is finite) and the
\* timer is polled; neither server nor source is assumed to answer.
FairSpec == Spec /\ WF_vars(WorkerStep) /\ WF_vars(Late) /\ WF_vars(Deadline)

-----------------------------------------------------------------------------
(* Properties                                                               *)

\* The answer keeps max_bytes with its footer, whatever the widths of header,
\* cells and escapes.
WithinBudget == answer.kind = "output" => output + Footer(answer.wholly) <= MaxBytes

\* An error keeps max_bytes as well, and is cut no shorter than it must be.
ErrorFits ==
  answer.kind \in {"error", "timeout"} =>
    LET m == answer.message
        e == error_json(m.text, m.fixed, m.class, MaxBytes)
    IN  /\ e.bytes <= MaxBytes
        /\ \A byte \in 1..Utf8Length(m.text) :
             Before(m.text, byte).chars = e.chars + 1 =>
               m.fixed + Truncated + Before(m.text, byte).json > MaxBytes

\* The footer tells the truth of a preview: an exact total is the number of rows
\* of the result, `>=' only stands where there are rows that are not shown (or
\* the header takes the room), and cells are called truncated if and only if a
\* character of a row that is shown is missing.
SaysWhatItShows ==
  answer.kind = "output" =>
    /\ Exact(answer.wholly) => rows = Total
    /\ ~Exact(answer.wholly) => rows < Total \/ result.header > MaxBytes - FOOTER_RESERVE
    /\ cellsTruncated <=> lost

\* The event sink hears one outcome, and the one the answer gives; nothing of a
\* query that was given up during its submission.  An error that meets the
\* deadline is reported as the error, and answered as a timeout.
OutcomeAgrees ==
  /\ Len(reports) <= 1
  /\ pc # "over" => reports = <<>>
  /\ answer.kind = "output" => reports = <<"success">>
  /\ answer.kind = "error" => reports = <<"error">>
  /\ answer.kind = "timeout" =>
       IF hook = "none" THEN reports \in {<<>>, <<"error">>} ELSE reports \in {<<"timeout">>, <<"error">>}
  /\ answer.kind = "dropped" => reports = IF hook = "none" THEN <<>> ELSE <<"cancelled">>

\* A query that is over leaves nothing behind at the server that it knows of: a
\* statement that still runs is being cancelled, or one whose result was not
\* fetched to its end has been asked to.  Only a statement whose handle has not
\* arrived, or whose cancellation has failed, may run on.
StatementNotLeft ==
  pc = "over" =>
    /\ LetGo
    /\ hook # "armed"
    /\ hook = "defused" => exhausted /\ taken = Total /\ answer.kind = "output"

\* Every query ends, also one whose server never answers, and no worker goes on
\* rendering for nobody.
QueryEnds == pc = "submit" ~> pc = "over" /\ worker = "none"
=============================================================================

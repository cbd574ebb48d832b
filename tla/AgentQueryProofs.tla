--------------------------- MODULE AgentQueryProofs ---------------------------
(***************************************************************************)
(* Proofs about AgentQuery, for every result, budget and batch: the types,  *)
(* with that no subtraction goes below zero; the budget of an answer; that  *)
(* report and answer agree; that nothing is left behind at the server.      *)
(***************************************************************************)
EXTENDS AgentQuery, SequenceTheorems, WellFoundedInduction, TLAPS

-----------------------------------------------------------------------------
(* The renderer                                                             *)

\* The output leaves the footer its reserve; a cell the closing quote, marker and
\* delimiter; a row in progress is one the batch and max_rows have.
Room ==
  /\ output + FOOTER_RESERVE <= MaxBytes
  /\ phase = "cell" => scratch + budget + Reserve <= Available
  /\ phase \in {"column", "cell"} => rows < MaxRows /\ left > 0

RenderInv == NumbersOK /\ Room

LEMMA PiecesAreBytes ==
  ASSUME NEW char
  PROVE  Pieces(char)[1] \in Nat /\ Pieces(char)[2] \in Nat
  <1>1. Pieces(char) \in {<<1, 0>>, <<4, 0>>, <<5, 0>>, <<1, 1>>, <<2, 0>>, <<6, 0>>}
    BY DEF Pieces
  <1> QED BY <1>1

LEMMA ResultType == NumbersOK => result.header \in Nat /\ Total \in Nat
  BY ResultsAssumption DEF NumbersOK, Total, ResultsAssumption

LEMMA WrittenWithin ==
  ASSUME NEW char, budget \in Nat
  PROVE  /\ Written(char) \in Nat
         /\ Fits(char) => Written(char) <= budget
  <1>1. PICK p \in Nat, q \in Nat : p = Pieces(char)[1] /\ q = Pieces(char)[2]
    BY PiecesAreBytes
  <1>2. Written(char) = IF p > budget THEN 0 ELSE IF p + q > budget THEN p ELSE p + q
    BY <1>1 DEF Written
  <1>3. Fits(char) <=> p + q <= budget
    BY <1>1 DEF Fits
  <1> QED BY <1>2, <1>3

LEMMA FooterFits ==
  ASSUME NumbersOK, NEW wholly
  PROVE  Footer(wholly) \in Nat /\ Footer(wholly) <= FOOTER_RESERVE
  <1>1. Decimal[rows] \in 1..19
    BY BudgetAssumption DEF NumbersOK, BudgetAssumption
  <1>2. /\ (IF Complete(wholly) THEN 4 ELSE 5) \in 4..5
        /\ (IF Complete(wholly) THEN 0 ELSE 44) \in 0..44
        /\ (IF Exact(wholly) THEN 1 ELSE 2) \in 1..2
        /\ (IF cellsTruncated THEN 22 ELSE 0) \in 0..22
    OBVIOUS
  <1> QED BY <1>1, <1>2 DEF Footer, FOOTER_RESERVE

LEMMA RenderInitInv == RenderInit => RenderInv /\ FlagsOK
  <1>1. RenderInit => NumbersOK
    BY BudgetAssumption DEF RenderInit, NumbersOK, Phases, BudgetAssumption
  <1>2. RenderInit => FlagsOK
    BY DEF RenderInit, FlagsOK
  <1>3. RenderInit => Room
    BY BudgetAssumption DEF RenderInit, Room, BudgetAssumption, FOOTER_RESERVE
  <1> QED BY <1>1, <1>2, <1>3 DEF RenderInv

LEMMA NewRendererInv == RenderInv /\ NewRenderer => RenderInv'
  <1> SUFFICES ASSUME RenderInv, NewRenderer PROVE RenderInv'
    OBVIOUS
  <1>1. output' \in Nat /\ output' + FOOTER_RESERVE <= MaxBytes
    BY BudgetAssumption, ResultType
    DEF NewRenderer, RenderInv, BudgetAssumption, FOOTER_RESERVE, NoColumns, SchemaExceeds
  <1> QED
    BY <1>1 DEF NewRenderer, RenderInv, NumbersOK, Room, Phases, rowVars

LEMMA StartBatchInv ==
  ASSUME NEW n \in Nat
  PROVE  RenderInv /\ StartBatch(n) => RenderInv'
  BY DEF StartBatch, RenderInv, NumbersOK, Room, Phases, Available, outVars, rowVars

LEMMA RenderStepInv == RenderInv /\ RenderStep => RenderInv'
  <1> SUFFICES ASSUME RenderInv, RenderStep PROVE RenderInv'
    OBVIOUS
  <1> USE BudgetAssumption DEF RenderInv, NumbersOK, Room, BudgetAssumption, Available
  <1>1. CASE EndBatch
    BY <1>1 DEF EndBatch, Phases, outVars, rowVars
  <1>2. CASE StartRow
    <2>1. CASE Refuse("rows") /\ UNCHANGED rowVars
      BY <2>1 DEF Refuse, Phases, outVars, rowVars
    <2>2. CASE rows < MaxRows /\ result.columns = 0
      BY <1>2, <2>2 DEF StartRow, Refuse, Phases, outVars, rowVars
    <2>3. CASE phase' = "column" /\ rows < MaxRows /\ UNCHANGED <<outVars, left>>
      <3>1. scratch' \in 0..1 /\ column' = 1 /\ UNCHANGED <<result, format, at, budget>> /\ left > 0
        BY <1>2, <2>3 DEF StartRow, Refuse
      <3> QED BY <2>3, <3>1 DEF Phases, outVars
    <2> QED BY <1>2, <2>1, <2>2, <2>3 DEF StartRow
  <1>3. CASE StartCell
    <2>1. Pipe \in 0..1 /\ Opening \in 0..1
      BY DEF Pipe, Opening, Quote
    <2>2. CASE phase' = "stopped"
      BY <1>3, <2>2 DEF StartCell, Refuse, Phases, outVars, rowVars
    <2>3. CASE phase' = phase
      BY <1>3, <2>1, <2>3 DEF StartCell, Refuse, Phases, outVars, rowVars
    <2>4. CASE phase' = "cell"
      BY <1>3, <2>1, <2>4 DEF StartCell, Refuse, Phases, Reserve, CLIPPED, FOOTER_RESERVE, outVars
    <2> QED BY <1>3, <2>2, <2>3, <2>4 DEF StartCell, Refuse
  <1>4. CASE WriteChar
    <2> DEFINE n == Written(Cell.text[at])
    <2>1. n \in Nat /\ n <= budget
      BY <1>4, WrittenWithin DEF WriteChar
    <2>2. scratch' = scratch + n /\ budget' = budget - n /\ at' = at + 1 /\ UNCHANGED <<phase, column>>
      BY <1>4 DEF WriteChar
    <2>3. InCell
      BY <1>4 DEF WriteChar
    <2> HIDE DEF n
    <2> QED BY <2>1, <2>2, <2>3 DEF InCell, Reserve, CLIPPED, FOOTER_RESERVE, outVars
  <1>5. CASE ClipCell
    <2>1. Written(Cell.text[at]) \in Nat /\ Quote \in Nat /\ Pipe \in Nat
      BY WrittenWithin DEF Quote, Pipe
    <2>2. phase' = "column" /\ column' = column + 1 /\ UNCHANGED <<at, budget>> /\ InCell
      BY <1>5 DEF ClipCell
    <2>3. scratch' \in Nat
      <3>1. scratch \in Nat /\ CLIPPED \in Nat
        BY DEF CLIPPED
      <3>2. \/ scratch' = scratch + CLIPPED + Quote + Pipe
            \/ scratch' = scratch + Written(Cell.text[at]) + CLIPPED + Quote + Pipe
        BY <1>5 DEF ClipCell
      <3> HIDE DEF NumbersOK, Available
      <3> QED BY <2>1, <3>1, <3>2
    <2>4. phase = "cell"
      BY <1>5 DEF ClipCell
    <2> QED BY <2>2, <2>3, <2>4 DEF InCell, Phases, outVars
  <1>6. CASE EndCell
    BY <1>6 DEF EndCell, InCell, Phases, Quote, Pipe, outVars
  <1>7. CASE EndRow
    BY SMTT(20), <1>7 DEF EndRow, Refuse, Phases, FOOTER_RESERVE, outVars, rowVars
  <1> QED BY <1>1, <1>2, <1>3, <1>4, <1>5, <1>6, <1>7 DEF RenderStep

LEMMA RenderFlags ==
  ASSUME FlagsOK, NewRenderer \/ RenderStep \/ \E n \in Nat : StartBatch(n)
  PROVE  FlagsOK'
  <1> USE DEF FlagsOK
  <1>1. CASE NewRenderer
    BY <1>1 DEF NewRenderer, rowVars
  <1>2. CASE \E n \in Nat : StartBatch(n)
    BY <1>2 DEF StartBatch, outVars, rowVars
  <1>3. CASE EndBatch
    BY <1>3 DEF EndBatch, outVars, rowVars
  <1>4. CASE StartRow
    BY <1>4 DEF StartRow, Refuse, outVars, rowVars
  <1>5. CASE StartCell
    BY <1>5 DEF StartCell, Refuse, outVars, rowVars
  <1>6. CASE WriteChar
    BY <1>6 DEF WriteChar, InCell, outVars
  <1>7. CASE ClipCell
    BY <1>7 DEF ClipCell, InCell, outVars
  <1>8. CASE EndCell
    BY <1>8 DEF EndCell, InCell, outVars
  <1>9. CASE EndRow
    BY <1>9 DEF EndRow, Refuse, outVars, rowVars
  <1> QED BY <1>1, <1>2, <1>3, <1>4, <1>5, <1>6, <1>7, <1>8, <1>9 DEF RenderStep

LEMMA RenderKeepsResult ==
  ASSUME NewRenderer \/ RenderStep \/ \E n \in Nat : StartBatch(n)
  PROVE  result' = result
  BY DEF NewRenderer, StartBatch, RenderStep, EndBatch, StartRow, StartCell, WriteChar, ClipCell, EndCell,
         EndRow, Refuse, InCell

-----------------------------------------------------------------------------
(* Types                                                                    *)

StreamTypes ==
  /\ pulled \in 0..Total /\ taken \in 0..Total /\ taken <= pulled
  /\ queue \in Seq(Nat)

ControlTypes ==
  /\ pc \in {"submit", "poll", "fetch", "render", "look", "over"}
  /\ InFlightTypeOK
  /\ worker \in {"none", "queued", "running", "done", "failed"}
  /\ hook \in {"none", "armed", "fired", "defused"}
  /\ hint \in {"unset", "cancelled", "timeout"}

FlagTypes == late \in BOOLEAN /\ exhausted \in BOOLEAN /\ unrendered \in BOOLEAN /\ interrupted \in BOOLEAN

AnswerTypes == reports \in Seq(Outcomes) /\ answer \in Answers

Types == RenderInv /\ FlagsOK /\ StreamTypes /\ ControlTypes /\ FlagTypes /\ AnswerTypes

LEMMA TypesAreTypeOK == Types => TypeOK
  <1>1. RenderInv => Available \in Nat
    BY BudgetAssumption DEF RenderInv, NumbersOK, Room, Available, FOOTER_RESERVE, BudgetAssumption
  <1> QED BY <1>1 DEF Types, RenderInv, StreamTypes, ControlTypes, FlagTypes, AnswerTypes, TypeOK

LEMMA InitTypes == Init => Types
  <1> SUFFICES ASSUME Init PROVE Types
    OBVIOUS
  <1>1. RenderInv /\ FlagsOK
    BY RenderInitInv DEF Init
  <1>2. StreamTypes
    BY <1>1, ResultType DEF Init, StreamTypes, RenderInv
  <1>3. ControlTypes /\ FlagTypes
    BY DEF Init, ControlTypes, FlagTypes, InFlightInit, InFlightTypeOK, Cleanups
  <1>4. AnswerTypes
    BY DEF Init, AnswerTypes, Answers
  <1> QED BY <1>1, <1>2, <1>3, <1>4 DEF Types

LEMMA RenderStutters == RenderInv /\ FlagsOK /\ UNCHANGED renderVars => RenderInv' /\ FlagsOK' /\ Total' = Total
  BY DEF RenderInv, FlagsOK, renderVars, NumbersOK, Room, Available, outVars, rowVars, Total

\* What a worker's step may do: the renderer's work, its queue and its own state.
LEMMA WorkerStepTypes ==
  ASSUME Types, WorkerStep
  PROVE  /\ RenderInv' /\ FlagsOK' /\ Total' = Total
         /\ queue' \in Seq(Nat)
         /\ worker' \in {"none", "queued", "running", "done", "failed"}
         /\ WorkerOnly
  <1>1. CASE WorkerStart \/ WorkerDone \/ WorkerFails
    <2>1. UNCHANGED renderVars /\ UNCHANGED queue /\ WorkerOnly
      BY <1>1 DEF WorkerStart, WorkerDone, WorkerFails, WorkerIsOver
    <2>2. worker' \in {"none", "running", "done", "failed"}
      BY <1>1 DEF WorkerStart, WorkerDone, WorkerFails, WorkerIsOver
    <2> QED BY <2>1, <2>2, RenderStutters DEF Types, StreamTypes
  <1>2. CASE WorkerRenders
    <2>1. worker' = worker /\ WorkerOnly
      BY <1>2 DEF WorkerRenders
    <2>2. CASE (NewRenderer \/ RenderStep) /\ UNCHANGED queue
      BY <2>1, <2>2, NewRendererInv, RenderStepInv, RenderFlags, RenderKeepsResult
      DEF Types, StreamTypes, ControlTypes, Total
    <2>3. CASE queue # <<>> /\ StartBatch(Head(queue)) /\ queue' = Tail(queue)
      <3>1. Head(queue) \in Nat /\ Tail(queue) \in Seq(Nat)
        BY <2>3 DEF Types, StreamTypes
      <3> QED BY <2>1, <2>3, <3>1, StartBatchInv, RenderFlags, RenderKeepsResult DEF Types, ControlTypes, Total
    <2> QED BY <1>2, <2>2, <2>3 DEF WorkerRenders
  <1> QED BY <1>1, <1>2 DEF WorkerStep

LEMMA FinishType ==
  ASSUME AnswerTypes, NEW outcome \in Outcomes, Finish(outcome)
  PROVE  reports' \in Seq(Outcomes)
  BY DEF AnswerTypes, Finish

LEMMA ErrorJsonType ==
  ASSUME NEW kind \in {"error", "timeout"}, ErrorJson(kind)
  PROVE  answer' \in Answers /\ answer'.kind = kind
  BY DEF ErrorJson, Answers

LEMMA OutputType ==
  ASSUME NEW wholly \in BOOLEAN, Output(wholly)
  PROVE  answer' \in Answers /\ answer'.kind = "output" /\ answer'.wholly = wholly
  BY DEF Output, Answers

LEMMA FireType ==
  ASSUME NEW outcome \in {"cancelled", "timeout"}, Fire(outcome), ControlTypes
  PROVE  /\ interrupted' = TRUE
         /\ hook' \in {"none", "armed", "fired", "defused"}
         /\ hint' \in {"unset", "cancelled", "timeout"}
  BY DEF Fire, ControlTypes

LEMMA DifferenceIsNat == \A a, b \in Int : a <= b => b - a \in Nat
  OBVIOUS

LEMMA LeastOfFacts ==
  ASSUME NEW t \in Nat, NEW w \in Nat, NEW p \in Nat, t <= p
  PROVE  /\ LeastOf(t + w, p) \in Nat /\ t <= LeastOf(t + w, p) /\ LeastOf(t + w, p) <= p
         /\ LeastOf(t + w, p) - t <= w
         /\ LeastOf(t + w, p) - t < w => LeastOf(t + w, p) = p /\ ~(p - t >= w)
  BY DEF LeastOf

\* What fetchmany_arrow returns: rows in stock, as many as asked for or all.
LEMMA FetchmanyType ==
  ASSUME NEW want \in Nat, Total \in Nat, StreamTypes, exhausted \in BOOLEAN, Fetchmany(want)
  PROVE  /\ pulled' \in 0..Total /\ taken' \in 0..Total /\ taken' <= pulled'
         /\ exhausted' \in BOOLEAN
         /\ taken <= taken' /\ taken' - taken <= want
         /\ (exhausted => pulled = Total) => (exhausted' => pulled' = Total)
         /\ taken' - taken < want => exhausted' /\ taken' = pulled'
  <1>1. CASE exhausted \/ pulled - taken >= want
    <2>1. pulled' = pulled /\ exhausted' = exhausted /\ taken' = LeastOf(taken + want, pulled)
      BY <1>1 DEF Fetchmany
    <2>2. exhausted \/ taken + want <= pulled
      BY <1>1 DEF StreamTypes
    <2>3. /\ taken' \in 0..Total /\ taken <= taken' /\ taken' <= pulled /\ taken' - taken <= want
          /\ taken' - taken < want => taken' = pulled /\ ~(taken + want <= pulled)
      BY <2>1 DEF LeastOf, StreamTypes
    <2> QED BY <2>1, <2>2, <2>3 DEF StreamTypes
  <1>2. CASE ~(exhausted \/ pulled - taken >= want)
    <2>1. /\ pulled' \in pulled..Total /\ exhausted' \in BOOLEAN
          /\ (exhausted' => pulled' = Total) /\ (exhausted' \/ pulled' - taken >= want)
      <3>1. PICK p \in pulled..Total, e \in BOOLEAN :
              (e => p = Total) /\ (e \/ p - taken >= want) /\ pulled' = p /\ exhausted' = e
        BY <1>2 DEF Fetchmany
      <3> QED BY <3>1, Zenon
    <2>2. pulled' \in 0..Total /\ pulled' \in Nat /\ taken \in Nat /\ taken <= pulled'
      BY <2>1 DEF StreamTypes
    <2>3. taken' = LeastOf(taken + want, pulled')
      BY DEF Fetchmany
    <2> DEFINE n == LeastOf(taken + want, pulled')
    <2>4. n \in Nat /\ taken <= n /\ n <= pulled' /\ n - taken <= want
      BY <2>2, LeastOfFacts
    <2>5. n - taken < want => n = pulled' /\ ~(pulled' - taken >= want)
      BY <2>2, LeastOfFacts
    <2> HIDE DEF n
    <2>6. taken' = n /\ taken' \in 0..Total
      BY <2>2, <2>3, <2>4 DEF n
    <2> QED BY <2>1, <2>2, <2>4, <2>5, <2>6
  <1> QED BY <1>1, <1>2

\* What an end of the query does to the variables of its outcome.
EndTypes ==
  /\ hook' \in {"none", "armed", "fired", "defused"}
  /\ hint' \in {"unset", "cancelled", "timeout"}
  /\ late' \in BOOLEAN /\ interrupted' \in BOOLEAN
  /\ answer' \in Answers

LEMMA FailTypes ==
  ASSUME Types, Fail
  PROVE  pc' = "over" /\ EndTypes
  <1>1. PICK outcome \in {"cancelled", "timeout"} : Fire(outcome)
    BY DEF Fail
  <1>2. PICK kind \in {"error", "timeout"} : ErrorJson(kind)
    BY DEF Fail
  <1>3. pc' = "over" /\ late' \in BOOLEAN
    BY DEF Fail, Types, FlagTypes
  <1> QED BY <1>1, <1>2, <1>3, FireType, ErrorJsonType DEF Types, EndTypes

LEMMA DecideTypes ==
  ASSUME Types, NEW wholly \in BOOLEAN, Decide(wholly)
  PROVE  pc' = "over" /\ EndTypes /\ reports' \in Seq(Outcomes)
  <1>1. pc' = "over" /\ late' \in BOOLEAN
    BY DEF Decide, Types, FlagTypes
  <1>2. CASE late
    BY <1>1, <1>2, FinishType, FireType, ErrorJsonType DEF Decide, Types, EndTypes, Outcomes
  <1>3. CASE ~late
    <2>1. reports' \in Seq(Outcomes) /\ answer' \in Answers
      BY <1>3, FinishType, OutputType DEF Decide, Types, Outcomes
    <2>2. /\ hook' \in {"none", "armed", "fired", "defused"}
          /\ hint' \in {"unset", "cancelled", "timeout"}
          /\ interrupted' \in BOOLEAN
      BY <1>3, FireType DEF Decide, Types, ControlTypes
    <2> QED BY <1>1, <2>1, <2>2 DEF EndTypes
  <1> QED BY <1>2, <1>3

LEMMA InFlightKept ==
  InFlightTypeOK => /\ UNCHANGED inFlightVars => InFlightTypeOK'
                    /\ Heard \/ AbandonPost \/ Unheard \/ CancelInFlight => InFlightTypeOK'
                    /\ StatementEnds \/ CleanupStep => InFlightTypeOK'
  BY DEF InFlightTypeOK, Cleanups, inFlightVars, Heard, AbandonPost, Unheard, CancelInFlight, StatementEnds,
         CleanupStep, HandleArrives, CancelEnds

LEMMA DropWorkTypes ==
  ASSUME Types, NEW outcome \in Outcomes, DropWork(outcome)
  PROVE  /\ reports' \in Seq(Outcomes)
         /\ InFlightTypeOK'
         /\ worker' \in {"none", "running"}
         /\ UNCHANGED <<queue, unrendered>>
  BY FinishType, InFlightKept DEF DropWork, Types, ControlTypes, AnswerTypes

LEMMA WantType == RenderInv => Want \in Nat
  <1> SUFFICES ASSUME RenderInv PROVE Want \in Nat
    OBVIOUS
  <1>1. Batch \in Nat /\ MaxRows \in Nat /\ MaxRows - rows \in Nat
    BY BatchAssumption, BudgetAssumption DEF BatchAssumption, BudgetAssumption, RenderInv, NumbersOK
  <1> QED BY <1>1 DEF Want, LeastOf

LEMMA BatchesType ==
  ASSUME NEW n \in Nat
  PROVE  \A q \in Batches(n) : q \in Seq(Nat)
  <1> SUFFICES ASSUME NEW q \in Batches(n) PROVE q \in Seq(Nat)
    OBVIOUS
  <1>1. CASE q = <<>>
    BY <1>1
  <1>2. CASE q # <<>>
    <2>1. PICK k \in 0..n : q = <<k, n - k>>
      BY <1>2 DEF Batches
    <2>2. k \in Nat /\ n - k \in Nat
      OBVIOUS
    <2> QED BY <2>1, <2>2
  <1> QED BY <1>1, <1>2

LEMMA QueryStepTypes ==
  ASSUME Types, Late \/ Work \/ Answered \/ Deadline \/ DropQuery \/ CleanUp
  PROVE  Types'
  <1>1. UNCHANGED renderVars
    BY DEF Late, Work, Answered, Deadline, DropQuery, CleanUp, Accepted, ServerFinishes, Rendered, RenderFails, Submitted, SubmitFails,
           Fetched, FetchFails, Looked
  <1>2. RenderInv' /\ FlagsOK' /\ Total' = Total /\ Total \in Nat
    BY <1>1, RenderStutters, ResultType DEF Types, RenderInv
  <1> SUFFICES StreamTypes' /\ ControlTypes' /\ FlagTypes' /\ AnswerTypes'
    BY <1>2 DEF Types
  <1>3. CASE UNCHANGED <<streamVars, queue>>
    <2>1. StreamTypes' /\ exhausted' \in BOOLEAN
      BY <1>2, <1>3 DEF Types, StreamTypes, FlagTypes, streamVars
    <2>2. CASE Late
      BY <2>1, <2>2, InFlightKept DEF Late, Types, ControlTypes, FlagTypes, AnswerTypes, streamVars, workVars, cancelVars, endVars
    <2>3. CASE Accepted \/ ServerFinishes \/ CleanUp
      BY <2>1, <2>3, InFlightKept
      DEF Accepted, ServerFinishes, CleanUp, Types, ControlTypes, FlagTypes, AnswerTypes, workVars, cancelVars
    <2>4. CASE Submitted
      BY <2>1, <2>4, InFlightKept DEF Submitted, Types, ControlTypes, FlagTypes, AnswerTypes, workVars, endVars
    <2>5. CASE SubmitFails
      <3>1. reports' \in Seq(Outcomes)
        BY <2>5, FinishType DEF SubmitFails, Types, Outcomes
      <3>2. InFlightTypeOK'
        BY <2>5, InFlightKept DEF SubmitFails, Types, ControlTypes
      <3> QED BY <2>1, <2>5, <3>1, <3>2, FailTypes
              DEF SubmitFails, Types, ControlTypes, FlagTypes, AnswerTypes, workVars, EndTypes
    <2>6. CASE FetchFails
      <3>1. reports' \in Seq(Outcomes)
        BY <2>6, FinishType DEF FetchFails, Types, Outcomes
      <3> QED BY <2>1, <2>6, <3>1, FailTypes, InFlightKept
              DEF FetchFails, Types, ControlTypes, FlagTypes, AnswerTypes, workVars, EndTypes
    <2>7. CASE Rendered
      <3>1. worker' = "none" /\ unrendered' \in BOOLEAN /\ InFlightTypeOK'
        BY <2>7, InFlightKept DEF Rendered, Types, FlagTypes, ControlTypes
      <3>2. CASE pc' \in {"look", "fetch"} /\ UNCHANGED <<late, cancelVars, reports, answer>>
        BY <2>1, <3>1, <3>2 DEF Types, ControlTypes, FlagTypes, AnswerTypes, cancelVars
      <3>3. CASE \E wholly \in BOOLEAN : Decide(wholly)
        BY <2>1, <3>1, <3>3, DecideTypes DEF Types, ControlTypes, FlagTypes, AnswerTypes, EndTypes
      <3> QED BY <2>7, <3>2, <3>3 DEF Rendered, Wholly
    <2>8. CASE RenderFails
      <3>1. reports' \in Seq(Outcomes)
        BY <2>8, FinishType DEF RenderFails, Types, Outcomes
      <3> QED BY <2>1, <2>8, <3>1, FailTypes, InFlightKept
              DEF RenderFails, Types, ControlTypes, FlagTypes, AnswerTypes, EndTypes
    <2>9. CASE Deadline
      <3>1. Fire("timeout") /\ ErrorJson("timeout") /\ pc' = "over" /\ late' = late
        BY <2>9 DEF Deadline
      <3>2. hint' \in {"unset", "cancelled", "timeout"}
        BY <3>1, FireType DEF Types
      <3>3. PICK outcome \in Outcomes : DropWork(outcome)
        BY <2>9, <3>2 DEF Deadline, Outcomes
      <3> QED BY <2>1, <3>1, <3>3, FireType, ErrorJsonType, DropWorkTypes
              DEF Types, ControlTypes, FlagTypes, AnswerTypes
    <2>10. CASE DropQuery
      <3>1. Fire("cancelled") /\ answer' \in Answers /\ pc' = "over" /\ late' = late
        BY <2>10 DEF DropQuery, Answers
      <3>2. PICK outcome \in Outcomes : DropWork(outcome)
        BY <2>10 DEF DropQuery, Outcomes, Types, ControlTypes
      <3> QED BY <2>1, <3>1, <3>2, FireType, DropWorkTypes
              DEF Types, ControlTypes, FlagTypes, AnswerTypes
    <2>11. CASE Fetched
      BY <2>1, <2>11, InFlightKept DEF Fetched, Types, ControlTypes, FlagTypes, AnswerTypes, cancelVars, endVars
    <2>12. CASE Looked
      <3>1. PICK wholly \in BOOLEAN : Decide(wholly)
        BY <2>12 DEF Looked, Wholly
      <3> QED BY <2>1, <2>12, <3>1, DecideTypes, InFlightKept
              DEF Looked, Types, ControlTypes, FlagTypes, AnswerTypes, EndTypes, workVars
    <2> QED BY <2>2, <2>3, <2>4, <2>5, <2>6, <2>7, <2>8, <2>9, <2>10, <2>11, <2>12 DEF Work, Answered
  <1>4. CASE Fetched
    <2>1. Fetchmany(Want) /\ queue' \in Batches(taken' - taken)
      BY <1>4 DEF Fetched
    <2>2. /\ pulled' \in 0..Total /\ taken' \in 0..Total /\ taken' <= pulled' /\ exhausted' \in BOOLEAN
          /\ taken <= taken'
      BY <1>2, <2>1, FetchmanyType, WantType DEF Types, FlagTypes
    <2>3. taken' - taken \in Nat
      <3>1. taken \in Int /\ taken' \in Int
        BY <1>2, <2>2 DEF Types, StreamTypes
      <3> QED BY <2>2, <3>1, DifferenceIsNat
    <2>4. queue' \in Seq(Nat)
      BY <2>1, <2>3, BatchesType
    <2>5. StreamTypes'
      BY <1>2, <2>2, <2>4 DEF StreamTypes
    <2> QED BY <1>4, <2>2, <2>5, InFlightKept DEF Fetched, Types, ControlTypes, FlagTypes, AnswerTypes, cancelVars, endVars
  <1>5. CASE Looked
    <2>1. Fetchmany(1) /\ UNCHANGED <<queue, worker, unrendered>> /\ InFlightTypeOK'
      BY <1>5, InFlightKept DEF Looked, workVars, Types, ControlTypes
    <2>2. pulled' \in 0..Total /\ taken' \in 0..Total /\ taken' <= pulled' /\ exhausted' \in BOOLEAN
      BY <1>2, <2>1, FetchmanyType DEF Types, FlagTypes
    <2>3. StreamTypes'
      BY <1>2, <2>1, <2>2 DEF StreamTypes, Types
    <2>4. PICK wholly \in BOOLEAN : Decide(wholly)
      BY <1>5 DEF Looked, Wholly
    <2> QED BY <2>1, <2>2, <2>3, <2>4, DecideTypes DEF Types, ControlTypes, FlagTypes, AnswerTypes, EndTypes
  <1> QED BY <1>3, <1>4, <1>5
          DEF Late, Work, Answered, Deadline, DropQuery, CleanUp, Accepted, ServerFinishes, Rendered, RenderFails, Submitted, SubmitFails,
              FetchFails, workVars, DropWork

LEMMA NextTypes == Types /\ [Next]_vars => Types'
  <1> SUFFICES ASSUME Types, [Next]_vars PROVE Types'
    OBVIOUS
  <1>1. CASE WorkerStep
    <2>1. StreamTypes'
      BY <1>1, WorkerStepTypes DEF Types, StreamTypes, WorkerOnly, streamVars
    <2>2. ControlTypes' /\ FlagTypes' /\ AnswerTypes'
      BY <1>1, WorkerStepTypes, InFlightKept
      DEF Types, ControlTypes, FlagTypes, AnswerTypes, WorkerOnly, streamVars, cancelVars, endVars
    <2> QED BY <1>1, <2>1, <2>2, WorkerStepTypes DEF Types
  <1>2. CASE Late \/ Work \/ Answered \/ Deadline \/ DropQuery \/ CleanUp
    BY <1>2, QueryStepTypes
  <1>3. CASE UNCHANGED vars
    <2>1. RenderInv' /\ FlagsOK' /\ Total' = Total
      BY <1>3, RenderStutters DEF Types, vars
    <2> QED BY <1>3, <2>1, InFlightKept
            DEF Types, StreamTypes, ControlTypes, FlagTypes, AnswerTypes, vars, streamVars, workVars, cancelVars, endVars
  <1> QED BY <1>1, <1>2, <1>3 DEF Next

THEOREM TypesHold == Spec => []Types
  BY InitTypes, NextTypes, PTL DEF Spec

\* Every variable keeps its type, and no unsigned subtraction of the renderer goes
\* below zero: the bytes left for a row, those left for a cell behind its quote,
\* marker and delimiter, and those left for the next piece of an escape.
THEOREM TypeCorrect == Spec => []TypeOK
  BY TypesHold, TypesAreTypeOK, PTL

\* Whatever the widths of header, cells and escapes, and whatever the caller's
\* budgets: no answer is longer than max_bytes.
THEOREM AnswersAreWithinBudget == Spec => []WithinBudget
  <1>1. Types => WithinBudget
    <2> SUFFICES ASSUME Types, answer.kind = "output" PROVE output + Footer(answer.wholly) <= MaxBytes
      BY DEF WithinBudget
    <2>1. Footer(answer.wholly) \in Nat /\ Footer(answer.wholly) <= FOOTER_RESERVE
      BY FooterFits DEF Types, RenderInv
    <2>2. output \in Nat /\ output + FOOTER_RESERVE <= MaxBytes /\ MaxBytes \in Nat
      BY BudgetAssumption DEF Types, RenderInv, NumbersOK, Room, BudgetAssumption
    <2> QED BY <2>1, <2>2 DEF FOOTER_RESERVE
  <1> QED BY <1>1, TypesHold, PTL

-----------------------------------------------------------------------------
(* Report, answer and server                                                *)

\* A query that is not over has said nothing; its hook is armed from the end of
\* the submission on, and nobody has left a hint.
Open ==
  /\ reports = <<>> /\ answer.kind = "none" /\ hint = "unset"
  /\ pc \in Submission => hook = "none" /\ cleanup = "none"
  /\ pc = "submit" => statement = "none"
  /\ pc \notin Submission => hook = "armed" /\ statement = "finished"

EndSeen == exhausted => pulled = Total

Life ==
  /\ pc # "over" => Open
  /\ pc = "over" => OutcomeAgrees /\ StatementNotLeft
  /\ EndSeen

LEMMA InitLife == Init => Life
  BY DEF Init, Life, Open, EndSeen, InFlightInit, Submission

\* The end of a query with an error.
LEMMA FailLife ==
  ASSUME Types, Life, pc # "over", Fail, LetGo', EndSeen',
         reports' = <<"error">> \/ (late /\ reports' = <<"timeout">> /\ pc \notin Submission)
  PROVE  Life'
  <1>1. pc' = "over" /\ hook' = (IF pc \in Submission THEN "none" ELSE "fired")
    BY DEF Fail, Fire, Life, Open
  <1>2. answer'.kind = IF late' THEN "timeout" ELSE "error"
    BY ErrorJsonType DEF Fail
  <1>3. late => late'
    BY DEF Fail
  <1>4. OutcomeAgrees'
    <2>1. CASE reports' = <<"error">>
      BY <1>1, <1>2, <2>1 DEF OutcomeAgrees
    <2>2. CASE late /\ reports' = <<"timeout">> /\ pc \notin Submission
      <3>1. answer'.kind = "timeout" /\ hook' = "fired"
        BY <1>1, <1>2, <1>3, <2>2
      <3>2. Len(reports') = 1
        BY <2>2
      <3> QED BY <1>1, <2>2, <3>1, <3>2 DEF OutcomeAgrees
    <2> QED BY <2>1, <2>2
  <1> QED BY <1>1, <1>4 DEF Life, StatementNotLeft

\* ... and with the time, or what is rendered.
LEMMA DecideLife ==
  ASSUME Types, Life, pc \notin Submission \cup {"over"}, UNCHANGED inFlightVars, EndSeen',
         NEW wholly \in BOOLEAN, Decide(wholly), wholly => exhausted' /\ taken' = pulled'
  PROVE  Life'
  <1>1. reports = <<>> /\ hook = "armed" /\ statement' = "finished" /\ pc' = "over"
    BY DEF Life, Open, Decide, inFlightVars
  <1>4. LetGo'
    BY <1>1 DEF LetGo
  <1>2. CASE late
    <2>1. reports' = <<"timeout">> /\ hook' = "fired" /\ answer'.kind = "timeout"
      BY <1>1, <1>2, ErrorJsonType DEF Decide, Finish, Fire
    <2> QED BY <1>1, <1>4, <2>1 DEF Life, OutcomeAgrees, StatementNotLeft
  <1>3. CASE ~late
    <2>1. reports' = <<"success">> /\ answer'.kind = "output"
      BY <1>1, <1>3, OutputType DEF Decide, Finish
    <2>2. hook' = IF wholly THEN "defused" ELSE "fired"
      BY <1>1, <1>3 DEF Decide, Fire
    <2>3. hook' = "defused" => exhausted' /\ taken' = Total'
      BY <2>2 DEF EndSeen
    <2> QED BY <1>1, <1>4, <2>1, <2>2, <2>3 DEF Life, OutcomeAgrees, StatementNotLeft
  <1> QED BY <1>2, <1>3

\* Work that is dropped leaves a statement that runs to be cancelled, if it can be.
LEMMA DropLetsGo ==
  ASSUME Open, NEW outcome, DropWork(outcome)
  PROVE  LetGo'
  BY DEF Open, DropWork, AbandonPost, Unheard, CancelInFlight, LetGo, Submission, inFlightVars

LEMMA NextLife == Types /\ Life /\ [Next]_vars => Life'
  <1> SUFFICES ASSUME Types, Life, [Next]_vars PROVE Life'
    OBVIOUS
  <1> USE DEF Life
  <1>1. CASE WorkerStep \/ UNCHANGED vars
    <2>1. UNCHANGED <<pc, streamVars, cancelVars, endVars>> /\ Total' = Total
      BY <1>1, WorkerStepTypes, RenderStutters DEF WorkerOnly, vars, Types
    <2> QED BY <2>1
            DEF Open, EndSeen, OutcomeAgrees, StatementNotLeft, LetGo, streamVars, cancelVars, endVars, inFlightVars
  <1>3. CASE ServerFinishes \/ CleanUp
    <2>1. /\ UNCHANGED <<renderVars, pc, streamVars, cancelVars, reports, answer>> /\ Total' = Total
          /\ StatementEnds \/ CleanupStep
      BY <1>3, RenderStutters DEF ServerFinishes, CleanUp, Types
    <2>2. LetGo => LetGo'
      BY <2>1 DEF LetGo, StatementEnds, CleanupStep, HandleArrives, CancelEnds
    <2>3. Open => Open'
      BY <2>1 DEF Open, StatementEnds, CleanupStep, HandleArrives, CancelEnds, cancelVars, Submission
    <2> QED BY <2>1, <2>2, <2>3 DEF EndSeen, OutcomeAgrees, StatementNotLeft, streamVars, cancelVars
  <1>2. CASE Late \/ Work \/ Accepted \/ Submitted \/ SubmitFails \/ Fetched \/ FetchFails \/ Looked
               \/ Deadline \/ DropQuery
    <2>1. UNCHANGED renderVars /\ pc # "over"
      BY <1>2 DEF Late, Work, Answered, Deadline, DropQuery, CleanUp, Accepted, ServerFinishes, Rendered, RenderFails, Submitted,
                  SubmitFails, Fetched, FetchFails, Looked
    <2>2. Total' = Total /\ Total \in Nat
      BY <2>1, RenderStutters, ResultType DEF Types, RenderInv
    <2>3. EndSeen'
      <3>1. CASE UNCHANGED streamVars
        BY <2>2, <3>1 DEF EndSeen, streamVars
      <3>2. CASE \E want \in Nat : Fetchmany(want)
        BY <2>2, <3>2, FetchmanyType DEF EndSeen, Types, FlagTypes
      <3> QED BY <1>2, <3>1, <3>2, WantType
              DEF Late, Work, Answered, Deadline, DropQuery, CleanUp, Accepted, ServerFinishes, Rendered, RenderFails, Submitted,
                  SubmitFails, Fetched, FetchFails, Looked, Types
    <2>4. CASE Late \/ Accepted \/ Submitted \/ Fetched
      BY <2>1, <2>3, <2>4
      DEF Late, Accepted, Heard, Submitted, Fetched, Open, Submission, streamVars, workVars, cancelVars, endVars,
          inFlightVars
    <2>5. CASE SubmitFails
      <3>1. reports' = <<"error">> /\ Fail
        BY <2>1, <2>5 DEF SubmitFails, Finish, Open
      <3>2. LetGo'
        BY <2>1, <2>5 DEF SubmitFails, Open, Submission, Unheard, CancelInFlight, LetGo, inFlightVars
      <3> QED BY <2>1, <2>3, <3>1, <3>2, FailLife
    <2>6. CASE FetchFails
      <3>1. reports' = <<"error">> /\ LetGo' /\ Fail
        BY <2>1, <2>6 DEF FetchFails, Finish, Open, Submission, LetGo, inFlightVars
      <3> QED BY <2>1, <2>3, <3>1, FailLife
    <2>7. CASE RenderFails
      <3>1. /\ reports' = <<"error">> \/ (late /\ reports' = <<"timeout">> /\ pc \notin Submission)
            /\ LetGo' /\ Fail
        BY <2>1, <2>7 DEF RenderFails, Finish, Open, Submission, LetGo, inFlightVars
      <3> QED BY <2>1, <2>3, <3>1, FailLife
    <2>8. CASE Rendered
      <3>1. CASE pc' \in {"look", "fetch"} /\ UNCHANGED <<late, cancelVars, reports, answer>>
        BY <2>1, <2>3, <2>8, <3>1 DEF Rendered, Open, Submission, cancelVars, inFlightVars
      <3>2. CASE \E omitted \in BOOLEAN : Decide(Wholly(FALSE, omitted))
        <4>1. PICK omitted \in BOOLEAN : Decide(Wholly(FALSE, omitted))
          BY <3>2
        <4>2. Wholly(FALSE, omitted) \in BOOLEAN /\ (Wholly(FALSE, omitted) => exhausted' /\ taken' = pulled')
          BY DEF Wholly
        <4>3. pc \notin Submission \cup {"over"} /\ UNCHANGED inFlightVars
          BY <2>8 DEF Rendered, Submission
        <4> QED BY <2>3, <4>1, <4>2, <4>3, DecideLife
      <3> QED BY <2>8, <3>1, <3>2 DEF Rendered, Types, FlagTypes
    <2>9. CASE Looked
      <3>1. PICK wholly \in BOOLEAN : Decide(wholly) /\ (wholly => exhausted' /\ taken' = pulled')
        BY <2>9 DEF Looked, Wholly
      <3> QED BY <2>3, <2>9, <3>1, DecideLife DEF Looked, Submission
    <2>10. CASE Deadline
      <3>1. /\ pc' = "over" /\ answer'.kind = "timeout" /\ LetGo'
            /\ hook' = (IF pc \in Submission THEN "none" ELSE "fired")
        BY <2>1, <2>10, ErrorJsonType, DropLetsGo DEF Deadline, Fire, Open
      <3>2. reports' = IF pc \in Submission THEN <<>> ELSE <<"timeout">>
        BY <2>1, <2>10 DEF Deadline, Fire, DropWork, Open, Finish
      <3> QED BY <2>3, <3>1, <3>2 DEF OutcomeAgrees, StatementNotLeft
    <2>11. CASE DropQuery
      <3>1. /\ pc' = "over" /\ answer'.kind = "dropped" /\ LetGo'
            /\ hook' = (IF pc \in Submission THEN "none" ELSE "fired")
        BY <2>1, <2>11, DropLetsGo DEF DropQuery, Fire, Open
      <3>2. reports' = IF pc \in Submission THEN <<>> ELSE <<"cancelled">>
        BY <2>1, <2>11 DEF DropQuery, DropWork, Open, Finish
      <3> QED BY <2>3, <3>1, <3>2 DEF OutcomeAgrees, StatementNotLeft
    <2> QED BY <1>2, <2>4, <2>5, <2>6, <2>7, <2>8, <2>9, <2>10, <2>11 DEF Work, Answered
  <1> QED BY <1>1, <1>2, <1>3 DEF Next, Answered

THEOREM LifeHolds == Spec => []Life
  BY InitTypes, NextTypes, InitLife, NextLife, PTL DEF Spec

\* Whichever of an error, the deadline, the caller and the last row ends a query
\* first, the event sink hears one outcome, and the one that the answer gives.
THEOREM OneOutcome == Spec => []OutcomeAgrees
  <1>1. Life => OutcomeAgrees
    BY DEF Life, Open, OutcomeAgrees
  <1> QED BY <1>1, LifeHolds, PTL

\* A query that is over has a cancellation on its way for a statement that still
\* runs, unless its handle has not arrived or the request has failed, and only one
\* whose result was fetched to its end does without the cancellation of its hook
\* (CancelInFlightOnDrop, AbandonedSubmitCancel, CancelOnDrop).
THEOREM NothingIsLeft == Spec => []StatementNotLeft
  <1>1. Life => StatementNotLeft
    BY DEF Life, StatementNotLeft
  <1> QED BY <1>1, LifeHolds, PTL
-----------------------------------------------------------------------------
(* What is shown, and what is said of it                                    *)

Exceeds == result.header > MaxBytes - FOOTER_RESERVE

\* The rows in the batches that are not pushed yet: two batches at most.
InQueue(q) == IF q = <<>> THEN 0 ELSE IF Len(q) = 1 THEN q[1] ELSE q[1] + q[2]

\* The rows taken from the stream are written, in the batch, or in the queue.
Ledger ==
  /\ Len(queue) <= 2
  /\ rows + left + InQueue(queue) = taken

\* Why a renderer stops, and what omitted_rows stands for: a header without room,
\* or rows of the batch that are left.
Reasons ==
  /\ phase \in {"none", "idle"} => left = 0
  /\ phase = "none" => ~full /\ ~omittedRows
  /\ phase = "idle" /\ full => Exceeds
  /\ phase \in {"row", "column", "cell"} => ~full
  /\ omittedRows => Exceeds \/ (phase = "stopped" /\ left > 0)
  /\ phase = "stopped" => Exceeds \/ rows = MaxRows \/ left > 0
  /\ cellsTruncated = lost /\ rowClipped = lacks

\* At every await the rows taken are accounted for; the look beyond the last row
\* shown begins with what unrendered_rows remembers.
Preview ==
  /\ pc # "over" => Ledger
  /\ pc \in {"submit", "poll", "fetch"} => queue = <<>> /\ left = 0
  /\ pc \in {"submit", "poll", "fetch", "look"} => worker = "none"
  /\ worker = "done" => phase = "stopped" \/ (phase = "idle" /\ queue = <<>>)
  /\ pc \in {"submit", "poll", "fetch", "render"} => ~unrendered
  /\ pc = "look" => (unrendered <=> rows < taken)
  /\ answer.kind = "output" => worker = "none"

Told == Reasons /\ Preview /\ SaysWhatItShows

LEMMA InQueueFacts ==
  ASSUME NEW q \in Seq(Nat), Len(q) <= 2
  PROVE  /\ InQueue(q) \in Nat
         /\ q # <<>> => InQueue(q) = Head(q) + InQueue(Tail(q)) /\ Len(Tail(q)) <= 2
         /\ InQueue(q) > 0 <=> \E i \in DOMAIN q : q[i] > 0
  <1>1. Len(q) \in Nat /\ DOMAIN q = 1..Len(q) /\ q \in [1..Len(q) -> Nat]
    BY LenProperties
  <1>2. q = <<>> <=> Len(q) = 0
    BY <1>1, EmptySeq
  <1>3. CASE Len(q) = 0
    BY <1>1, <1>2, <1>3 DEF InQueue
  <1>4. CASE Len(q) = 1
    <2>1. q # <<>> /\ q[1] \in Nat /\ DOMAIN q = {1}
      BY <1>1, <1>2, <1>4
    <2>2. Head(q) = q[1] /\ Len(Tail(q)) = 0 /\ Tail(q) \in Seq(Nat)
      BY <1>4, <2>1, HeadTailProperties
    <2>3. Tail(q) = <<>>
      BY <2>2, EmptySeq
    <2>4. InQueue(q) = q[1] /\ InQueue(Tail(q)) = 0
      BY <1>4, <2>1, <2>3 DEF InQueue
    <2> QED BY <2>1, <2>2, <2>4
  <1>5. CASE Len(q) = 2
    <2>1. q # <<>> /\ q[1] \in Nat /\ q[2] \in Nat /\ DOMAIN q = {1, 2}
      BY <1>1, <1>2, <1>5
    <2>2. Len(Tail(q)) = 1 /\ Tail(q) \in Seq(Nat)
      BY <1>5, <2>1, HeadTailProperties
    <2>3. \A i \in 1..1 : Tail(q)[i] = q[i + 1]
      BY <2>1, <2>2, HeadTailProperties, Zenon
    <2>4. Head(q) = q[1] /\ Tail(q)[1] = q[2]
      BY <2>1, <2>3
    <2>5. Tail(q) # <<>>
      <3>1. SUFFICES ASSUME Tail(q) = <<>> PROVE Len(Tail(q)) = 0
        BY <2>2
      <3> QED BY <3>1, EmptySeq
    <2>6. InQueue(q) = q[1] + q[2] /\ InQueue(Tail(q)) = q[2]
      BY <1>5, <2>1, <2>2, <2>4, <2>5 DEF InQueue
    <2> QED BY <2>1, <2>2, <2>4, <2>6
  <1> QED BY <1>1, <1>3, <1>4, <1>5

LEMMA BatchesHold ==
  ASSUME NEW n \in Nat, NEW q \in Batches(n)
  PROVE  Len(q) <= 2 /\ InQueue(q) = n
  <1>1. CASE q = <<>>
    <2>1. n = 0
      <3>1. SUFFICES ASSUME n # 0 PROVE FALSE
        OBVIOUS
      <3>2. PICK k \in 0..n : q = <<k, n - k>>
        BY <3>1 DEF Batches
      <3> QED BY <1>1, <3>2
    <2> QED BY <1>1, <2>1 DEF InQueue
  <1>2. CASE q # <<>>
    <2>1. PICK k \in 0..n : q = <<k, n - k>>
      BY <1>2 DEF Batches
    <2>2. Len(q) = 2 /\ q[1] = k /\ q[2] = n - k
      BY <2>1
    <2> QED BY <1>2, <2>2 DEF InQueue
  <1> QED BY <1>1, <1>2

LEMMA InitTold == Init => Told
  <1> SUFFICES ASSUME Init PROVE Told
    OBVIOUS
  <1>1. Reasons
    BY DEF Init, RenderInit, Reasons
  <1>2. Preview
    BY DEF Init, RenderInit, Preview, Ledger, InQueue
  <1>3. SaysWhatItShows
    BY DEF Init, SaysWhatItShows
  <1> QED BY <1>1, <1>2, <1>3 DEF Told

\* One row is written for each that leaves the batch; a row that is refused stays.
LEMMA RenderStepTold ==
  ASSUME RenderInv, FlagsOK, Reasons, NewRenderer \/ RenderStep
  PROVE  /\ Reasons'
         /\ rows' + left' = rows + left
  <1>a. Exceeds' = Exceeds
    BY RenderKeepsResult, Zenon DEF Exceeds
  <1> USE <1>a DEF RenderInv, NumbersOK, Room, FlagsOK, Reasons
  <1>1. CASE NewRenderer
    BY <1>1 DEF NewRenderer, Exceeds, rowVars
  <1>2. CASE EndBatch
    BY <1>2 DEF EndBatch, outVars, rowVars
  <1>3. CASE StartRow
    <2>1. CASE Refuse("rows") /\ rows = MaxRows /\ UNCHANGED rowVars
      BY <1>3, <2>1 DEF StartRow, Refuse, outVars, rowVars
    <2>2. CASE rows' = rows + 1
      BY <1>3, <2>2 DEF StartRow, Refuse, outVars, rowVars
    <2>3. CASE phase' = "column" /\ UNCHANGED outVars
      <3>1. UNCHANGED <<left, full, omittedRows>> /\ rowClipped' = lacks' /\ phase = "row"
        BY <1>3, <2>3 DEF StartRow, Refuse
      <3>2. UNCHANGED <<rows, cellsTruncated, lost>>
        BY <2>3 DEF outVars
      <3> QED BY <2>3, <3>1, <3>2
    <2> QED BY <1>3, <2>1, <2>2, <2>3 DEF StartRow
  <1>4. CASE StartCell
    BY <1>4 DEF StartCell, Refuse, outVars, rowVars
  <1>5. CASE WriteChar
    BY <1>5 DEF WriteChar, InCell, outVars
  <1>6. CASE ClipCell
    BY <1>6 DEF ClipCell, InCell, outVars
  <1>7. CASE EndCell
    BY <1>7 DEF EndCell, InCell, outVars
  <1>8. CASE EndRow
    BY <1>8 DEF EndRow, Refuse, outVars, rowVars
  <1> QED BY <1>1, <1>2, <1>3, <1>4, <1>5, <1>6, <1>7, <1>8 DEF RenderStep

LEMMA StartBatchTold ==
  ASSUME RenderInv, FlagsOK, Reasons, NEW n \in Nat, StartBatch(n)
  PROVE  Reasons' /\ left = 0 /\ left' = n /\ rows' = rows
  BY DEF StartBatch, Reasons, Exceeds, RenderInv, NumbersOK, FlagsOK, outVars, rowVars

\* A worker at work leaves neither the ledger nor its reasons unsettled.
LEMMA WorkerStepTold ==
  ASSUME Types, Life, Told, WorkerStep
  PROVE  Told'
  <1>1. worker # "none" /\ UNCHANGED <<pc, streamVars, unrendered, answer>> /\ Total' = Total
    BY WorkerStepTypes
    DEF WorkerStep, WorkerStart, WorkerRenders, WorkerDone, WorkerFails, WorkerIsOver, WorkerOnly, endVars
  <1>2. answer.kind # "output" /\ pc \notin {"submit", "poll", "fetch", "look"}
    BY <1>1 DEF Told, Preview
  <1>3. SaysWhatItShows'
    BY <1>1, <1>2 DEF SaysWhatItShows
  <1>4. CASE WorkerStart \/ WorkerDone \/ WorkerFails
    <2>1. UNCHANGED <<renderVars, queue>>
      BY <1>4 DEF WorkerStart, WorkerDone, WorkerFails, WorkerIsOver
    <2>2. Reasons'
      BY <2>1 DEF Told, Reasons, Exceeds, renderVars, outVars, rowVars
    <2>3. worker' = "done" => phase = "stopped" \/ (phase = "idle" /\ queue = <<>>)
      BY <1>4 DEF WorkerStart, WorkerDone, WorkerFails, WorkerIsOver
    <2> QED BY <1>1, <1>2, <1>3, <2>1, <2>2, <2>3 DEF Told, Preview, Ledger, renderVars, outVars, rowVars, streamVars
  <1>5. CASE WorkerRenders
    <2>1. worker = "running" /\ worker' = worker
      BY <1>5 DEF WorkerRenders
    <2>2. CASE (NewRenderer \/ RenderStep) /\ UNCHANGED queue
      <3>1. Reasons' /\ rows' + left' = rows + left
        BY <2>2, RenderStepTold DEF Types, Told
      <3>2. Ledger => Ledger'
        BY <1>1, <2>2, <3>1, InQueueFacts DEF Ledger, streamVars, Types, StreamTypes
      <3> QED BY <1>1, <1>2, <1>3, <2>1, <3>1, <3>2 DEF Told, Preview
    <2>3. CASE queue # <<>> /\ StartBatch(Head(queue)) /\ queue' = Tail(queue)
      <3>1. Head(queue) \in Nat
        BY <2>3 DEF Types, StreamTypes
      <3>2. Reasons' /\ left = 0 /\ left' = Head(queue) /\ rows' = rows
        BY <2>3, <3>1, StartBatchTold DEF Types, Told
      <3>3. Ledger => Ledger'
        <4> SUFFICES ASSUME Ledger PROVE Ledger'
          OBVIOUS
        <4>1. Len(queue') <= 2 /\ InQueue(queue) = Head(queue) + InQueue(queue')
          BY <2>3, InQueueFacts DEF Ledger, Types, StreamTypes
        <4>2. InQueue(queue') \in Nat
          BY <4>1, WorkerStepTypes, InQueueFacts
        <4>3. rows \in Nat /\ taken' = taken
          BY <1>1 DEF streamVars, Types, RenderInv, NumbersOK
        <4> QED BY <3>1, <3>2, <4>1, <4>2, <4>3 DEF Ledger
      <3> QED BY <1>1, <1>2, <1>3, <2>1, <3>2, <3>3 DEF Told, Preview
    <2> QED BY <1>5, <2>2, <2>3 DEF WorkerRenders
  <1> QED BY <1>4, <1>5 DEF WorkerStep

\* When the output is decided on, the footer is settled by whether all rows taken are
\* shown, and all of the result is taken.
LEMMA DecideTold ==
  ASSUME Types, Told, Total' = Total, Total \in Nat, UNCHANGED renderVars,
         taken' \in 0..Total, pulled' \in 0..Total, taken' <= pulled', EndSeen', rows <= taken',
         left > 0 => rows < taken',
         NEW wholly \in BOOLEAN, Decide(wholly),
         wholly <=> rows = taken' /\ exhausted' /\ taken' = pulled',
         rows = taken' /\ taken' = pulled' => exhausted' \/ Exceeds
  PROVE  SaysWhatItShows'
  <1> SUFFICES ASSUME answer'.kind = "output" PROVE SaysWhatItShows'
    BY DEF SaysWhatItShows
  <1>1. answer'.wholly = wholly
    <2>1. ~late
      BY ErrorJsonType DEF Decide
    <2> QED BY <2>1, OutputType DEF Decide
  <1>2. Exact(wholly)' <=> wholly /\ ~omittedRows
    BY DEF Exact, renderVars
  <1>3. rows \in Nat /\ rows' = rows /\ UNCHANGED <<cellsTruncated, lost, result>>
    BY DEF renderVars, outVars, Types, RenderInv, NumbersOK
  <1>4. wholly => taken' = Total /\ rows = Total
    BY DEF EndSeen
  <1>5. omittedRows => Exceeds \/ rows < taken'
    BY DEF Told, Reasons
  <1>6. ~wholly => Exceeds \/ rows < Total
    BY <1>3
  <1>7. Exact(answer.wholly)' <=> Exact(wholly)'
    BY <1>1, Zenon DEF Exact
  <1>8. cellsTruncated = lost
    BY DEF Told, Reasons
  <1>9. Exact(answer.wholly)' => rows' = Total'
    BY <1>2, <1>3, <1>4, <1>7
  <1>10. ~Exact(answer.wholly)' => rows' < Total' \/ result'.header > MaxBytes - FOOTER_RESERVE
    BY <1>2, <1>3, <1>5, <1>6, <1>7 DEF Exceeds
  <1>11. cellsTruncated' <=> lost'
    BY <1>3, <1>8
  <1> QED BY <1>9, <1>10, <1>11, Zenon DEF SaysWhatItShows, Exact

\* A query that ends without output says nothing of its rows.
LEMMA EndTold ==
  ASSUME Told, UNCHANGED renderVars, pc' = "over", answer'.kind # "output",
         worker' = "done" => worker = "done" /\ queue' = queue
  PROVE  Told'
  <1>1. Reasons'
    BY DEF Told, Reasons, Exceeds, renderVars, outVars, rowVars
  <1>2. Preview'
    BY DEF Told, Preview, renderVars
  <1>3. SaysWhatItShows'
    BY DEF SaysWhatItShows
  <1> QED BY <1>1, <1>2, <1>3 DEF Told

\* The batches that were fetched are in the queue.
LEMMA FetchedTold ==
  ASSUME Types, Life, Told, Total \in Nat, Fetched
  PROVE  Told'
  <1>1. /\ Ledger /\ queue = <<>> /\ left = 0 /\ ~unrendered
        /\ pc' = "render" /\ worker' = "queued" /\ answer'.kind = "none" /\ UNCHANGED <<renderVars, unrendered>>
    BY DEF Fetched, Told, Preview, Life, Open, endVars
  <1>2. taken \in Nat /\ taken' \in Nat /\ taken <= taken'
    <2>1. Fetchmany(Want) /\ Want \in Nat
      BY WantType DEF Fetched, Types
    <2> QED BY <2>1, FetchmanyType DEF Types, FlagTypes, StreamTypes
  <1>3. taken' - taken \in Nat
    <2>1. taken \in Int /\ taken' \in Int
      BY <1>2
    <2> QED BY <1>2, <2>1, DifferenceIsNat
  <1>4. Len(queue') <= 2 /\ InQueue(queue') = taken' - taken
    BY <1>3, BatchesHold DEF Fetched
  <1>5. rows = taken
    BY <1>1 DEF Ledger, InQueue, Types, RenderInv, NumbersOK
  <1>6. Ledger'
    <2>1. rows' = taken /\ left' = 0
      BY <1>1, <1>5 DEF renderVars, outVars
    <2>2. \A t, n \in Nat : n = t + 0 + (n - t)
      OBVIOUS
    <2>3. rows' + left' + InQueue(queue') = taken'
      BY <1>2, <1>4, <2>1, <2>2
    <2> QED BY <1>4, <2>3 DEF Ledger
  <1>7. Reasons'
    BY <1>1 DEF Told, Reasons, Exceeds, renderVars, outVars, rowVars
  <1>8. SaysWhatItShows'
    BY <1>1 DEF SaysWhatItShows
  <1>9. Preview'
    BY <1>1, <1>6 DEF Preview
  <1> QED BY <1>7, <1>8, <1>9 DEF Told

LEMMA RenderedTold ==
  ASSUME Types, Life, Told, Total \in Nat, Rendered
  PROVE  Told'
  <1> DEFINE omitted == unrendered \/ (phase = "stopped" /\ (left > 0 \/ \E i \in DOMAIN queue : queue[i] > 0))
  <1>1. /\ pc = "render" /\ worker = "done" /\ worker' = "none" /\ unrendered' = omitted
        /\ UNCHANGED <<renderVars, streamVars, queue>>
    BY DEF Rendered
  <1>2. /\ Ledger /\ ~unrendered /\ answer.kind = "none"
        /\ phase = "stopped" \/ (phase = "idle" /\ queue = <<>> /\ left = 0)
    BY <1>1 DEF Told, Preview, Reasons, Life, Open
  <1>3. queue \in Seq(Nat) /\ rows \in 0..MaxRows /\ left \in Nat /\ taken \in Nat /\ Total' = Total
    BY <1>1, RenderStutters DEF Types, StreamTypes, RenderInv, NumbersOK
  <1>4. rows + left + InQueue(queue) = taken /\ InQueue(queue) \in Nat
    BY <1>2, <1>3, InQueueFacts DEF Ledger
  <1>5. omitted <=> rows < taken
    <2>1. InQueue(queue) > 0 <=> \E i \in DOMAIN queue : queue[i] > 0
      BY <1>2, <1>3, InQueueFacts DEF Ledger
    <2>2. CASE phase = "stopped"
      BY <1>2, <1>3, <1>4, <2>1, <2>2
    <2>3. CASE phase = "idle" /\ queue = <<>> /\ left = 0
      BY <1>2, <1>3, <1>4, <2>3 DEF InQueue
    <2> QED BY <1>2, <2>2, <2>3
  <1>6. Reasons' /\ (Ledger => Ledger')
    BY <1>1 DEF Told, Reasons, Exceeds, Ledger, renderVars, outVars, rowVars, streamVars
  <1> HIDE DEF omitted
  <1>7. CASE pc' = "look" /\ answer' = answer
    <2>1. SaysWhatItShows'
      BY <1>2, <1>7 DEF SaysWhatItShows
    <2>2. unrendered' <=> rows' < taken'
      BY <1>1, <1>5 DEF renderVars, outVars, streamVars
    <2> QED BY <1>1, <1>2, <1>6, <1>7, <2>1, <2>2 DEF Told, Preview
  <1>8. CASE pc' = "fetch" /\ phase # "stopped" /\ answer' = answer
    <2>1. SaysWhatItShows'
      BY <1>2, <1>8 DEF SaysWhatItShows
    <2>2. queue' = <<>> /\ left' = 0 /\ ~unrendered'
      BY <1>1, <1>2, <1>8 DEF renderVars, omitted
    <2> QED BY <1>1, <1>2, <1>6, <1>8, <2>1, <2>2 DEF Told, Preview
  <1>9. CASE /\ rows < MaxRows
             /\ phase = "stopped" \/ (exhausted /\ pulled = taken)
             /\ Decide(Wholly(FALSE, omitted))
    <2> DEFINE wholly == Wholly(FALSE, omitted)
    <2>1. pc' = "over" /\ UNCHANGED <<taken, pulled, exhausted>>
      BY <1>1, <1>9 DEF Decide, streamVars
    <2>2. wholly \in BOOLEAN /\ (wholly <=> rows = taken' /\ exhausted' /\ taken' = pulled')
      <3>1. wholly <=> ~omitted /\ exhausted' /\ taken' = pulled'
        BY DEF Wholly
      <3>2. ~omitted <=> rows = taken'
        BY <1>3, <1>4, <1>5, <2>1
      <3> QED BY <3>1, <3>2 DEF Wholly
    <2>3. rows <= taken' /\ (left > 0 => rows < taken')
      BY <1>3, <1>4, <2>1
    <2>4. rows = taken' /\ taken' = pulled' => exhausted' \/ Exceeds
      <3>1. phase = "stopped" => Exceeds \/ left > 0
        BY <1>3, <1>9, BudgetAssumption DEF Told, Reasons, BudgetAssumption
      <3>2. CASE phase = "stopped"
        <4>1. left > 0 => rows # taken'
          BY <1>3, <2>1, <2>3
        <4> QED BY <3>1, <3>2, <4>1
      <3>3. CASE exhausted
        BY <2>1, <3>3, Zenon
      <3> QED BY <1>9, <3>2, <3>3
    <2>5. EndSeen' /\ taken' \in 0..Total /\ pulled' \in 0..Total /\ taken' <= pulled'
      BY <1>3, <2>1 DEF Life, EndSeen, Types, StreamTypes
    <2> HIDE DEF wholly
    <2>6. Decide(wholly)
      BY <1>9 DEF wholly
    <2>7. SaysWhatItShows'
      BY <1>1, <1>3, <2>2, <2>3, <2>4, <2>5, <2>6, DecideTold
    <2> QED BY <1>1, <1>6, <2>1, <2>7 DEF Told, Preview
  <1> QED BY <1>7, <1>8, <1>9 DEF Rendered, omitted

\* One row beyond the last one shown: it is there, or the end of the stream is met.
LEMMA LookedTold ==
  ASSUME Types, Life, Told, Total \in Nat, Looked
  PROVE  Told'
  <1> DEFINE wholly == Wholly(taken' > taken, unrendered)
  <1>1. pc = "look" /\ UNCHANGED <<renderVars, workVars>> /\ Fetchmany(1) /\ Decide(wholly)
    BY DEF Looked
  <1>2. pc' = "over" /\ Total' = Total
    BY <1>1, RenderStutters DEF Decide, Types
  <1>3. Ledger /\ worker = "none" /\ (unrendered <=> rows < taken)
    BY <1>1 DEF Told, Preview
  <1>4. queue \in Seq(Nat) /\ rows \in Nat /\ left \in Nat /\ taken \in Nat /\ exhausted \in BOOLEAN
    BY DEF Types, StreamTypes, RenderInv, NumbersOK, FlagTypes
  <1>5. /\ pulled' \in 0..Total /\ taken' \in 0..Total /\ taken' <= pulled' /\ taken <= taken'
        /\ exhausted => pulled = Total
        /\ exhausted' => pulled' = Total
        /\ taken' - taken < 1 => exhausted' /\ taken' = pulled'
    BY <1>1, <1>4, FetchmanyType DEF Types, Life, EndSeen
  <1>6. rows <= taken /\ (left > 0 => rows < taken)
    <2>1. InQueue(queue) \in Nat /\ rows + left + InQueue(queue) = taken
      BY <1>3, <1>4, InQueueFacts DEF Ledger
    <2> QED BY <1>4, <2>1
  <1>7. wholly \in BOOLEAN /\ (wholly <=> rows = taken' /\ exhausted' /\ taken' = pulled')
    <2>1. wholly <=> ~(taken' > taken) /\ ~unrendered /\ exhausted' /\ taken' = pulled'
      BY DEF Wholly
    <2>2. ~(taken' > taken) /\ ~unrendered <=> rows = taken'
      BY <1>3, <1>4, <1>5, <1>6
    <2> QED BY <2>1, <2>2 DEF Wholly
  <1>8. rows <= taken' /\ (left > 0 => rows < taken') /\ (rows = taken' => exhausted')
    <2>1. PICK t \in Nat : t = taken' /\ taken <= t
      BY <1>1, <1>5
    <2>2. rows <= t /\ (left > 0 => rows < t) /\ (rows = t => t - taken < 1)
      <3>1. rows <= taken /\ (left > 0 => rows < taken)
        BY <1>6
      <3>2. \A r, n, k \in Nat : n <= k =>
              /\ r <= n => r <= k /\ (r = k => k - n < 1)
              /\ r < n => r < k
        OBVIOUS
      <3>3. rows \in Nat /\ taken \in Nat /\ t \in Nat
        BY <1>4, <2>1
      <3> QED BY <2>1, <3>1, <3>2, <3>3, Zenon
    <2> QED BY <1>5, <2>1, <2>2, Zenon
  <1>9. EndSeen'
    BY <1>2, <1>5 DEF EndSeen
  <1> HIDE DEF wholly
  <1>10. SaysWhatItShows'
    BY <1>1, <1>2, <1>5, <1>7, <1>8, <1>9, DecideTold
  <1>11. Reasons'
    BY <1>1 DEF Told, Reasons, Exceeds, renderVars, outVars, rowVars
  <1> QED BY <1>1, <1>2, <1>3, <1>10, <1>11 DEF Told, Preview, workVars

LEMMA NextTold == Types /\ Life /\ Told /\ [Next]_vars => Told'
  <1> SUFFICES ASSUME Types, Life, Told, [Next]_vars PROVE Told'
    OBVIOUS
  <1>1. Total \in Nat
    BY ResultType DEF Types, RenderInv
  <1>2. CASE WorkerStep
    BY <1>2, WorkerStepTold
  <1>3. CASE UNCHANGED vars
    <2>1. /\ UNCHANGED <<renderVars, worker, queue, unrendered, pc, taken, answer>> /\ Total' = Total
      BY <1>3, RenderStutters DEF vars, workVars, streamVars, endVars, Types
    <2>2. Reasons'
      BY <2>1 DEF Told, Reasons, Exceeds, renderVars, outVars, rowVars
    <2>3. Preview'
      BY <2>1 DEF Told, Preview, Ledger, renderVars, outVars, rowVars
    <2>4. SaysWhatItShows'
      BY <2>1 DEF Told, SaysWhatItShows, Exact, renderVars, outVars
    <2> QED BY <2>2, <2>3, <2>4 DEF Told
  <1>8. CASE ServerFinishes \/ CleanUp
    <2>1. /\ UNCHANGED <<renderVars, worker, queue, unrendered, pc, taken, answer>> /\ Total' = Total
      BY <1>8, RenderStutters DEF ServerFinishes, CleanUp, workVars, streamVars, Types
    <2>2. Reasons'
      BY <2>1 DEF Told, Reasons, Exceeds, renderVars, outVars, rowVars
    <2>3. Preview'
      BY <2>1 DEF Told, Preview, Ledger, renderVars, outVars, rowVars
    <2>4. SaysWhatItShows'
      BY <2>1 DEF Told, SaysWhatItShows, Exact, renderVars, outVars
    <2> QED BY <2>2, <2>3, <2>4 DEF Told
  <1>4. CASE Late \/ Accepted \/ Submitted
    <2>1. /\ UNCHANGED <<renderVars, worker, queue, unrendered, taken, answer>> /\ pc # "over"
          /\ pc' = pc \/ (pc \in Submission /\ pc' \in {"poll", "fetch"})
      BY <1>4 DEF Late, Accepted, Submitted, Submission, workVars, streamVars, endVars
    <2>2. answer.kind = "none"
      BY <2>1 DEF Life, Open
    <2>3. Reasons'
      BY <2>1 DEF Told, Reasons, Exceeds, renderVars, outVars, rowVars
    <2>4. Ledger /\ Ledger'
      BY <2>1 DEF Told, Preview, Ledger, renderVars, outVars
    <2>5. Preview'
      BY <2>1, <2>2, <2>4 DEF Told, Preview, renderVars, outVars, rowVars, Submission
    <2>6. SaysWhatItShows'
      BY <2>1, <2>2 DEF SaysWhatItShows
    <2> QED BY <2>3, <2>5, <2>6 DEF Told
  <1>5. CASE SubmitFails \/ FetchFails \/ RenderFails
    <2>1. Fail /\ UNCHANGED <<renderVars, queue>> /\ worker' \in {worker, "none"}
      BY <1>5 DEF SubmitFails, FetchFails, RenderFails, workVars
    <2>2. pc' = "over" /\ answer'.kind \in {"error", "timeout"}
      BY <2>1, ErrorJsonType DEF Fail
    <2> QED BY <2>1, <2>2, EndTold
  <1>6. CASE Deadline \/ DropQuery
    <2>1. pc' = "over" /\ worker' \in {"running", "none"} /\ UNCHANGED renderVars
      BY <1>6 DEF Deadline, DropQuery, DropWork
    <2>2. answer'.kind # "output"
      BY <1>6, ErrorJsonType DEF Deadline, DropQuery
    <2> QED BY <2>1, <2>2, EndTold
  <1>7. CASE Fetched \/ Rendered \/ Looked
    BY <1>1, <1>7, FetchedTold, RenderedTold, LookedTold
  <1> QED BY <1>2, <1>3, <1>4, <1>5, <1>6, <1>7, <1>8 DEF Next, Work, Answered

THEOREM ToldHolds == Spec => []Told
  BY InitTypes, NextTypes, InitLife, NextLife, InitTold, NextTold, PTL DEF Spec

\* The footer of a preview is true, whatever the result, the budgets, the sizes of
\* batches and the moment the stream meets its end: a total said to be exact is the
\* number of rows of the result, one that is not stands for a row not shown (or a
\* header without room), and cells are called truncated when and only when a
\* character of a shown row is missing.
THEOREM FooterIsTrue == Spec => []SaysWhatItShows
  <1>1. Told => SaysWhatItShows
    BY DEF Told
  <1> QED BY <1>1, ToldHolds, PTL

-----------------------------------------------------------------------------
(* Induction over the natural numbers, stated of a set of them              *)

LEMMA LeastElement ==
  ASSUME NEW S, S \subseteq Nat, S # {}
  PROVE  \E n \in S : \A m \in S : n <= m
  <1> DEFINE R == OpToRel(<, Nat)
  <1>1. IsWellFoundedOn(R, Nat)
    BY NatLessThanWellFounded
  <1>2. PICK n \in S : \A m \in S : ~(<<m, n>> \in R)
    <2> HIDE DEF R
    <2> QED BY <1>1, WFMin
  <1>3. \A m \in S : m \in Nat /\ n \in Nat /\ ~(m < n)
    BY <1>2 DEF OpToRel
  <1> QED BY <1>3

LEMMA SetInduction ==
  ASSUME NEW S, 0 \in S, \A n \in Nat : n \in S => n + 1 \in S
  PROVE  Nat \subseteq S
  <1> SUFFICES ASSUME ~(Nat \subseteq S) PROVE FALSE
    OBVIOUS
  <1> DEFINE T == Nat \ S
  <1>1. PICK n \in T : \A m \in T : n <= m
    <2>1. T \subseteq Nat /\ T # {}
      OBVIOUS
    <2> QED BY <2>1, LeastElement
  <1>2. n # 0 /\ n - 1 \in Nat
    OBVIOUS
  <1>3. n - 1 \in S
    BY <1>1, <1>2
  <1> QED BY <1>2, <1>3

-----------------------------------------------------------------------------
(* The bytes of a message                                                   *)

Counts == [utf8 : Nat, json : Nat, chars : Nat]
Nothing == [utf8 |-> 0, json |-> 0, chars |-> 0]

Whole(run, byte, utf8) == IF byte <= utf8 THEN 0 ELSE LeastOf(run.times, (byte - utf8) \div Utf8(run.char))

\* One run more.
With(run, byte, got) ==
  [utf8 |-> got.utf8 + run.times * Utf8(run.char),
   json |-> got.json + Whole(run, byte, got.utf8) * JsonOf(run.char),
   chars |-> got.chars + Whole(run, byte, got.utf8)]

LEMMA CharFacts ==
  ASSUME NEW run \in Runs
  PROVE  /\ run.times \in Nat
         /\ \/ Utf8(run.char) = 1 /\ JsonOf(run.char) = 1
            \/ Utf8(run.char) = 1 /\ JsonOf(run.char) = 2
            \/ Utf8(run.char) = 1 /\ JsonOf(run.char) = 6
            \/ Utf8(run.char) = 3 /\ JsonOf(run.char) = 3
  <1>1. run.times \in Nat /\ run.char \in {"plain", "quote", "control", "wide"}
    BY DEF Runs
  <1> QED BY <1>1 DEF Utf8, JsonOf

\* The characters before a byte of a run: none, all of them, or all but the one the
\* byte lies in.
LEMMA WholeFacts ==
  ASSUME NEW run \in Runs, NEW byte \in Nat, NEW utf8 \in Nat
  PROVE  /\ Whole(run, byte, utf8) \in 0..run.times
         /\ byte <= utf8 => Whole(run, byte, utf8) = 0
         /\ byte > utf8 /\ byte <= utf8 + run.times * Utf8(run.char) =>
              utf8 + Whole(run, byte, utf8) * Utf8(run.char) >= byte - 2
         /\ byte > utf8 + run.times * Utf8(run.char) => Whole(run, byte, utf8) = run.times
         /\ \A later \in Nat : byte <= later => Whole(run, byte, utf8) <= Whole(run, later, utf8)
  <1>1. run.times \in Nat /\ Utf8(run.char) \in {1, 3}
    BY CharFacts
  <1>2. CASE Utf8(run.char) = 1
    <2>1. \A b \in Nat : b > utf8 => (b - utf8) \div 1 = b - utf8
      OBVIOUS
    <2>2. \A b \in Nat : Whole(run, b, utf8) =
            IF b <= utf8 THEN 0 ELSE IF run.times <= b - utf8 THEN run.times ELSE b - utf8
      BY <1>2, <2>1 DEF Whole, LeastOf
    <2> QED BY <1>1, <1>2, <2>2
  <1>3. CASE Utf8(run.char) = 3
    <2>1. \A b \in Nat : b > utf8 => /\ (b - utf8) \div 3 \in Nat
                                     /\ 3 * ((b - utf8) \div 3) <= b - utf8
                                     /\ 3 * ((b - utf8) \div 3) >= b - utf8 - 2
      OBVIOUS
    <2>2. \A b \in Nat : Whole(run, b, utf8) =
            IF b <= utf8 THEN 0 ELSE IF run.times <= (b - utf8) \div 3 THEN run.times ELSE (b - utf8) \div 3
      BY <1>3 DEF Whole, LeastOf
    <2> QED BY <1>1, <1>3, <2>1, <2>2
  <1> QED BY <1>1, <1>2, <1>3

LEMMA WithType ==
  ASSUME NEW run \in Runs, NEW byte \in Nat, NEW got \in Counts
  PROVE  /\ With(run, byte, got) \in Counts
         /\ With(run, byte, got).utf8 = got.utf8 + run.times * Utf8(run.char)
         /\ With(run, byte, got).json = got.json + Whole(run, byte, got.utf8) * JsonOf(run.char)
         /\ With(run, byte, got).chars = got.chars + Whole(run, byte, got.utf8)
  <1>1. got.utf8 \in Nat /\ got.json \in Nat /\ got.chars \in Nat
    BY DEF Counts
  <1>2. Whole(run, byte, got.utf8) \in Nat
    <2>1. Whole(run, byte, got.utf8) \in 0..run.times
      BY <1>1, WholeFacts
    <2>2. run.times \in Nat
      BY CharFacts
    <2> QED BY <2>1, <2>2
  <1>3. run.times * Utf8(run.char) \in Nat /\ Whole(run, byte, got.utf8) * JsonOf(run.char) \in Nat
    BY <1>2, CharFacts
  <1> QED BY <1>1, <1>2, <1>3 DEF With, Counts

LEMMA ProductsGrow ==
  ASSUME NEW a \in Nat, NEW b \in Nat, a <= b, NEW v \in Nat, NEW w \in Nat, v <= w, NEW k \in {1, 2, 3, 6}
  PROVE  a + v * k <= b + w * k
  <1>1. CASE k = 1
    BY <1>1
  <1>2. CASE k = 2
    BY <1>2
  <1>3. CASE k = 3
    BY <1>3
  <1>4. CASE k = 6
    BY <1>4
  <1> QED BY <1>1, <1>2, <1>3, <1>4

LEMMA WithGrows ==
  ASSUME NEW run \in Runs, NEW byte \in Nat, NEW later \in Nat, byte <= later,
         NEW got \in Counts, NEW more \in Counts,
         more.utf8 = got.utf8, got.json <= more.json, got.chars <= more.chars
  PROVE  /\ With(run, later, more).utf8 = With(run, byte, got).utf8
         /\ With(run, byte, got).json <= With(run, later, more).json
         /\ With(run, byte, got).chars <= With(run, later, more).chars
  <1> DEFINE v == Whole(run, byte, got.utf8)
  <1> DEFINE w == Whole(run, later, got.utf8)
  <1> DEFINE k == JsonOf(run.char)
  <1>1. /\ got.utf8 \in Nat /\ got.json \in Nat /\ got.chars \in Nat
        /\ more.json \in Nat /\ more.chars \in Nat
    BY DEF Counts
  <1>2. v \in Nat /\ w \in Nat /\ v <= w /\ k \in {1, 2, 3, 6}
    <2>1. run.times \in Nat /\ k \in {1, 2, 3, 6}
      BY CharFacts
    <2>2. v \in 0..run.times /\ w \in 0..run.times /\ v <= w
      BY <1>1, WholeFacts
    <2> HIDE DEF v, w, k
    <2> QED BY <2>1, <2>2
  <1>3. /\ With(run, byte, got).json = got.json + v * k /\ With(run, byte, got).chars = got.chars + v
        /\ With(run, later, more).json = more.json + w * k /\ With(run, later, more).chars = more.chars + w
        /\ With(run, later, more).utf8 = With(run, byte, got).utf8
    BY WithType
  <1> HIDE DEF v, w, k
  <1>4. got.json + v * k <= more.json + w * k
    BY <1>1, <1>2, ProductsGrow
  <1>5. got.chars + v <= more.chars + w
    BY <1>1, <1>2
  <1> QED BY <1>3, <1>4, <1>5

\* The counts of all prefixes of a message.
Prefixes(text, byte, f) ==
  /\ f \in [0..Len(text) -> Counts]
  /\ f[0] = Nothing
  /\ \A n \in 1..Len(text) : f[n] = With(text[n], byte, f[n - 1])

LEMMA PrefixesExist ==
  ASSUME NEW text \in Seq(Runs), NEW byte \in Nat
  PROVE  \E f : Prefixes(text, byte, f)
  <1>0. Len(text) \in Nat /\ \A n \in 1..Len(text) : text[n] \in Runs
    BY LenProperties, ElementOfSeq
  <1> DEFINE UpTo(k) == \E f \in [0..k -> Counts] :
                          f[0] = Nothing /\ \A n \in 1..k : f[n] = With(text[n], byte, f[n - 1])
  <1> DEFINE S == {k \in Nat : k <= Len(text) => UpTo(k)}
  <1>1. 0 \in S
    <2>1. Nothing \in Counts
      BY DEF Nothing, Counts
    <2>2. [n \in 0..0 |-> Nothing] \in [0..0 -> Counts] /\ [n \in 0..0 |-> Nothing][0] = Nothing /\ \A n \in 1..0 : FALSE
      BY <2>1
    <2> QED BY <2>2
  <1>2. ASSUME NEW k \in Nat, k \in S PROVE k + 1 \in S
    <2> SUFFICES ASSUME k + 1 <= Len(text) PROVE UpTo(k + 1)
      OBVIOUS
    <2>1. PICK f \in [0..k -> Counts] : f[0] = Nothing /\ \A n \in 1..k : f[n] = With(text[n], byte, f[n - 1])
      BY <1>0, <1>2
    <2>2. With(text[k + 1], byte, f[k]) \in Counts
      <3>1. f[k] \in Counts /\ text[k + 1] \in Runs
        BY <1>0, <2>1
      <3> QED BY <3>1, WithType
    <2> DEFINE g == [n \in 0..(k + 1) |-> IF n = k + 1 THEN With(text[k + 1], byte, f[k]) ELSE f[n]]
    <2>3. g \in [0..(k + 1) -> Counts]
      BY <2>2
    <2>4. g[0] = Nothing
      BY <2>1
    <2>5. \A n \in 1..(k + 1) : g[n] = With(text[n], byte, g[n - 1])
      BY <2>1
    <2> HIDE DEF g
    <2> QED BY <2>3, <2>4, <2>5
  <1>3. Nat \subseteq S
    <2> HIDE DEF S
    <2> QED BY <1>1, <1>2, SetInduction
  <1>4. UpTo(Len(text))
    BY <1>0, <1>3
  <1> QED BY <1>4 DEF Prefixes

LEMMA BeforeIsPrefix ==
  ASSUME NEW text \in Seq(Runs), NEW byte \in Nat
  PROVE  \E f : Prefixes(text, byte, f) /\ Before(text, byte) = f[Len(text)]
  <1> DEFINE Computed(f) == f = [n \in 0..Len(text) |-> IF n = 0 THEN Nothing ELSE With(text[n], byte, f[n - 1])]
  <1>0. Len(text) \in Nat
    BY LenProperties
  <1>1. PICK f : Prefixes(text, byte, f)
    BY PrefixesExist
  <1>2. Computed(f)
    BY <1>0, <1>1 DEF Prefixes
  <1>3. Before(text, byte) = (CHOOSE g : Computed(g))[Len(text)]
    BY DEF Before, Nothing, With, Whole
  <1>4. PICK g : g = (CHOOSE h : Computed(h)) /\ Computed(g)
    <2> HIDE DEF Computed
    <2> QED BY <1>2
  <1>5. DOMAIN g = 0..Len(text) /\ g[0] = Nothing /\ \A n \in 1..Len(text) : g[n] = With(text[n], byte, g[n - 1])
    <2>1. g = [n \in 0..Len(text) |-> IF n = 0 THEN Nothing ELSE With(text[n], byte, g[n - 1])]
      BY <1>4
    <2>2. DOMAIN g = 0..Len(text) /\ g[0] = Nothing
      BY <1>0, <2>1
    <2>3. ASSUME NEW n \in 1..Len(text) PROVE g[n] = With(text[n], byte, g[n - 1])
      <3>1. n \in 0..Len(text) /\ n # 0
        BY <1>0
      <3> QED BY <2>1, <3>1
    <2> QED BY <2>2, <2>3
  <1>6. \A n \in 0..Len(text) : g[n] = f[n]
    <2> DEFINE S == {n \in Nat : n <= Len(text) => g[n] = f[n]}
    <2>1. 0 \in S
      BY <1>1, <1>5 DEF Prefixes
    <2>2. ASSUME NEW n \in Nat, n \in S PROVE n + 1 \in S
      BY <1>1, <1>5, <2>2 DEF Prefixes
    <2>3. Nat \subseteq S
      <3> HIDE DEF S
      <3> QED BY <2>1, <2>2, SetInduction
    <2> QED BY <1>0, <2>3
  <1>7. g[Len(text)] = f[Len(text)]
    BY <1>0, <1>6
  <1> HIDE DEF Computed
  <1> QED BY <1>1, <1>3, <1>4, <1>7

\* A later byte has no fewer characters before it, and the message is as long.
LEMMA BeforeGrows ==
  ASSUME NEW text \in Seq(Runs), NEW byte \in Nat, NEW later \in Nat, byte <= later
  PROVE  /\ Before(text, byte) \in Counts
         /\ Before(text, later).utf8 = Before(text, byte).utf8
         /\ Before(text, byte).json <= Before(text, later).json
         /\ Before(text, byte).chars <= Before(text, later).chars
  <1>0. Len(text) \in Nat /\ \A n \in 1..Len(text) : text[n] \in Runs
    BY LenProperties, ElementOfSeq
  <1>1. PICK f : Prefixes(text, byte, f) /\ Before(text, byte) = f[Len(text)]
    BY BeforeIsPrefix
  <1>2. PICK g : Prefixes(text, later, g) /\ Before(text, later) = g[Len(text)]
    BY BeforeIsPrefix
  <1> DEFINE Grows(n) == g[n].utf8 = f[n].utf8 /\ f[n].json <= g[n].json /\ f[n].chars <= g[n].chars
  <1> DEFINE S == {n \in Nat : n <= Len(text) => Grows(n)}
  <1>3. 0 \in S
    BY <1>1, <1>2 DEF Prefixes, Nothing
  <1>4. ASSUME NEW n \in Nat, n \in S PROVE n + 1 \in S
    <2> SUFFICES ASSUME n + 1 <= Len(text) PROVE Grows(n + 1)
      OBVIOUS
    <2> DEFINE run == text[n + 1]
    <2>0. Grows(n)
      BY <1>0, <1>4
    <2>a. run \in Runs /\ f[n] \in Counts /\ g[n] \in Counts
      <3>1. n \in 0..Len(text) /\ n + 1 \in 1..Len(text)
        BY <1>0
      <3>2. f \in [0..Len(text) -> Counts] /\ g \in [0..Len(text) -> Counts]
        BY <1>1, <1>2 DEF Prefixes
      <3> QED BY <1>0, <3>1, <3>2
    <2>1. Grows(n) /\ run \in Runs /\ f[n] \in Counts /\ g[n] \in Counts
      BY <2>0, <2>a
    <2>2. f[n + 1] = With(run, byte, f[n]) /\ g[n + 1] = With(run, later, g[n])
      BY <1>0, <1>1, <1>2 DEF Prefixes
    <2> HIDE DEF run
    <2> QED BY <2>1, <2>2, WithGrows
  <1>5. Nat \subseteq S
    <2> HIDE DEF S
    <2> QED BY <1>3, <1>4, SetInduction
  <1>6. Grows(Len(text))
    BY <1>0, <1>5
  <1>7. f[Len(text)] \in Counts
    BY <1>0, <1>1 DEF Prefixes
  <1> QED BY <1>1, <1>2, <1>6, <1>7

\* In JSON the characters before a byte take no less than in UTF-8, where the byte
\* may lie within one of three.
LEMMA BeforeIsNotLess ==
  ASSUME NEW text \in Seq(Runs), NEW byte \in Nat
  PROVE  /\ byte <= Before(text, byte).utf8 => Before(text, byte).json >= byte - 2
         /\ byte = 0 => Before(text, byte).json = 0
  <1>0. Len(text) \in Nat /\ \A n \in 1..Len(text) : text[n] \in Runs
    BY LenProperties, ElementOfSeq
  <1>1. PICK f : Prefixes(text, byte, f) /\ Before(text, byte) = f[Len(text)]
    BY BeforeIsPrefix
  <1> DEFINE Covers(u, j) == /\ IF byte <= u THEN j >= byte - 2 ELSE j >= u
                             /\ byte = 0 => j = 0
  <1> DEFINE S == {n \in Nat : n <= Len(text) => Covers(f[n].utf8, f[n].json)}
  <1>2. 0 \in S
    BY <1>1 DEF Prefixes, Nothing
  <1>3. ASSUME NEW n \in Nat, n \in S PROVE n + 1 \in S
    <2> SUFFICES ASSUME n + 1 <= Len(text) PROVE Covers(f[n + 1].utf8, f[n + 1].json)
      OBVIOUS
    <2> DEFINE run == text[n + 1]
    <2>1. Covers(f[n].utf8, f[n].json) /\ run \in Runs /\ f[n] \in Counts
      BY <1>0, <1>1, <1>3 DEF Prefixes
    <2>2. f[n + 1] = With(run, byte, f[n])
      BY <1>0, <1>1 DEF Prefixes
    <2> HIDE DEF run, Covers
    <2>3. PICK u \in Nat, j \in Nat : u = f[n].utf8 /\ j = f[n].json
      BY <2>1 DEF Counts
    <2>4. PICK t \in Nat, w \in Nat : t = run.times /\ w = Whole(run, byte, u) /\ w <= t
      <3>1. run.times \in Nat
        BY <2>1, CharFacts
      <3>2. Whole(run, byte, u) \in 0..run.times
        BY <2>1, WholeFacts
      <3> QED BY <3>1, <3>2
    <2>5. f[n + 1].utf8 = u + t * Utf8(run.char) /\ f[n + 1].json = j + w * JsonOf(run.char)
      BY <2>1, <2>2, <2>3, <2>4, WithType
    <2>6. /\ byte <= u => w = 0
          /\ byte > u /\ byte <= u + t * Utf8(run.char) => u + w * Utf8(run.char) >= byte - 2
          /\ byte > u + t * Utf8(run.char) => w = t
      BY <2>1, <2>4, WholeFacts
    <2>7. Covers(u, j)
      BY <2>1, <2>3
    <2>8. Covers(u + t * Utf8(run.char), j + w * JsonOf(run.char))
      <3>1. CASE Utf8(run.char) = 1 /\ JsonOf(run.char) = 1
        BY <2>6, <2>7, <3>1 DEF Covers
      <3>2. CASE Utf8(run.char) = 1 /\ JsonOf(run.char) = 2
        BY <2>6, <2>7, <3>2 DEF Covers
      <3>3. CASE Utf8(run.char) = 1 /\ JsonOf(run.char) = 6
        BY <2>6, <2>7, <3>3 DEF Covers
      <3>4. CASE Utf8(run.char) = 3 /\ JsonOf(run.char) = 3
        BY <2>6, <2>7, <3>4 DEF Covers
      <3> QED BY <2>1, <3>1, <3>2, <3>3, <3>4, CharFacts
    <2> QED BY <2>5, <2>8
  <1>4. Nat \subseteq S
    <2> HIDE DEF S
    <2> QED BY <1>2, <1>3, SetInduction
  <1>5. Covers(f[Len(text)].utf8, f[Len(text)].json)
    BY <1>0, <1>4
  <1>6. f[Len(text)].utf8 \in Nat
    BY <1>0, <1>1 DEF Prefixes, Counts
  <1> QED BY <1>1, <1>5, <1>6

-----------------------------------------------------------------------------
(* The binary search                                                        *)

\* One round of the search, which is settled by the rounds over shorter ranges.
Round(text, room, f, low, high) ==
  LET middle == low + (high - low + 1) \div 2
  IN  IF low >= high THEN low
      ELSE IF Before(text, middle).json <= room THEN f[<<middle, high>>] ELSE f[<<low, middle - 1>>]

LEMMA MiddleFacts ==
  ASSUME NEW low \in Nat, NEW high \in Nat, low < high
  PROVE  /\ low + (high - low + 1) \div 2 \in (low + 1)..high
         /\ high - (low + (high - low + 1) \div 2) < high - low
         /\ low + (high - low + 1) \div 2 - 1 - low < high - low
  OBVIOUS

LEMMA SearchRounds ==
  ASSUME NEW text \in Seq(Runs), NEW room \in Nat, NEW bytes \in Nat
  PROVE  \E f : /\ Search(text, room, bytes) = f[<<0, bytes>>]
                /\ \A low, high \in 0..bytes : f[<<low, high>>] = Round(text, room, f, low, high)
  <1> DEFINE P == (0..bytes) \X (0..bytes)
  <1> DEFINE Computed(f) == f = [ends \in P |-> Round(text, room, f, ends[1], ends[2])]
  <1> DEFINE UpTo(d, f) == \A low, high \in 0..bytes : high - low <= d => f[<<low, high>>] = Round(text, room, f, low, high)
  <1> DEFINE S == {d \in Nat : \E f : DOMAIN f = P /\ UpTo(d, f) /\ f = [ends \in P |-> f[ends]]}
  <1>1. 0 \in S
    <2> DEFINE f == [ends \in P |-> ends[1]]
    <2>1. \A low, high \in 0..bytes : f[<<low, high>>] = low
      OBVIOUS
    <2>2. \A low, high \in 0..bytes : high - low <= 0 => Round(text, room, f, low, high) = low
      BY DEF Round
    <2>3. UpTo(0, f)
      BY <2>1, <2>2
    <2>4. DOMAIN f = P /\ f = [ends \in P |-> f[ends]]
      OBVIOUS
    <2> HIDE DEF f, UpTo, P
    <2> QED BY <2>3, <2>4
  <1>2. ASSUME NEW d \in Nat, d \in S PROVE d + 1 \in S
    <2>1. PICK f : DOMAIN f = P /\ UpTo(d, f)
      BY <1>2
    <2> DEFINE g == [ends \in P |-> IF ends[2] - ends[1] <= d THEN f[ends] ELSE Round(text, room, f, ends[1], ends[2])]
    <2>2. \A low, high \in 0..bytes :
            g[<<low, high>>] = IF high - low <= d THEN f[<<low, high>>] ELSE Round(text, room, f, low, high)
      OBVIOUS
    <2>3. \A low, high \in 0..bytes : high - low <= d => g[<<low, high>>] = f[<<low, high>>]
      BY <2>2
    <2>4. ASSUME NEW low \in 0..bytes, NEW high \in 0..bytes, high - low <= d + 1
          PROVE  g[<<low, high>>] = Round(text, room, g, low, high)
      <3>1. g[<<low, high>>] = Round(text, room, f, low, high)
        BY <2>1, <2>2
      <3>2. CASE low >= high
        BY <3>1, <3>2 DEF Round
      <3>3. CASE low < high
        <4> DEFINE middle == low + (high - low + 1) \div 2
        <4>1. /\ middle \in 0..bytes /\ middle - 1 \in 0..bytes
              /\ high - middle <= d /\ middle - 1 - low <= d
          BY <2>4, <3>3, MiddleFacts
        <4> HIDE DEF middle
        <4>2. g[<<middle, high>>] = f[<<middle, high>>] /\ g[<<low, middle - 1>>] = f[<<low, middle - 1>>]
          BY <2>3, <4>1
        <4> USE DEF middle
        <4> HIDE DEF g
        <4> QED BY <3>1, <4>2 DEF Round
      <3> QED BY <3>2, <3>3
    <2>5. DOMAIN g = P /\ g = [ends \in P |-> g[ends]]
      OBVIOUS
    <2> HIDE DEF g, P
    <2> QED BY <2>4, <2>5
  <1>3. bytes \in S
    <2> HIDE DEF S
    <2> QED BY <1>1, <1>2, SetInduction
  <1>4. PICK f : DOMAIN f = P /\ UpTo(bytes, f) /\ f = [ends \in P |-> f[ends]]
    BY <1>3
  <1>5. Computed(f)
    <2>1. \A ends \in P : f[ends] = Round(text, room, f, ends[1], ends[2])
      <3> TAKE ends \in P
      <3>1. ends[1] \in 0..bytes /\ ends[2] \in 0..bytes /\ ends = <<ends[1], ends[2]>> /\ ends[2] - ends[1] <= bytes
        OBVIOUS
      <3> QED BY <1>4, <3>1
    <2> HIDE DEF P
    <2> QED BY <1>4, <2>1
  <1>6. Search(text, room, bytes) = (CHOOSE g : Computed(g))[<<0, bytes>>]
    BY DEF Search, Round
  <1>7. PICK g : g = (CHOOSE h : Computed(h)) /\ Computed(g)
    <2> HIDE DEF Computed
    <2> QED BY <1>5
  <1>8. ASSUME NEW low \in 0..bytes, NEW high \in 0..bytes PROVE g[<<low, high>>] = Round(text, room, g, low, high)
    <2>1. g = [ends \in P |-> Round(text, room, g, ends[1], ends[2])]
      BY <1>7
    <2>2. <<low, high>> \in P /\ <<low, high>>[1] = low /\ <<low, high>>[2] = high
      OBVIOUS
    <2> HIDE DEF P
    <2> QED BY <2>1, <2>2
  <1> HIDE DEF Computed
  <1> QED BY <1>6, <1>7, <1>8

\* The search ends at the last byte whose characters have room.
LEMMA SearchFinds ==
  ASSUME NEW text \in Seq(Runs), NEW room \in Nat, NEW bytes \in Nat
  PROVE  /\ Search(text, room, bytes) \in 0..bytes
         /\ Before(text, Search(text, room, bytes)).json <= room
         /\ \A byte \in 0..bytes : byte > Search(text, room, bytes) => Before(text, byte).json > room
  <1>1. PICK f : /\ Search(text, room, bytes) = f[<<0, bytes>>]
                 /\ \A low, high \in 0..bytes : f[<<low, high>>] = Round(text, room, f, low, high)
    BY SearchRounds
  <1> DEFINE J(byte) == Before(text, byte).json
  <1>2. \A a, b \in Nat : a <= b => J(a) \in Nat /\ J(b) \in Nat /\ J(a) <= J(b)
    <2> TAKE a, b \in Nat
    <2> HAVE a <= b
    <2>1. Before(text, a) \in Counts /\ Before(text, b) \in Counts /\ J(a) <= J(b)
      BY BeforeGrows
    <2> QED BY <2>1 DEF Counts
  <1>3. J(0) = 0
    BY BeforeIsNotLess
  <1> DEFINE Mid(low, high) == low + (high - low + 1) \div 2
  <1>4. \A low, high \in 0..bytes :
          f[<<low, high>>] = IF low >= high THEN low
                             ELSE IF J(Mid(low, high)) <= room THEN f[<<Mid(low, high), high>>]
                                  ELSE f[<<low, Mid(low, high) - 1>>]
    <2> TAKE low, high \in 0..bytes
    <2>1. f[<<low, high>>] = Round(text, room, f, low, high)
      BY <1>1
    <2> QED BY <2>1 DEF Round
  <1> HIDE DEF J, Mid
  <1> DEFINE Beyond(s) == \A byte \in 0..bytes : byte > s => J(byte) > room
  <1> DEFINE Found(s) == s \in 0..bytes /\ J(s) <= room /\ Beyond(s)
  <1> DEFINE UpTo(d) == \A low, high \in 0..bytes :
                          low <= high /\ high - low <= d /\ J(low) <= room /\ Beyond(high) => Found(f[<<low, high>>])
  <1> DEFINE S == {d \in Nat : UpTo(d)}
  <1>5. 0 \in S
    <2>1. ASSUME NEW low \in 0..bytes, NEW high \in 0..bytes, low <= high, high - low <= 0, J(low) <= room, Beyond(high)
          PROVE  Found(f[<<low, high>>])
      <3>1. low = high
        BY <2>1
      <3>a. low >= high
        BY <3>1
      <3>2. f[<<low, high>>] = low
        BY <1>4, <3>a, Zenon
      <3> QED BY <2>1, <3>1, <3>2
    <2> QED BY <2>1
  <1>6. ASSUME NEW d \in Nat, d \in S PROVE d + 1 \in S
    <2>0. UpTo(d)
      BY <1>6
    <2>1. ASSUME NEW low \in 0..bytes, NEW high \in 0..bytes, low <= high, high - low <= d + 1,
                 J(low) <= room, Beyond(high)
          PROVE  Found(f[<<low, high>>])
      <3>1. CASE low = high
        <4>a. low >= high
          BY <3>1
        <4>1. f[<<low, high>>] = low
          BY <1>4, <4>a, Zenon
        <4> QED BY <2>1, <3>1, <4>1
      <3>2. CASE low < high
        <4> DEFINE middle == Mid(low, high)
        <4>1. middle \in (low + 1)..high /\ high - middle < high - low /\ middle - 1 - low < high - low
          BY <3>2, MiddleFacts DEF Mid
        <4>2. f[<<low, high>>] = IF J(middle) <= room THEN f[<<middle, high>>] ELSE f[<<low, middle - 1>>]
          <5>1. ~(low >= high)
            BY <3>2
          <5>2. f[<<low, high>>] = IF low >= high THEN low
                                   ELSE IF J(middle) <= room THEN f[<<middle, high>>] ELSE f[<<low, middle - 1>>]
            BY <1>4
          <5> QED BY <5>1, <5>2, Zenon
        <4> HIDE DEF middle, Found, Beyond
        <4>3. middle \in 0..bytes /\ middle - 1 \in 0..bytes /\ high - middle <= d /\ middle - 1 - low <= d
          BY <2>1, <4>1
        <4>4. CASE J(middle) <= room
          <5>1. Found(f[<<middle, high>>])
            BY <2>0, <2>1, <4>1, <4>3, <4>4
          <5> QED BY <4>2, <4>4, <5>1
        <4>5. CASE ~(J(middle) <= room)
          <5>1. Beyond(middle - 1)
            <6> SUFFICES ASSUME NEW byte \in 0..bytes, byte > middle - 1 PROVE J(byte) > room
              BY DEF Beyond
            <6>1. J(middle) \in Nat /\ J(byte) \in Nat /\ J(middle) <= J(byte)
              BY <1>2, <4>3
            <6> QED BY <4>5, <6>1
          <5>2. Found(f[<<low, middle - 1>>])
            BY <2>0, <2>1, <4>1, <4>3, <5>1
          <5> QED BY <4>2, <4>5, <5>2
        <4> QED BY <4>4, <4>5
      <3> QED BY <2>1, <3>1, <3>2
    <2> QED BY <2>1
  <1>7. UpTo(bytes)
    <2>1. bytes \in S
      <3> HIDE DEF S
      <3> QED BY <1>5, <1>6, SetInduction
    <2> QED BY <2>1
  <1>8. Found(f[<<0, bytes>>])
    BY <1>3, <1>7
  <1> QED BY <1>1, <1>8 DEF J

\* Within any max that has room for what is fixed, error_json keeps to it, and a
\* message it shortens could not have been shown with one character more.
LEMMA ErrorJsonFits ==
  ASSUME NEW text \in Seq(Runs), NEW fixed \in Nat, NEW class \in Nat, NEW max \in Nat,
         fixed + Truncated <= max
  PROVE  LET e == error_json(text, fixed, class, max)
         IN  /\ e.bytes <= max
             /\ \A byte \in 1..Utf8Length(text) :
                  Before(text, byte).chars = e.chars + 1 => fixed + Truncated + Before(text, byte).json > max
  <1> DEFINE J(byte) == Before(text, byte).json
  <1> DEFINE C(byte) == Before(text, byte).chars
  <1> DEFINE length == Utf8Length(text)
  <1>1. length \in Nat /\ \A byte \in Nat : byte <= length => J(byte) >= byte - 2
    <2>1. Before(text, 0) \in Counts
      BY BeforeGrows
    <2>2. \A byte \in Nat : Before(text, byte).utf8 = length
      BY BeforeGrows DEF Utf8Length
    <2> QED BY <2>1, <2>2, BeforeIsNotLess DEF Counts, Utf8Length
  <1>2. \A a, b \in Nat : a <= b => J(a) \in Nat /\ C(a) \in Nat /\ C(b) \in Nat /\ C(a) <= C(b)
    <2> TAKE a, b \in Nat
    <2> HAVE a <= b
    <2>1. Before(text, a) \in Counts /\ Before(text, b) \in Counts /\ C(a) <= C(b)
      BY BeforeGrows
    <2> QED BY <2>1 DEF Counts
  <1> DEFINE end == LeastOf(length, max)
  <1>3. end \in Nat /\ end <= length /\ end <= max /\ (end < length => end = max)
    BY <1>1 DEF LeastOf
  <1> DEFINE whole == fixed + class + J(end) + (IF end < length THEN Truncated ELSE 0)
  <1> DEFINE room == max - fixed - Truncated
  <1>4. room \in Nat
    BY DEF Truncated
  <1> DEFINE s == Search(text, room, end)
  <1>5. s \in 0..end /\ J(s) <= room /\ \A byte \in 0..end : byte > s => J(byte) > room
    BY <1>3, <1>4, SearchFinds
  <1>6. error_json(text, fixed, class, max) =
          IF whole <= max THEN [bytes |-> whole, json |-> J(end), chars |-> C(end)]
          ELSE [bytes |-> fixed + Truncated + J(s), json |-> J(s), chars |-> C(s)]
    BY DEF error_json
  <1> HIDE DEF J, C, length, end, s
  \* Beyond max bytes of message there is no room in any case.
  <1>7. \A byte \in 1..length : byte > end => fixed + Truncated + J(byte) > max
    <2> TAKE byte \in 1..length
    <2> HAVE byte > end
    <2>a. byte \in Nat /\ byte <= length /\ end < length
      BY <1>1, <1>3
    <2>1. J(byte) \in Nat /\ J(byte) >= byte - 2 /\ end = max
      BY <1>1, <1>2, <1>3, <2>a
    <2> QED BY <1>3, <2>1 DEF Truncated
  <1>8. CASE whole <= max
    <2>1. ASSUME NEW byte \in 1..length, C(byte) = C(end) + 1 PROVE byte > end
      <3>1. SUFFICES ASSUME byte <= end PROVE FALSE
        BY <1>3
      <3>2. C(byte) \in Nat /\ C(end) \in Nat /\ C(byte) <= C(end)
        BY <1>2, <1>3, <3>1
      <3> QED BY <2>1, <3>2
    <2>2. error_json(text, fixed, class, max) = [bytes |-> whole, json |-> J(end), chars |-> C(end)]
      BY <1>6, <1>8
    <2> HIDE DEF whole
    <2> QED BY <1>7, <1>8, <2>1, <2>2 DEF J, C, length
  <1>9. CASE ~(whole <= max)
    <2>1. ASSUME NEW byte \in 1..length, C(byte) = C(s) + 1 PROVE fixed + Truncated + J(byte) > max
      <3>1. byte > s
        <4>1. SUFFICES ASSUME byte <= s PROVE FALSE
          BY <1>3, <1>5
        <4>2. C(byte) \in Nat /\ C(s) \in Nat /\ C(byte) <= C(s)
          BY <1>2, <1>3, <1>5, <4>1
        <4> QED BY <2>1, <4>2
      <3>2. CASE byte > end
        BY <1>7, <3>2
      <3>3. CASE byte <= end
        <4>a. byte \in Nat /\ byte \in 0..end /\ byte <= byte
          BY <1>1, <1>3, <3>3
        <4>1. J(byte) \in Nat /\ J(byte) > room
          BY <1>2, <1>5, <3>1, <4>a
        <4> QED BY <4>1 DEF Truncated
      <3> QED BY <1>1, <1>3, <3>2, <3>3
    <2>2. error_json(text, fixed, class, max) = [bytes |-> fixed + Truncated + J(s), json |-> J(s), chars |-> C(s)]
      BY <1>6, <1>9
    <2>3. fixed + Truncated + J(s) <= max
      <3>1. J(s) \in Nat
        BY <1>2, <1>3, <1>5
      <3> QED BY <1>5, <3>1 DEF Truncated
    <2> HIDE DEF whole, room
    <2> QED BY <2>1, <2>2, <2>3 DEF J, C, length
  <1> QED BY <1>8, <1>9

\* Whatever the message, in which characters and however long: an error keeps
\* max_bytes, and shows as much of its message as has room.
THEOREM ErrorsKeepTheBudget == Spec => []ErrorFits
  <1>1. Types => ErrorFits
    <2> SUFFICES ASSUME Types, answer.kind \in {"error", "timeout"}
                 PROVE  LET m == answer.message
                            e == error_json(m.text, m.fixed, m.class, MaxBytes)
                        IN  /\ e.bytes <= MaxBytes
                            /\ \A byte \in 1..Utf8Length(m.text) :
                                 Before(m.text, byte).chars = e.chars + 1 =>
                                   m.fixed + Truncated + Before(m.text, byte).json > MaxBytes
      BY DEF ErrorFits
    <2>1. PICK m \in Messages : m = answer.message
      BY DEF Types, AnswerTypes, Answers
    <2>2. /\ m.text \in Seq(Runs) /\ m.fixed \in Nat /\ m.class \in Nat
          /\ m.fixed + Truncated <= 256
      BY MessagesAssumption DEF MessagesAssumption
    <2>3. MaxBytes \in Nat /\ m.fixed + Truncated <= MaxBytes
      BY <2>2, BudgetAssumption DEF BudgetAssumption, Truncated
    <2> QED BY <2>1, <2>2, <2>3, ErrorJsonFits
  <1> QED BY <1>1, TypesHold, PTL
=============================================================================

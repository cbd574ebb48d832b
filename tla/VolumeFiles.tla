------------------------------ MODULE VolumeFiles ------------------------------
(***************************************************************************)
(* upload_volume_file and delete_volume_file (client/volume.rs) on one path *)
(* of a volume that others write to, drop and create as well.               *)
(***************************************************************************)
EXTENDS Requests

VARIABLES
  wants,   \* the call: a file there (PUT), none (DELETE), or it is a query
  place,   \* server: what the path has, or that its volume does not exist
  took,    \* history: the calls whose PUT or DELETE has done its work
  told     \* history: what the server has answered, if that arrived

volumeVars == <<wants, place, took, told>>

Places == {"no volume", "no file", "file"}

VolumeInit ==
  /\ wants = [c \in Calls |-> "nothing"]
  /\ place = "no file"
  /\ took = {}
  /\ told = [c \in Calls |-> "nothing"]

OnFiles == {"on_file"}

\* Nothing is spawned for them.
StartVolume(c) ==
  /\ phase[c] = "new" /\ c \notin Spawned
  /\ MoveTo(c, "on_file")
  /\ \E w \in {"file", "no file"} : wants' = [wants EXCEPT ![c] = w]
  /\ UNCHANGED <<worldVars, loopVars, request, place, took, told>>

VolumeToken(c) ==
  /\ phase[c] \in OnFiles
  /\ GetToken(c, FALSE) \/ CoroutineEnds(c, FALSE)
  /\ UNCHANGED volumeVars

NotFound(c) == place = "no volume" \/ (wants[c] = "no file" /\ place = "no file")

\* The server does what is asked for (PUT with overwrite=true, DELETE), or finds
\* nothing to do it to.
Handled(c) ==
  /\ Accepted(c)
  /\ IF NotFound(c)
     THEN UNCHANGED <<place, took>>
     ELSE place' = wants[c] /\ took' = took \cup {c}
  /\ UNCHANGED wants

Tell(c, answer) == told' = [told EXCEPT ![c] = answer]

\* Mutants: a 404 is an error like any other, or is always taken for success.
NotFoundIsAnError(c) == FALSE
NotFoundIsSuccess(c) == TRUE

\* "status == NOT_FOUND": the file is gone, which is what a removal asks for.
NotFoundIsFine(c) == wants[c] = "no file"

VolumeAnswered(c) ==
  /\ phase[c] \in OnFiles
  /\ AtStage(c, "sent")
  /\ Handled(c)
  /\ Tell(c, IF NotFound(c) THEN "not found" ELSE "done")
  /\ IF NotFound(c) /\ ~NotFoundIsFine(c)
     THEN Fail(c, "refused", TRUE, FALSE)
     ELSE MoveTo(c, "succeeded") /\ Fresh(c) /\ UNCHANGED <<eventLoop, sinkKnown>>
  /\ UNCHANGED <<worldVars, open, lastKnown>>

\* An attempt fails, done or not, and is repeated as if it had not happened; or
\* the server refuses it, whatever the attempts before have done.
VolumeFails(c) ==
  /\ phase[c] \in OnFiles
  /\ AtStage(c, "sent")
  /\ \E failure \in MayFail(c) :
       /\ AttemptFails(c, failure, TRUE, FALSE)
       /\ IF failure = "refused" THEN Tell(c, "refused") ELSE UNCHANGED told
       /\ \/ failure \in R!Ambiguous /\ Handled(c)
          \/ UNCHANGED <<wants, place, took>>
  /\ UNCHANGED <<worldVars, open, lastKnown>>

VolumeDropped(c) ==
  /\ phase[c] \in OnFiles
  /\ MoveTo(c, "cancelled")
  /\ Fresh(c)
  /\ \/ AtStage(c, "sent") /\ Handled(c)
     \/ UNCHANGED <<wants, place, took>>
  /\ UNCHANGED <<worldVars, loopVars, told>>

\* What others do to the path is of interest while a call is about it.
OtherWrites ==
  /\ \E c \in Calls : phase[c] \in OnFiles
  /\ place' \in Places \ {place}
  /\ UNCHANGED <<wants, took, told>>

VolumeStep(c) == VolumeToken(c) \/ VolumeAnswered(c) \/ VolumeFails(c)

\* Through lost answers, repeated requests and other writers, a caller is told
\* what is so.  A success has happened: the PUT of an upload was done, by this
\* attempt or an earlier one, and a removal was done or came upon no file.  And
\* what ends with a refusal was refused for a reason of the server's own, or for
\* want of a volume to upload to; never because an earlier attempt of the same
\* call, or somebody else, had done the work already (delete_volume_file: "the
\* file is already gone").
FileAnswersHold ==
  \A c \in Calls : wants[c] # "nothing" =>
    /\ phase[c] = "succeeded" => c \in took \/ (wants[c] = "no file" /\ told[c] = "not found")
    /\ phase[c] = "ArrowbricksError" /\ request[c].from = "status" =>
         told[c] = "refused" \/ (wants[c] = "file" /\ told[c] = "not found")
=============================================================================

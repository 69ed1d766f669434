------------------------------ MODULE RunVerdict ------------------------------
(***************************************************************************)
(* What a scenario run promises of its verdict and of its exit: a run is   *)
(* sound until the first thing that goes wrong and never again after it;   *)
(* it undoes its failure, takes its containers down and is judged, in that *)
(* order; and only a sound run with nothing left to undo or to take down   *)
(* is judged "passed" or ends sound.                                       *)
(*                                                                         *)
(* There are no commands, flags, signals or evidence files here:           *)
(* ScenarioRun has them all and implements this.                           *)
(***************************************************************************)

VARIABLES
  stage,        \* how far the run is
  sound,        \* nothing has gone wrong
  failure,      \* a failure was injected and is not known to be undone
  containers,   \* there are containers of the run
  verdict       \* what the pack of the run says

Stages == {"working", "undoing", "stopping", "judging", "closing", "ended"}

Init ==
  /\ stage = "working"
  /\ sound = TRUE
  /\ failure = FALSE
  /\ containers = FALSE
  /\ verdict = "none"

\* What is wrong stays wrong.
StaysUnsound == sound' \in BOOLEAN /\ (sound' => sound)

\* Containers come up while a run works, or late, behind the back of one that failed.
ContainersCome ==
  /\ stage = "working" \/ ~sound
  /\ containers' = TRUE
  /\ UNCHANGED <<stage, sound, failure, verdict>>

Inject ==
  /\ stage = "working"
  /\ failure' = TRUE
  /\ UNCHANGED <<stage, sound, containers, verdict>>

\* The work is done, or given up.
Leave ==
  /\ stage = "working" /\ stage' = "undoing"
  /\ StaysUnsound
  /\ UNCHANGED <<failure, containers, verdict>>

\* A sound run goes on only when nothing is left to undo.
Undo ==
  /\ stage = "undoing" /\ stage' = "stopping"
  /\ StaysUnsound
  /\ failure' \in {failure, FALSE} /\ ~(sound' /\ failure')
  /\ UNCHANGED <<containers, verdict>>

\* A sound run goes on only when its containers are gone.
TakeDown ==
  /\ stage = "stopping" /\ stage' = "judging"
  /\ StaysUnsound
  /\ containers' \in {containers, FALSE} /\ ~(sound' /\ containers')
  /\ UNCHANGED <<failure, verdict>>

\* A sound run is judged "passed", and no other is; a run without a pack is not judged.
Judge ==
  /\ stage = "judging" /\ stage' = "closing"
  /\ StaysUnsound
  /\ verdict' \in {"none", "passed", "failed"}
  /\ verdict' = "passed" <=> sound'
  /\ UNCHANGED <<failure, containers>>

\* Anything else that is done after the work may go wrong.
CleanUp ==
  /\ stage \in {"stopping", "closing"}
  /\ StaysUnsound
  /\ UNCHANGED <<stage, failure, containers, verdict>>

End ==
  /\ stage \in {"judging", "closing"} /\ stage' = "ended"
  /\ StaysUnsound
  /\ UNCHANGED <<failure, containers, verdict>>

\* A run that is cut short is not sound, wherever it was.
CutShort ==
  /\ stage \notin {"working", "ended"} /\ stage' = "ended"
  /\ sound' = FALSE
  /\ UNCHANGED <<failure, containers, verdict>>

Next ==
  \/ ContainersCome \/ Inject \/ Leave \/ Undo \/ TakeDown \/ Judge \/ CleanUp
  \/ End \/ CutShort

Spec == Init /\ [][Next]_<<stage, sound, failure, containers, verdict>>
=============================================================================

------------------------------ MODULE ResultPage ------------------------------
(***************************************************************************)
(* The submission form of student_docker/public/index.html: the submit      *)
(* handler, the result panel and the polling loops, one per accepted        *)
(* submission, that share the panel.                                        *)
(*                                                                         *)
(* Script code runs to its next await without interruption, so a step is    *)
(* what happens between two awaits.  The API behind the page is external    *)
(* here (SubmissionClient models it): it may accept a submission and yet    *)
(* answer with an error.  A status request it answers with the grading       *)
(* server's body, of which it checks the id alone: the body has the status   *)
(* at the time of the request, or none, or one the page does not know; or    *)
(* it answers with anything the loop skips.                                  *)
(***************************************************************************)
EXTENDS Integers

CONSTANTS
  Id,          \* submission ids the server hands out
  MaxPolls,    \* requests a polling loop makes (600 in the code)
  MaxMishaps,  \* bound on failing submits, empty forms and page reloads
  None

ASSUME PageBounds == MaxPolls \in Nat \ {0} /\ MaxMishaps \in Nat
ASSUME PageNone == None \notin Id

VARIABLES
  posting, \* number of submit handlers that await their POST
  button,  \* "enabled" or "disabled"
  reply,   \* the accepted id the POST is about to return, or None
  panel,   \* the result area; known is history: the status came from the body
  loop,    \* pollSubmission, per id
  status,  \* the server: status of each id
  seen,    \* history: the furthest status an answer has had shown for each id
  mishaps

vars == <<posting, button, reply, panel, loop, status, seen, mishaps>>

Progress == [queued |-> 1, running |-> 2, done |-> 3, error |-> 3]
Status == DOMAIN Progress
Terminal == {"done", "error"}
\* Bodies that are shown although they carry no status of these: none, another.
Vague == {"bare", "other"}
ASSUME PageStatus == None \notin Status \cup Vague \cup {"skip"}

NoLoop == [at |-> "none", attempt |-> 0, answer |-> None]
EmptyPanel ==
  [success |-> FALSE, error |-> FALSE, id |-> None, status |-> None, known |-> FALSE]

Init ==
  /\ posting = 0
  /\ button = "enabled"
  /\ reply = None
  /\ panel = EmptyPanel
  /\ loop = [i \in Id |-> NoLoop]
  /\ status = [i \in Id |-> None]
  /\ seen = [i \in Id |-> 0]
  /\ mishaps = 0

-----------------------------------------------------------------------------
(* The panel *)

\* hideResults: the texts stay.
HideResults == panel' = [panel EXCEPT !.success = FALSE, !.error = FALSE]

\* showError: the success part is left as it is.
ShowError == panel' = [panel EXCEPT !.error = TRUE]

\* data.status || 'queued'
Displayed(x) == IF x = "bare" THEN "queued" ELSE x

\* showSuccess: the error part is left as it is.
ShowSuccess(i, x) ==
  /\ panel' = [panel EXCEPT !.success = TRUE, !.id = i, !.status = Displayed(x), !.known = x \in Status]
  /\ seen' = IF x \in Status /\ Progress[x] > seen[i] THEN [seen EXCEPT ![i] = Progress[x]] ELSE seen

-----------------------------------------------------------------------------
(* The submit handler *)

Mishap == mishaps < MaxMishaps /\ mishaps' = mishaps + 1

\* The form is sent with an empty field.
SubmitEmpty ==
  /\ button = "enabled"
  /\ Mishap
  /\ ShowError
  /\ UNCHANGED <<posting, button, reply, loop, status, seen>>

\* setLoading(true)
Disable == button' = "disabled"

\* A disabled default button also blocks Enter.
Submit ==
  /\ button = "enabled"
  /\ posting' = posting + 1
  /\ \E i \in Id : status[i] = None
  /\ Disable
  /\ HideResults
  /\ UNCHANGED <<reply, loop, status, seen, mishaps>>

\* The API accepts the upload under a new id.
ServerAccepts(i) ==
  /\ posting > 0 /\ reply = None
  /\ status[i] = None
  /\ status' = [status EXCEPT ![i] = "queued"]
  /\ reply' = i
  /\ UNCHANGED <<posting, button, panel, loop, seen, mishaps>>

\* Mutant: the error path leaves the button disabled.
EnableOnSuccess ==
  /\ button' = (IF panel'.success THEN "enabled" ELSE button)
  /\ posting' = posting - 1 /\ reply' = None

\* The finally block
Enable == button' = "enabled" /\ posting' = posting - 1 /\ reply' = None

\* The POST answers 2xx with the status it had when it was accepted; the
\* polling loop starts and sleeps.
SubmitSucceeds ==
  /\ posting > 0 /\ reply # None
  /\ ShowSuccess(reply, "queued")
  /\ loop' = [loop EXCEPT ![reply].at = "sleeping"]
  /\ Enable
  /\ UNCHANGED <<status, mishaps>>

\* The POST answers with an error, or not at all, also after an acceptance.
SubmitFails ==
  /\ posting > 0
  /\ IF reply = None THEN UNCHANGED mishaps ELSE Mishap
  /\ ShowError
  /\ Enable
  /\ UNCHANGED <<loop, status, seen>>

-----------------------------------------------------------------------------
(* pollSubmission *)

At(i, label, n, x) == loop' = [loop EXCEPT ![i] = [at |-> label, attempt |-> n, answer |-> x]]

\* Three seconds are over: fetch.
Ask(i) ==
  /\ loop[i].at = "sleeping"
  /\ At(i, "asked", loop[i].attempt, None)
  /\ UNCHANGED <<posting, button, reply, panel, status, seen, mishaps>>

\* What the API answers: a body with the status, one without a status of the
\* page's, or anything that is not ok or no JSON.
ServerAnswers(i) ==
  /\ loop[i].at = "asked" /\ loop[i].answer = None
  /\ \E x \in {status[i], "skip"} \cup Vague : At(i, "asked", loop[i].attempt, x)
  /\ UNCHANGED <<posting, button, reply, panel, status, seen, mishaps>>

\* Mutant: a skipped answer does not count as an attempt.
AgainUncounted(i) ==
  LET n == IF loop[i].answer = "skip" THEN loop[i].attempt ELSE loop[i].attempt + 1
  IN At(i, IF n = MaxPolls THEN "over" ELSE "sleeping", n, None)

\* The next round of the loop, unless it was the last one.
Again(i) ==
  LET n == loop[i].attempt + 1
  IN At(i, IF n = MaxPolls THEN "over" ELSE "sleeping", n, None)

Skipped(i) ==
  /\ loop[i].answer = "skip"
  /\ Again(i)
  /\ UNCHANGED <<posting, button, reply, panel, status, seen, mishaps>>

\* Mutant: the loop goes on after a final status.
ShownAndOn(i) ==
  /\ loop[i].answer \in Status \cup Vague
  /\ ShowSuccess(i, loop[i].answer)
  /\ Again(i)
  /\ UNCHANGED <<posting, button, reply, status, mishaps>>

Shown(i) ==
  /\ loop[i].answer \in Status \cup Vague
  /\ ShowSuccess(i, loop[i].answer)
  /\ IF loop[i].answer \in Terminal THEN At(i, "over", loop[i].attempt, None) ELSE Again(i)
  /\ UNCHANGED <<posting, button, reply, status, mishaps>>

-----------------------------------------------------------------------------
(* The server's queue, and the browser *)

ServerWorks(i) ==
  /\ \/ status[i] = "queued" /\ status' = [status EXCEPT ![i] = "running"]
     \/ status[i] = "running" /\ \E s \in Terminal : status' = [status EXCEPT ![i] = s]
  /\ UNCHANGED <<posting, button, reply, panel, loop, seen, mishaps>>

\* A reload drops the handler, the loops and the panel.
Reload ==
  /\ Mishap
  /\ posting' = 0 /\ button' = "enabled" /\ reply' = None
  /\ panel' = EmptyPanel
  /\ loop' = [i \in Id |-> NoLoop]
  /\ seen' = [i \in Id |-> 0]
  /\ UNCHANGED status

Poll(i) == Ask(i) \/ ServerAnswers(i) \/ Skipped(i) \/ Shown(i)
Post == SubmitSucceeds \/ SubmitFails \/ \E i \in Id : ServerAccepts(i)

Finished ==
  /\ posting = 0
  /\ \A i \in Id : status[i] \in Terminal /\ loop[i].at \in {"none", "over"}
  /\ UNCHANGED vars

Next ==
  \/ SubmitEmpty \/ Submit \/ Post \/ Reload
  \/ \E i \in Id : Poll(i) \/ ServerWorks(i)
  \/ Finished

Spec == Init /\ [][Next]_vars

\* Requests are answered or fail, and timers fire.
FairSpec == Spec /\ WF_vars(SubmitSucceeds \/ SubmitFails) /\ \A i \in Id : WF_vars(Poll(i))
-----------------------------------------------------------------------------
(* Properties *)

\* A status that was shown stands, however the answers of several loops
\* interleave: the panel goes back behind it only on an answer that carries no
\* status of the page's, and behind a final one not even then.
ShownStatusStands ==
  panel.id # None =>
    IF panel.known THEN Progress[panel.status] = seen[panel.id] ELSE seen[panel.id] < 3

\* Every way out of the submit handler gives the button back.
ButtonComesBack == button = "disabled" ~> button = "enabled"

\* A polling loop ends: it has shown the final status, or it has made all of
\* its requests; a reload takes it away.
EveryLoopEnds ==
  \A i \in Id : loop[i].at = "sleeping" ~>
     \/ loop[i].at = "over" /\ (seen[i] = 3 \/ loop[i].attempt = MaxPolls)
     \/ loop[i].at = "none"
=============================================================================

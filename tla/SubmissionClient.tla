--------------------------- MODULE SubmissionClient ---------------------------
(***************************************************************************)
(* The submission path of the participant API: POST /submit and            *)
(* GET /submissions/<id> of student_docker/app/api/routes.py, over          *)
(* app/services/local_submission.py, with the network and the central       *)
(* grading server they talk to.                                             *)
(*                                                                         *)
(* Requests are served by threads of one process.  An upload may time out,  *)
(* break off or be answered by a proxy while the server goes on with it;    *)
(* the process may be killed and restarted at any point.                    *)
(*                                                                         *)
(* Simplifications:                                                        *)
(*  - create_snapshot is one step with the contract of DurableMap, which    *)
(*    SnapshotStore is shown to implement;                                  *)
(*  - uuid4 never repeats;                                                  *)
(*  - the grading server is external: it verifies the digest, takes an id   *)
(*    once, counts attempts, and answers a request it did not accept with   *)
(*    anything but an acknowledgement of that id.  Nothing says which other *)
(*    keys its acknowledgements carry.  A proxy in between may answer early *)
(*    or change an answer, but not into one of the two that the code takes  *)
(*    as definite, a refusing status and a 2xx body about something else:   *)
(*    those come from the server alone, before it accepts.                  *)
(***************************************************************************)
EXTENDS Integers, FiniteSets

CONSTANTS
  Request,     \* POST /submit requests
  Query,       \* GET /submissions/<id> requests
  Id,          \* UUIDs
  Artifact,    \* contents of the selected model file
  MaxAttempts, \* attempts the server grants the team
  Budget,      \* bounds: edits, failing calls, crashes
  None

Costs == {"edit", "fault", "crash"}

ASSUME AttemptsAssumption == MaxAttempts \in Nat
ASSUME ClientBudget == Budget \in [Costs -> Nat]

VARIABLES
  model,   \* the selected file under /workspace/models, or None
  lock,    \* holder of _SUBMISSION_LOCK
  pc,      \* where each request is
  uid,     \* submission_id of each request, once drawn
  verdict, \* what the handler decided
  frozen,  \* the snapshot store
  wire,    \* uploads on their way to the server
  reply,   \* what the connection of each request has delivered
  known,   \* the server: the artifact it accepted for each id
  told,    \* the ids a client was told, in a 202 or in the hint of a 503
  query,   \* the status requests
  left     \* what is left of Budget

vars == <<model, lock, pc, uid, verdict, frozen, wire, reply, known, told, query, left>>
server == <<wire, known>>

-----------------------------------------------------------------------------
(* Types and the initial state *)

\* Labels at which the request holds _SUBMISSION_LOCK.
Holding == {"select", "freeze", "upload", "wait", "release"}
Labels == Holding \cup {"new", "respond", "done", "lost"}

\* 202; 503; 502; 409; 400, 401, 404 or 500 before or instead of an upload; the
\* 500 of an acknowledgement that is no SubmitResponse.
Verdicts == {"accepted", "pending", "rejected", "busy", "failed", "invalid"}

\* A matching 2xx; one without the status or the remaining attempts that
\* SubmitResponse requires; a 5xx, 408, 425 or 429; another error status; a 2xx
\* body that is no JSON; a 2xx body about something else.
Replies == {"ack", "bare", "temporary", "refuse", "garbled", "foreign"}
ASSUME ClientNone == None \notin Request \cup Id \cup Artifact \cup Verdicts \cup Replies

Upload == [by: Request, id: Id, data: Artifact]
\* taken is history: the server had the id when the question was asked.
QueryStates == [pc: {"idle", "asked", "answered"}, id: Id \cup {None}, taken: BOOLEAN,
                seen: {"none", "status", "unknown", "temporary", "garbled"},
                out: {"none", "status", "notFound", "unavailable"}]

TypeOK ==
  /\ model \in Artifact \cup {None}
  /\ lock \in Request \cup {None}
  /\ pc \in [Request -> Labels]
  /\ uid \in [Request -> Id \cup {None}]
  /\ verdict \in [Request -> Verdicts \cup {None}]
  /\ frozen \in [Id -> Artifact \cup {None}]
  /\ wire \subseteq Upload
  /\ reply \in [Request -> Replies \cup {None}]
  /\ known \in [Id -> Artifact \cup {None}]
  /\ told \subseteq Id
  /\ query \in [Query -> QueryStates]
  /\ left \in [Costs -> Nat]

QueryRecord(label, i, t, x, o) == [pc |-> label, id |-> i, taken |-> t, seen |-> x, out |-> o]
NoQuery == QueryRecord("idle", None, FALSE, "none", "none")

Init ==
  /\ model \in Artifact \cup {None}
  /\ lock = None
  /\ pc = [r \in Request |-> "new"]
  /\ uid = [r \in Request |-> None]
  /\ verdict = [r \in Request |-> None]
  /\ frozen = [i \in Id |-> None]
  /\ wire = {}
  /\ reply = [r \in Request |-> None]
  /\ known = [i \in Id |-> None]
  /\ told = {}
  /\ query = [q \in Query |-> NoQuery]
  /\ left = Budget

Pay(cost) == left[cost] > 0 /\ left' = [left EXCEPT ![cost] = @ - 1]
Goto(r, label) == pc' = [pc EXCEPT ![r] = label]
Conclude(r, v, label) == Goto(r, label) /\ verdict' = [verdict EXCEPT ![r] = v]

-----------------------------------------------------------------------------
(* POST /submit *)

\* The participant saves, replaces or deletes the model file.
Edit ==
  /\ Pay("edit")
  /\ model' \in (Artifact \cup {None}) \ {model}
  /\ UNCHANGED <<lock, pc, uid, verdict, frozen, server, reply, told, query>>

\* The password check of submit_model, or its missing secret.
TurnAway(r) ==
  /\ pc[r] = "new"
  /\ Pay("fault")
  /\ Conclude(r, "failed", "respond")
  /\ UNCHANGED <<model, lock, uid, frozen, server, reply, told, query>>

\* Mutant of Acquire: the lock is not looked at.
AcquireAlways(r) ==
  /\ lock' = r
  /\ Goto(r, "select")
  /\ UNCHANGED verdict

\* _SUBMISSION_LOCK.acquire(blocking=False)
Acquire(r) ==
  IF lock = None
  THEN lock' = r /\ Goto(r, "select") /\ UNCHANGED verdict
  ELSE Conclude(r, "busy", "respond") /\ UNCHANGED lock

Enter(r) ==
  /\ pc[r] = "new"
  /\ Acquire(r)
  /\ UNCHANGED <<model, uid, frozen, server, reply, told, query, left>>

\* selected_model_path refuses the name, or uuid4 gives the id.
Select(r) ==
  /\ pc[r] = "select"
  /\ \/ /\ Conclude(r, "failed", "release")
        /\ Pay("fault")
        /\ UNCHANGED uid
     \/ /\ Goto(r, "freeze")
        /\ \E i \in Id \ {uid[s] : s \in Request} : uid' = [uid EXCEPT ![r] = i]
        /\ UNCHANGED <<verdict, left>>
  /\ UNCHANGED <<model, lock, frozen, server, reply, told, query>>

\* create_snapshot under a fresh id.
FreezeModel(r) ==
  /\ pc[r] = "freeze"
  /\ model # None
  /\ frozen' = [frozen EXCEPT ![uid[r]] = model]
  /\ Goto(r, "upload")
  /\ UNCHANGED <<model, lock, uid, verdict, server, reply, told, query, left>>

\* It raises: no file, or a failing call, even one after the marker stands.
FreezeFails(r) ==
  /\ pc[r] = "freeze"
  /\ Conclude(r, "failed", "release")
  /\ \/ model = None /\ UNCHANGED <<frozen, left>>
     \/ /\ model # None
        /\ Pay("fault")
        /\ frozen' \in {frozen, [frozen EXCEPT ![uid[r]] = model]}
  /\ UNCHANGED <<model, lock, uid, server, reply, told, query>>

\* No usable URL or an unreadable artifact is pending, no TEAM_ID is rejected, no
\* token is a plain RuntimeError.
PrepareFails(r) ==
  /\ pc[r] = "upload"
  /\ Pay("fault")
  /\ \E v \in {"pending", "rejected", "failed"} : Conclude(r, v, "release")
  /\ UNCHANGED <<model, lock, uid, frozen, server, reply, told, query>>

\* Mutant of Body: the selected file is uploaded, not its snapshot.
BodyOfModel(r) == IF model = None THEN frozen[uid[r]] ELSE model

\* _upload streams the frozen artifact.
Body(r) == frozen[uid[r]]

Send(r) ==
  /\ pc[r] = "upload"
  /\ wire' = wire \cup {[by |-> r, id |-> uid[r], data |-> Body(r)]}
  /\ Goto(r, "wait")
  /\ UNCHANGED <<model, lock, uid, verdict, frozen, reply, known, told, query, left>>

\* Mutant of GiveUp: a connection error counts as a refusal.
GiveUpRejected(r) ==
  /\ pc[r] = "wait"
  /\ reply[r] = None
  /\ Conclude(r, "rejected", "release")
  /\ UNCHANGED <<model, lock, uid, frozen, server, reply, told, query, left>>

\* requests raises: a time-out or a broken connection.  The server may have the
\* whole upload by then.
GiveUp(r) ==
  /\ pc[r] = "wait"
  /\ reply[r] = None
  /\ Conclude(r, "pending", "release")
  /\ UNCHANGED <<model, lock, uid, frozen, server, reply, told, query, left>>

\* Mutant of Classify: any 2xx counts as an acknowledgement.
ClassifyTrusting(x) ==
  IF x \in {"ack", "bare", "foreign"} THEN "accepted"
  ELSE IF x = "refuse" THEN "rejected" ELSE "pending"

\* _upload compares the id, the team, the digest and the size, nothing else.
Classify(x) ==
  IF x \in {"ack", "bare"} THEN "accepted"
  ELSE IF x \in {"refuse", "foreign"} THEN "rejected" ELSE "pending"

Answered(r) ==
  /\ pc[r] = "wait"
  /\ reply[r] # None
  /\ Conclude(r, Classify(reply[r]), "release")
  /\ UNCHANGED <<model, lock, uid, frozen, server, reply, told, query, left>>

Release(r) ==
  /\ pc[r] = "release"
  /\ lock' = None
  /\ Goto(r, "respond")
  /\ UNCHANGED <<model, uid, verdict, frozen, server, reply, told, query, left>>

\* SubmitResponse.model_validate stands outside the handler's try block.
Validated(r) == IF verdict[r] = "accepted" /\ reply[r] = "bare" THEN "invalid" ELSE verdict[r]

\* Mutant of Hint: the pending error is raised without the submission id.
HintOmitted(r) == IF Validated(r) = "accepted" THEN {uid[r]} ELSE {}

\* The ids in the response: the body of a 202, the text of a 503.
Hint(r) == IF Validated(r) \in {"accepted", "pending"} THEN {uid[r]} ELSE {}

Respond(r) ==
  /\ pc[r] = "respond"
  /\ Conclude(r, Validated(r), "done")
  /\ told' = told \cup Hint(r)
  /\ UNCHANGED <<model, lock, uid, frozen, server, reply, query, left>>

-----------------------------------------------------------------------------
(* The grading server and what lies in between *)

Deliver(m, x) ==
  reply' = IF pc[m.by] = "wait" /\ uid[m.by] = m.id
           THEN [reply EXCEPT ![m.by] = x] ELSE reply

Attempts == Cardinality({i \in Id : known[i] # None})

ServerAccepts(m) ==
  /\ m \in wire
  /\ Attempts < MaxAttempts
  /\ wire' = wire \ {m}
  /\ known' = [known EXCEPT ![m.id] = m.data]
  /\ \E x \in {"ack", "bare", "temporary", "garbled", None} : Deliver(m, x)
  /\ UNCHANGED <<model, lock, pc, uid, verdict, frozen, told, query, left>>

ServerRefuses(m) ==
  /\ m \in wire
  /\ wire' = wire \ {m}
  /\ \E x \in {"temporary", "refuse", "garbled", "foreign", None} : Deliver(m, x)
  /\ UNCHANGED <<model, lock, pc, uid, verdict, frozen, known, told, query, left>>

\* A proxy runs out of patience before the server does.
ProxyAnswers(m) ==
  /\ m \in wire
  /\ Deliver(m, "temporary")
  /\ UNCHANGED <<model, lock, pc, uid, verdict, frozen, server, told, query, left>>

-----------------------------------------------------------------------------
(* GET /submissions/<id> *)

Ask(q, i) ==
  /\ query[q].pc = "idle"
  /\ query[q].out = "none"
  /\ query' = [query EXCEPT ![q] = QueryRecord("asked", i, known[i] # None, "none", "none")]
  /\ UNCHANGED <<model, lock, pc, uid, verdict, frozen, server, reply, told, left>>

\* The answer is as of the moment the server looks; or a proxy's, or a broken
\* connection or a missing setting, which get_remote_submission treats alike.
Look(q) ==
  /\ query[q].pc = "asked"
  /\ \E x \in {IF known[query[q].id] = None THEN "unknown" ELSE "status",
               "temporary", "garbled"} :
       query' = [query EXCEPT ![q] = QueryRecord("answered", @.id, @.taken, x, "none")]
  /\ UNCHANGED <<model, lock, pc, uid, verdict, frozen, server, reply, told, left>>

\* The ValueError of response.json is not caught where it is raised; the handler
\* turns it into the 404 meant for a malformed id.
StatusCode(x) ==
  IF x = "status" THEN "status"
  ELSE IF x = "temporary" THEN "unavailable" ELSE "notFound"

Report(q) ==
  /\ query[q].pc = "answered"
  /\ query' = [query EXCEPT ![q] =
                  QueryRecord("idle", @.id, @.taken, @.seen, StatusCode(@.seen))]
  /\ UNCHANGED <<model, lock, pc, uid, verdict, frozen, server, reply, told, left>>

-----------------------------------------------------------------------------
(* Crash, and the specification *)

\* The API process is killed and supervisord starts another: the lock is in
\* memory, connections break, what is on disk or on the wire stays.
Crash ==
  /\ Pay("crash")
  /\ lock' = None
  /\ pc' = [r \in Request |-> IF pc[r] \in Holding \cup {"respond"} THEN "lost" ELSE pc[r]]
  /\ reply' = [r \in Request |-> None]
  /\ query' = [q \in Query |-> IF query[q].pc = "idle" THEN query[q] ELSE NoQuery]
  /\ UNCHANGED <<model, uid, verdict, frozen, server, told>>

Step(r) ==
  \/ Enter(r) \/ Select(r) \/ FreezeModel(r) \/ FreezeFails(r)
  \/ Send(r) \/ GiveUp(r) \/ Answered(r) \/ Release(r) \/ Respond(r)

ServerStep ==
  \E m \in wire : ServerAccepts(m) \/ ServerRefuses(m) \/ ProxyAnswers(m)

QueryStep == \E q \in Query : (\E i \in Id : Ask(q, i)) \/ Look(q) \/ Report(q)

Finished ==
  /\ \A r \in Request : pc[r] \in {"done", "lost"}
  /\ UNCHANGED vars

Next ==
  \/ Edit
  \/ \E r \in Request : Step(r) \/ TurnAway(r) \/ PrepareFails(r)
  \/ ServerStep
  \/ QueryStep
  \/ Crash
  \/ Finished

Spec == Init /\ [][Next]_vars

-----------------------------------------------------------------------------
(* Properties *)

\* At most one upload is prepared or in progress, and the lock knows whose: it
\* is given back on every failure path, and by a killed process.
OneUploadAtATime == \A r \in Request : pc[r] \in Holding <=> lock = r

\* A 202 is only given for an id the server took, with the frozen bytes; so is the
\* 500 that the validation of the answer may turn it into.
AcceptedIsGraded ==
  \A r \in Request : verdict[r] \in {"accepted", "invalid"} =>
    known[uid[r]] # None /\ known[uid[r]] = frozen[uid[r]]

\* Whatever the server grades is the snapshot on disk under the same id, so a
\* consumed attempt can be traced even after a crash, whatever the participant
\* did to the model file meanwhile.
GradedIsFrozen == \A i \in Id : known[i] # None => known[i] = frozen[i]

\* A failure reported as definite is one: the server has not taken the id and
\* never will.  Uncertain outcomes are reported as pending.  The 500 of an invalid
\* acknowledgement is no such failure, though a client cannot tell it from one.
DefiniteIsFinal ==
  \A r \in Request :
    verdict[r] \in {"rejected", "failed", "busy"} /\ uid[r] # None =>
      known[uid[r]] = None /\ \A m \in wire : m.id # uid[r]

\* A client whose request consumed an attempt was told the id under which to ask
\* for the result, whatever the network did to the answer.  Exempt are a killed
\* process, and the 500 of a server that acknowledges with the wrong keys.
NoSilentAttempt ==
  \A r \in Request : pc[r] = "done" /\ uid[r] # None /\ verdict[r] # "invalid" =>
    (known[uid[r]] # None => uid[r] \in told)

==============================================================================

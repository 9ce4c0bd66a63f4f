--------------------------- MODULE ResultPageProofs ---------------------------
(***************************************************************************)
(* For every number of submissions, polls and reloads: the panel falls back  *)
(* behind a status it has shown only on an answer without one, and behind a  *)
(* final status never.                                                       *)
(***************************************************************************)
EXTENDS ResultPage, TLAPS

\* How far a status is; nothing is before "queued".
Rank(s) == IF s = None THEN 0 ELSE Progress[s]

Answers == Status \cup Vague \cup {None, "skip"}

TypeInv ==
  /\ status \in [Id -> Status \cup {None}]
  /\ seen \in [Id -> 0..3]
  /\ loop \in [Id -> [at : {"none", "sleeping", "asked", "over"}, attempt : Nat, answer : Answers]]
  /\ reply \in Id \cup {None}
  /\ panel \in [success : BOOLEAN, error : BOOLEAN, id : Id \cup {None}, status : Status \cup {None, "other"}, known : BOOLEAN]

\* What was shown of a submission is no further than an answer on its way, and
\* that no further than the server.
LoopOK(i) ==
  /\ seen[i] <= Rank(status[i])
  /\ loop[i].at = "none" => loop[i] = NoLoop
  /\ loop[i].at # "none" => status[i] # None
  /\ loop[i].at \in {"sleeping", "asked"} => seen[i] < 3
  /\ loop[i].answer # None => loop[i].at = "asked"
  /\ loop[i].answer \in Status => seen[i] <= Rank(loop[i].answer) /\ Rank(loop[i].answer) <= Rank(status[i])

\* Nothing has been shown of a submission whose POST has not returned.
ReplyInv == reply # None => seen[reply] = 0 /\ status[reply] # None /\ loop[reply] = NoLoop

PanelInv ==
  panel.id # None =>
    IF panel.known THEN panel.status \in Status /\ Rank(panel.status) = seen[panel.id]
    ELSE seen[panel.id] < 3

IInv == TypeInv /\ (\A i \in Id : LoopOK(i)) /\ ReplyInv /\ PanelInv

-----------------------------------------------------------------------------
(* Steps *)

\* The ranks of the statuses
LEMMA Ranks ==
  /\ Status = {"queued", "running", "done", "error"}
  /\ Rank("queued") = 1 /\ Rank("running") = 2 /\ Rank("done") = 3 /\ Rank("error") = 3 /\ Rank(None) = 0
  /\ \A s \in Status : s # None /\ Progress[s] = Rank(s) /\ Rank(s) \in 1..3
BY PageStatus DEF Status, Progress, Rank

\* The form's steps, the browser's and a stutter show nothing new.
LEMMA FormSteps ==
  ASSUME IInv, SubmitEmpty \/ Submit \/ SubmitFails \/ Reload \/ UNCHANGED vars
  PROVE  IInv'
<1> USE PageNone, Ranks DEF IInv, TypeInv, NoLoop
<1>1. CASE Reload
  <2>1. UNCHANGED status /\ reply' = None /\ panel' = EmptyPanel /\ loop' = [i \in Id |-> NoLoop] /\ seen' = [i \in Id |-> 0]
    BY <1>1 DEF Reload
  <2>2. \A i \in Id : 0 <= Rank(status[i])
    OBVIOUS
  <2>3. TypeInv'
    BY <2>1 DEF EmptyPanel, Answers
  <2>4. ASSUME NEW i \in Id PROVE LoopOK(i)'
    BY <2>1, <2>2 DEF LoopOK, Rank
  <2> QED
    BY <2>1, <2>3, <2>4 DEF ReplyInv, PanelInv, EmptyPanel
<1>2. ASSUME UNCHANGED <<loop, status, seen>>, reply' \in {reply, None}, UNCHANGED panel \/ HideResults \/ ShowError PROVE IInv'
  <2>1. TypeInv' /\ panel'.id = panel.id /\ panel'.status = panel.status /\ panel'.known = panel.known
    BY <1>2 DEF HideResults, ShowError
  <2> QED
    BY <1>2, <2>1 DEF LoopOK, ReplyInv, PanelInv, Rank
<1>3. ASSUME ~Reload
      PROVE  UNCHANGED <<loop, status, seen>> /\ reply' \in {reply, None} /\ (UNCHANGED panel \/ HideResults \/ ShowError)
  BY <1>3 DEF SubmitEmpty, Submit, SubmitFails, Enable, vars
<1> QED
  BY <1>1, <1>2, <1>3

\* An acceptance and the answer to the POST
LEMMA PostSteps ==
  ASSUME IInv, SubmitSucceeds \/ \E i \in Id : ServerAccepts(i)
  PROVE  IInv'
<1> USE PageNone, Ranks DEF IInv, TypeInv, NoLoop
<1>1. CASE SubmitSucceeds
  <2>1. reply \in Id /\ reply' = None /\ UNCHANGED status /\ seen[reply] = 0 /\ status[reply] \in Status /\ loop[reply] = NoLoop
    BY <1>1 DEF SubmitSucceeds, Enable, ReplyInv
  <2>2. loop' = [loop EXCEPT ![reply].at = "sleeping"] /\ seen' = [seen EXCEPT ![reply] = 1]
        /\ panel' = [panel EXCEPT !.success = TRUE, !.id = reply, !.status = "queued", !.known = TRUE]
    <3>1. "queued" \in Status /\ Progress["queued"] > seen[reply] /\ Progress["queued"] = 1 /\ Displayed("queued") = "queued"
      BY <2>1 DEF Displayed
    <3> QED
      BY <1>1, <3>1 DEF SubmitSucceeds, ShowSuccess
  <2>3. TypeInv'
    <3>1. seen' \in [Id -> 0..3] /\ status' \in [Id -> Status \cup {None}] /\ reply' \in Id \cup {None}
      BY <2>1, <2>2
    <3>2. loop' = [loop EXCEPT ![reply] = [at |-> "sleeping", attempt |-> 0, answer |-> None]]
      <4>1. [loop[reply] EXCEPT !.at = "sleeping"] = [at |-> "sleeping", attempt |-> 0, answer |-> None]
        BY <2>1
      <4>2. loop' = [loop EXCEPT ![reply] = [loop[reply] EXCEPT !.at = "sleeping"]]
        BY <2>1, <2>2
      <4> QED
        BY <4>1, <4>2
    <3>3. loop' \in [Id -> [at : {"none", "sleeping", "asked", "over"}, attempt : Nat, answer : Answers]]
      BY <2>1, <3>2
    <3>4. panel' \in [success : BOOLEAN, error : BOOLEAN, id : Id \cup {None}, status : Status \cup {None, "other"}, known : BOOLEAN]
      BY <2>1, <2>2
    <3> QED
      BY <3>1, <3>3, <3>4
  <2>4. ASSUME NEW i \in Id PROVE LoopOK(i)'
    <3>1. CASE i = reply
      BY <2>1, <2>2, <3>1 DEF LoopOK, Rank
    <3>2. CASE i # reply
      BY <2>1, <2>2, <3>2 DEF LoopOK, Rank
    <3> QED
      BY <3>1, <3>2
  <2>5. PanelInv'
    BY <2>1, <2>2 DEF PanelInv, Rank
  <2> QED
    BY <2>1, <2>3, <2>4, <2>5 DEF ReplyInv
<1>2. ASSUME NEW i \in Id, ServerAccepts(i) PROVE IInv'
  <2>1. reply' = i /\ status[i] = None /\ status' = [status EXCEPT ![i] = "queued"] /\ UNCHANGED <<panel, loop, seen>>
    BY <1>2 DEF ServerAccepts
  <2>2. seen[i] = 0 /\ loop[i] = NoLoop
    BY <2>1 DEF LoopOK
  <2>3. TypeInv'
    BY <2>1
  <2>4. ASSUME NEW j \in Id PROVE LoopOK(j)'
    <3>1. CASE j = i
      BY <2>1, <2>2, <3>1 DEF LoopOK, Rank
    <3>2. CASE j # i
      BY <2>1, <3>2 DEF LoopOK, Rank
    <3> QED
      BY <3>1, <3>2
  <2> QED
    BY <2>1, <2>2, <2>3, <2>4 DEF ReplyInv, PanelInv, Rank
<1> QED
  BY <1>1, <1>2

\* A step of a polling loop or of the server's queue
LEMMA LoopSteps ==
  ASSUME IInv, NEW i \in Id, Poll(i) \/ ServerWorks(i)
  PROVE  IInv'
<1> USE PageNone, Ranks DEF IInv, TypeInv, NoLoop
<1>1. CASE Ask(i) \/ Skipped(i)
  <2>1. UNCHANGED <<reply, panel, status, seen>> /\ loop[i].at # "none" /\ seen[i] < 3
        /\ \E l \in {"asked", "over", "sleeping"}, n \in Nat : loop' = [loop EXCEPT ![i] = [at |-> l, attempt |-> n, answer |-> None]]
    <3>1. CASE Ask(i)
      <4>1. loop' = [loop EXCEPT ![i] = [at |-> "asked", attempt |-> loop[i].attempt, answer |-> None]]
        BY <3>1 DEF Ask, At
      <4> QED
        BY <3>1, <4>1 DEF Ask, LoopOK
    <3>2. CASE Skipped(i)
      <4> DEFINE n == loop[i].attempt + 1
                 l == IF n = MaxPolls THEN "over" ELSE "sleeping"
      <4>1. loop' = [loop EXCEPT ![i] = [at |-> l, attempt |-> n, answer |-> None]]
        BY <3>2 DEF Skipped, At, Again
      <4>2. l \in {"asked", "over", "sleeping"} /\ n \in Nat
        OBVIOUS
      <4>3. loop[i].at # "none" /\ seen[i] < 3
        BY <3>2, PageStatus DEF Skipped, LoopOK
      <4> HIDE DEF l, n
      <4> QED
        BY <3>2, <4>1, <4>2, <4>3 DEF Skipped
    <3> QED
      BY <1>1, <3>1, <3>2
  <2>2. TypeInv'
    BY <2>1 DEF Answers
  <2>3. ASSUME NEW j \in Id PROVE LoopOK(j)'
    <3>1. CASE j = i
      BY <2>1, <3>1 DEF LoopOK, Rank
    <3>2. CASE j # i
      BY <2>1, <3>2 DEF LoopOK, Rank
    <3> QED
      BY <3>1, <3>2
  <2> QED
    BY <2>1, <2>2, <2>3 DEF ReplyInv, PanelInv, Rank
<1>2. CASE ServerAnswers(i)
  <2>1. UNCHANGED <<reply, panel, status, seen>> /\ loop[i].at = "asked" /\ status[i] \in Status /\ seen[i] < 3
    BY <1>2 DEF ServerAnswers, LoopOK
  <2>2. PICK x \in {status[i], "skip"} \cup Vague : loop' = [loop EXCEPT ![i] = [at |-> "asked", attempt |-> loop[i].attempt, answer |-> x]]
    BY <1>2 DEF ServerAnswers, At
  <2>3. TypeInv'
    BY <2>1, <2>2 DEF Answers
  <2>4. ASSUME NEW j \in Id PROVE LoopOK(j)'
    <3>1. CASE j = i
      <4>1. x \in Status => x = status[i]
        BY DEF Vague
      <4>2. loop'[i].at = "asked" /\ loop'[i].answer = x /\ LoopOK(i)
        BY <2>2
      <4> QED
        BY <2>1, <3>1, <4>1, <4>2 DEF LoopOK, Rank
    <3>2. CASE j # i
      BY <2>1, <2>2, <3>2 DEF LoopOK, Rank
    <3> QED
      BY <3>1, <3>2
  <2> QED
    BY <2>1, <2>2, <2>3, <2>4 DEF ReplyInv, PanelInv, Rank
<1>3. CASE Shown(i)
  <2> DEFINE x == loop[i].answer
  <2>1. UNCHANGED <<reply, status>> /\ x \in Status \cup Vague /\ seen[i] < 3
        /\ loop[i].at # "none" /\ status[i] \in Status
        /\ (x \in Status => seen[i] <= Rank(x) /\ Rank(x) <= Rank(status[i]))
    BY <1>3, PageStatus DEF Shown, LoopOK
  <2>2. /\ seen' = [seen EXCEPT ![i] = IF x \in Status THEN Rank(x) ELSE seen[i]]
        /\ panel' = [panel EXCEPT !.success = TRUE, !.id = i, !.status = Displayed(x), !.known = x \in Status]
    <3>1. CASE x \in Status /\ Progress[x] > seen[i]
      BY <1>3, <3>1 DEF Shown, ShowSuccess
    <3>2. CASE ~(x \in Status /\ Progress[x] > seen[i])
      <4>1. (IF x \in Status THEN Rank(x) ELSE seen[i]) = seen[i]
        BY <2>1, <3>2
      <4> QED
        BY <1>3, <3>2, <4>1 DEF Shown, ShowSuccess
    <3> QED
      BY <3>1, <3>2
  <2>3. PICK l \in {"over", "sleeping"}, n \in Nat :
          /\ loop' = [loop EXCEPT ![i] = [at |-> l, attempt |-> n, answer |-> None]]
          /\ x \in Terminal => l = "over"
    BY <1>3 DEF Shown, At, Again
  <2>4. Displayed(x) \in Status \cup {"other"} /\ (x \in Status => Displayed(x) = x)
    BY <2>1, PageStatus DEF Displayed, Vague
  <2>5. seen'[i] \in 0..3 /\ seen'[i] = (IF x \in Status THEN Rank(x) ELSE seen[i])
        /\ \A j \in Id \ {i} : seen'[j] = seen[j]
    BY <2>1, <2>2
  <2>6. seen'[i] <= Rank(status[i]) /\ (x \notin Terminal => seen'[i] < 3)
    BY <2>1, <2>5 DEF LoopOK, Terminal
  <2> HIDE DEF x
  <2>7. TypeInv'
    <3>1. seen' \in [Id -> 0..3] /\ status' \in [Id -> Status \cup {None}] /\ reply' \in Id \cup {None}
      BY <2>1, <2>2, <2>5
    <3>2. loop' \in [Id -> [at : {"none", "sleeping", "asked", "over"}, attempt : Nat, answer : Answers]]
      BY <2>3 DEF Answers
    <3>3. panel' \in [success : BOOLEAN, error : BOOLEAN, id : Id \cup {None}, status : Status \cup {None, "other"}, known : BOOLEAN]
      <4>1. CASE x \in Status
        <5>1. panel' = [panel EXCEPT !.success = TRUE, !.id = i, !.status = Displayed(x), !.known = TRUE]
          BY <2>2, <4>1, Zenon
        <5> QED
          BY <2>1, <2>4, <5>1
      <4>2. CASE x \notin Status
        <5>1. (x \in Status) = FALSE
          BY <4>2
        <5>2. panel' = [panel EXCEPT !.success = TRUE, !.id = i, !.status = Displayed(x), !.known = FALSE]
          BY <2>2, <5>1, Zenon
        <5> QED
          BY <2>1, <2>4, <5>2
      <4> QED
        BY <4>1, <4>2
    <3> QED
      BY <3>1, <3>2, <3>3
  <2>8. ASSUME NEW j \in Id PROVE LoopOK(j)'
    <3>1. CASE j = i
      BY <2>1, <2>3, <2>6, <3>1, PageStatus DEF LoopOK, Rank
    <3>2. CASE j # i
      BY <2>1, <2>3, <2>5, <3>2 DEF LoopOK, Rank
    <3> QED
      BY <3>1, <3>2
  <2>9. ReplyInv'
    BY <2>1, <2>3, <2>5 DEF ReplyInv
  <2>10. PanelInv'
    <3>1. panel'.id = i /\ panel'.status = Displayed(x) /\ panel'.known = (x \in Status)
      BY <2>2
    <3>2. CASE x \in Status
      BY <2>4, <2>5, <3>1, <3>2 DEF PanelInv, Rank
    <3>3. CASE x \notin Status
      BY <2>1, <2>5, <3>1, <3>3 DEF PanelInv
    <3> QED
      BY <3>2, <3>3
  <2> QED
    BY <2>7, <2>8, <2>9, <2>10
<1>4. CASE ServerWorks(i)
  <2>1. UNCHANGED <<reply, panel, loop, seen>>
    BY <1>4 DEF ServerWorks
  <2>2. PICK s \in Status : status' = [status EXCEPT ![i] = s] /\ status[i] \in Status /\ Rank(status[i]) <= Rank(s)
    BY <1>4 DEF ServerWorks, Terminal
  <2>3. TypeInv'
    BY <2>1, <2>2
  <2>4. ASSUME NEW j \in Id PROVE LoopOK(j)'
    <3>1. CASE j = i
      BY <2>1, <2>2, <3>1 DEF LoopOK, Rank
    <3>2. CASE j # i
      BY <2>1, <2>2, <3>2 DEF LoopOK, Rank
    <3> QED
      BY <3>1, <3>2
  <2> QED
    BY <2>1, <2>2, <2>3, <2>4 DEF ReplyInv, PanelInv, Rank
<1> QED
  BY <1>1, <1>2, <1>3, <1>4 DEF Poll

-----------------------------------------------------------------------------
(* Theorem *)

\* However many loops share the panel, and however their answers interleave with
\* reloads and new submissions, showSuccess (lines 632-662) goes back behind a
\* status it has shown only on an answer without a status of the page's, and
\* never behind a final one, after which the loop returns (677-679).
THEOREM PanelsGoForward == Spec => []ShownStatusStands
<1>1. Init => IInv
  BY PageNone, PageStatus, Ranks DEF Init, IInv, TypeInv, Answers, LoopOK, ReplyInv, PanelInv, NoLoop, EmptyPanel
<1>2. IInv /\ [Next]_vars => IInv'
  BY FormSteps, PostSteps, LoopSteps DEF Next, Post, Finished
<1>3. IInv => ShownStatusStands
  BY Ranks DEF IInv, PanelInv, ShownStatusStands
<1> QED
  BY <1>1, <1>2, <1>3, PTL DEF Spec
=============================================================================

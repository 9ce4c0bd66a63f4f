------------------------ MODULE SubmissionClientProofs ------------------------
(***************************************************************************)
(* For every set of requests and ids, every budget of edits, failures and   *)
(* crashes, and every number of attempts: one upload at a time, a graded    *)
(* artifact is the frozen one, an outcome reported as definite is final,    *)
(* and an attempt is spent without its id being told only when the process  *)
(* is killed or the server's acknowledgement fails its validation.          *)
(***************************************************************************)
EXTENDS SubmissionClient, TLAPS

\* Neither the server nor the network has anything of this id.
NotSent(i) == known[i] = None /\ \A m \in wire : m.id # i

Definite == {"rejected", "failed", "busy"}

\* uuid4 never repeats, and what the server or the network has was drawn.
IdInv ==
  /\ \A r, s \in Request : r # s /\ uid[r] # None => uid[r] # uid[s]
  /\ \A i \in Id : (\A r \in Request : uid[r] # i) => NotSent(i)

\* What the code knows at each label, and what a reply or verdict means.
RequestOK(r) ==
  /\ pc[r] \in {"new", "select"} => uid[r] = None
  /\ pc[r] \in {"freeze", "upload", "wait"} => uid[r] # None
  /\ pc[r] \in {"new", "select", "freeze", "upload", "wait"} => verdict[r] = None
  /\ pc[r] \in {"release", "respond", "done"} => verdict[r] # None
  /\ pc[r] \in {"freeze", "upload"} => NotSent(uid[r])
  /\ pc[r] = "upload" => frozen[uid[r]] # None
  /\ reply[r] # None => pc[r] \notin {"new", "select", "freeze", "upload"} /\ uid[r] # None
  /\ reply[r] \in {"ack", "bare"} => known[uid[r]] # None
  /\ reply[r] \in {"refuse", "foreign"} => NotSent(uid[r])
  /\ verdict[r] \in {"accepted", "pending", "invalid"} => uid[r] # None
  /\ verdict[r] \in {"accepted", "invalid"} => known[uid[r]] # None
  /\ verdict[r] \in Definite /\ uid[r] # None => NotSent(uid[r])
  /\ pc[r] = "done" /\ verdict[r] \in {"accepted", "pending"} => uid[r] \in told

RequestInv == \A r \in Request : RequestOK(r)

\* An upload on the wire carries the snapshot of the request that sent it.
UploadOK(m) ==
  /\ uid[m.by] = m.id
  /\ m.data = frozen[m.id]
  /\ known[m.id] = None
  /\ pc[m.by] \notin {"new", "select", "freeze", "upload"}

WireInv == \A m \in wire : UploadOK(m)

IInv == TypeOK /\ OneUploadAtATime /\ IdInv /\ RequestInv /\ WireInv /\ GradedIsFrozen

-----------------------------------------------------------------------------
(* The initial state *)

\* The inductive invariant holds before the first request.
LEMMA Initially == Init => IInv
<1> SUFFICES ASSUME Init PROVE IInv
  OBVIOUS
<1>1. TypeOK
  BY ClientBudget DEF Init, TypeOK, Labels, NoQuery, QueryRecord, QueryStates
<1>2. OneUploadAtATime /\ IdInv /\ WireInv /\ GradedIsFrozen
  BY ClientNone DEF Init, OneUploadAtATime, Holding, IdInv, NotSent, WireInv, GradedIsFrozen
<1>3. RequestInv
  BY ClientNone DEF Init, RequestInv, RequestOK, Definite, Verdicts, Replies
<1> QED BY <1>1, <1>2, <1>3 DEF IInv

-----------------------------------------------------------------------------
(* The requests *)

\* Enter keeps the inductive invariant.
LEMMA EnterKeeps ==
  ASSUME IInv, NEW r \in Request, Enter(r)
  PROVE IInv'
<1> USE ClientNone DEF Verdicts, Replies, IInv, Goto, Conclude, server, Holding
<1>1. TypeOK'
  BY DEF Enter, Acquire, TypeOK, Labels
<1>2. OneUploadAtATime'
  BY DEF Enter, Acquire, TypeOK, OneUploadAtATime
<1>3. IdInv'
  BY DEF Enter, Acquire, TypeOK, IdInv, RequestInv, RequestOK, NotSent
<1>4. ASSUME NEW u \in Request PROVE RequestOK(u)'
  <2> USE DEF TypeOK, IdInv, RequestInv, RequestOK, NotSent, Definite
  <2>1. CASE u = r
    <3>1. pc[r] = "new" /\ UNCHANGED <<uid, frozen, wire, known, reply, told>>
      BY DEF Enter, Acquire
    <3>2. \/ pc'[r] = "select" /\ verdict'[r] = verdict[r]
          \/ pc'[r] = "respond" /\ verdict'[r] = "busy"
      <4>1. CASE lock = None
        <5>1. UNCHANGED verdict /\ pc' = [pc EXCEPT ![r] = "select"]
          BY <4>1 DEF Enter, Acquire
        <5>2. pc \in [Request -> Labels]
          OBVIOUS
        <5> HIDE DEF IInv, TypeOK, RequestOK, RequestInv, IdInv
        <5>3. pc'[r] = "select"
          BY <5>1, <5>2
        <5> QED BY <5>1, <5>3
      <4>2. CASE lock # None
        BY <4>2 DEF Enter, Acquire
      <4> QED BY <4>1, <4>2
    <3>3. RequestOK(r)
      OBVIOUS
    <3> HIDE DEF IInv, TypeOK, IdInv, RequestInv
    <3> QED BY <2>1, <3>1, <3>2, <3>3
  <2>2. CASE u # r
    BY <2>2 DEF Enter, Acquire
  <2> QED BY <2>1, <2>2
<1>5. WireInv'
  BY DEF Enter, Acquire, TypeOK, WireInv, UploadOK, Upload, RequestInv, RequestOK, NotSent
<1>6. GradedIsFrozen'
  BY DEF Enter, Acquire, TypeOK, GradedIsFrozen, RequestInv, RequestOK, NotSent
<1> HIDE DEF IInv
<1> QED BY <1>1, <1>2, <1>3, <1>4, <1>5, <1>6 DEF IInv, RequestInv

\* Select keeps the inductive invariant.
LEMMA SelectKeeps ==
  ASSUME IInv, NEW r \in Request, Select(r)
  PROVE IInv'
<1> USE ClientNone DEF Verdicts, Replies, IInv, Goto, Conclude, server, Holding
<1>1. TypeOK'
  BY DEF Select, Pay, Costs, TypeOK, Labels
<1>2. OneUploadAtATime'
  BY DEF Select, Pay, Costs, TypeOK, OneUploadAtATime
<1>3. IdInv'
  BY DEF Select, Pay, Costs, TypeOK, IdInv, RequestInv, RequestOK, NotSent
<1>4. ASSUME NEW u \in Request PROVE RequestOK(u)'
  <2> USE DEF TypeOK, IdInv, RequestInv, RequestOK, NotSent, Definite
  <2>1. CASE u = r
    <3>1. pc[r] = "select" /\ UNCHANGED <<frozen, wire, known, reply, told>>
      BY DEF Select, Pay, Costs
    <3>2. \/ pc'[r] = "release" /\ verdict'[r] = "failed" /\ uid'[r] = uid[r]
          \/ pc'[r] = "freeze" /\ verdict'[r] = verdict[r] /\ uid'[r] \in Id /\ \A t \in Request : uid[t] # uid'[r]
      BY DEF Select, Pay, Costs
    <3>3. RequestOK(r)
      OBVIOUS
    <3>4. uid'[r] \in Id /\ (\A t \in Request : uid[t] # uid'[r]) => NotSent(uid'[r])
      OBVIOUS
    <3> HIDE DEF IInv, TypeOK, IdInv, RequestInv
    <3> QED BY <2>1, <3>1, <3>2, <3>3, <3>4
  <2>2. CASE u # r
    BY <2>2 DEF Select, Pay, Costs
  <2> QED BY <2>1, <2>2
<1>5. WireInv'
  BY DEF Select, Pay, Costs, TypeOK, WireInv, UploadOK, Upload, RequestInv, RequestOK, NotSent
<1>6. GradedIsFrozen'
  BY DEF Select, Pay, Costs, TypeOK, GradedIsFrozen, RequestInv, RequestOK, NotSent
<1> HIDE DEF IInv
<1> QED BY <1>1, <1>2, <1>3, <1>4, <1>5, <1>6 DEF IInv, RequestInv

\* FreezeModel keeps the inductive invariant.
LEMMA FreezeModelKeeps ==
  ASSUME IInv, NEW r \in Request, FreezeModel(r)
  PROVE IInv'
<1> USE ClientNone DEF Verdicts, Replies, IInv, Goto, Conclude, server, Holding
<1>1. TypeOK'
  BY DEF FreezeModel, TypeOK, Labels
<1>2. OneUploadAtATime'
  BY DEF FreezeModel, TypeOK, OneUploadAtATime
<1>3. IdInv'
  BY DEF FreezeModel, TypeOK, IdInv, RequestInv, RequestOK, NotSent
<1>4. ASSUME NEW u \in Request PROVE RequestOK(u)'
  <2> USE DEF TypeOK, IdInv, RequestInv, RequestOK, NotSent, Definite
  <2>1. CASE u = r
    BY <2>1 DEF FreezeModel
  <2>2. CASE u # r
    BY <2>2 DEF FreezeModel
  <2> QED BY <2>1, <2>2
<1>5. WireInv'
  BY DEF FreezeModel, TypeOK, WireInv, UploadOK, Upload, RequestInv, RequestOK, NotSent
<1>6. GradedIsFrozen'
  BY DEF FreezeModel, TypeOK, GradedIsFrozen, RequestInv, RequestOK, NotSent
<1> HIDE DEF IInv
<1> QED BY <1>1, <1>2, <1>3, <1>4, <1>5, <1>6 DEF IInv, RequestInv

\* FreezeFails keeps the inductive invariant.
LEMMA FreezeFailsKeeps ==
  ASSUME IInv, NEW r \in Request, FreezeFails(r)
  PROVE IInv'
<1> USE ClientNone DEF Verdicts, Replies, IInv, Goto, Conclude, server, Holding
<1>1. TypeOK'
  BY DEF FreezeFails, Pay, Costs, TypeOK, Labels
<1>2. OneUploadAtATime'
  BY DEF FreezeFails, Pay, Costs, TypeOK, OneUploadAtATime
<1>3. IdInv'
  BY DEF FreezeFails, Pay, Costs, TypeOK, IdInv, RequestInv, RequestOK, NotSent
<1>4. ASSUME NEW u \in Request PROVE RequestOK(u)'
  <2> USE DEF TypeOK, IdInv, RequestInv, RequestOK, NotSent, Definite
  <2>1. CASE u = r
    <3>1. pc[r] = "freeze" /\ UNCHANGED <<uid, wire, known, reply, told>>
      BY DEF FreezeFails, Pay, Costs
    <3>2. pc'[r] = "release" /\ verdict'[r] = "failed"
      BY DEF FreezeFails, Pay, Costs
    <3>3. RequestOK(r)
      OBVIOUS
    <3> HIDE DEF IInv, TypeOK, IdInv, RequestInv
    <3> QED BY <2>1, <3>1, <3>2, <3>3
  <2>2. CASE u # r
    BY <2>2 DEF FreezeFails, Pay, Costs
  <2> QED BY <2>1, <2>2
<1>5. WireInv'
  BY DEF FreezeFails, Pay, Costs, TypeOK, WireInv, UploadOK, Upload, RequestInv, RequestOK, NotSent
<1>6. GradedIsFrozen'
  BY DEF FreezeFails, Pay, Costs, TypeOK, GradedIsFrozen, RequestInv, RequestOK, NotSent
<1> HIDE DEF IInv
<1> QED BY <1>1, <1>2, <1>3, <1>4, <1>5, <1>6 DEF IInv, RequestInv

\* Send keeps the inductive invariant.
LEMMA SendKeeps ==
  ASSUME IInv, NEW r \in Request, Send(r)
  PROVE IInv'
<1> USE ClientNone DEF Verdicts, Replies, IInv, Goto, Conclude, server, Holding
<1>1. TypeOK'
  <2>1. uid[r] \in Id /\ frozen[uid[r]] \in Artifact
    BY DEF Send, TypeOK, RequestInv, RequestOK
  <2>2. [by |-> r, id |-> uid[r], data |-> frozen[uid[r]]] \in Upload
    BY <2>1 DEF Upload
  <2> QED BY <2>2 DEF Send, Body, TypeOK, Labels
<1>2. OneUploadAtATime'
  BY DEF Send, Body, TypeOK, OneUploadAtATime
<1>3. IdInv'
  BY DEF Send, Body, TypeOK, IdInv, RequestInv, RequestOK, NotSent
<1>4. ASSUME NEW u \in Request PROVE RequestOK(u)'
  <2> USE DEF TypeOK, IdInv, RequestInv, RequestOK, NotSent, Definite
  <2>1. CASE u = r
    <3>1. pc[r] = "upload" /\ UNCHANGED <<uid, verdict, frozen, known, reply, told>>
      BY DEF Send, Body
    <3>2. pc'[r] = "wait"
      BY DEF Send, Body
    <3>3. RequestOK(r)
      OBVIOUS
    <3> HIDE DEF IInv, TypeOK, IdInv, RequestInv
    <3> QED BY <2>1, <3>1, <3>2, <3>3
  <2>2. CASE u # r
    BY <2>2 DEF Send, Body
  <2> QED BY <2>1, <2>2
<1>5. WireInv'
  BY DEF Send, Body, TypeOK, WireInv, UploadOK, Upload, RequestInv, RequestOK, NotSent
<1>6. GradedIsFrozen'
  BY DEF Send, Body, TypeOK, GradedIsFrozen, RequestInv, RequestOK, NotSent
<1> HIDE DEF IInv
<1> QED BY <1>1, <1>2, <1>3, <1>4, <1>5, <1>6 DEF IInv, RequestInv

\* GiveUp keeps the inductive invariant.
LEMMA GiveUpKeeps ==
  ASSUME IInv, NEW r \in Request, GiveUp(r)
  PROVE IInv'
<1> USE ClientNone DEF Verdicts, Replies, IInv, Goto, Conclude, server, Holding
<1>1. TypeOK'
  BY DEF GiveUp, TypeOK, Labels
<1>2. OneUploadAtATime'
  BY DEF GiveUp, TypeOK, OneUploadAtATime
<1>3. IdInv'
  BY DEF GiveUp, TypeOK, IdInv, RequestInv, RequestOK, NotSent
<1>4. ASSUME NEW u \in Request PROVE RequestOK(u)'
  <2> USE DEF TypeOK, IdInv, RequestInv, RequestOK, NotSent, Definite
  <2>1. CASE u = r
    <3>1. pc[r] = "wait" /\ UNCHANGED <<uid, frozen, wire, known, reply, told>>
      BY DEF GiveUp
    <3>2. pc'[r] = "release" /\ verdict'[r] = "pending" /\ reply[r] = None
      BY DEF GiveUp
    <3>3. RequestOK(r)
      OBVIOUS
    <3> HIDE DEF IInv, TypeOK, IdInv, RequestInv
    <3> QED BY <2>1, <3>1, <3>2, <3>3
  <2>2. CASE u # r
    BY <2>2 DEF GiveUp
  <2> QED BY <2>1, <2>2
<1>5. WireInv'
  BY DEF GiveUp, TypeOK, WireInv, UploadOK, Upload, RequestInv, RequestOK, NotSent
<1>6. GradedIsFrozen'
  BY DEF GiveUp, TypeOK, GradedIsFrozen, RequestInv, RequestOK, NotSent
<1> HIDE DEF IInv
<1> QED BY <1>1, <1>2, <1>3, <1>4, <1>5, <1>6 DEF IInv, RequestInv

\* Answered keeps the inductive invariant.
LEMMA AnsweredKeeps ==
  ASSUME IInv, NEW r \in Request, Answered(r)
  PROVE IInv'
<1> USE ClientNone DEF Verdicts, Replies, IInv, Goto, Conclude, server, Holding
<1>1. TypeOK'
  BY DEF Answered, Classify, TypeOK, Labels
<1>2. OneUploadAtATime'
  BY DEF Answered, Classify, TypeOK, OneUploadAtATime
<1>3. IdInv'
  BY DEF Answered, Classify, TypeOK, IdInv, RequestInv, RequestOK, NotSent
<1>4. ASSUME NEW u \in Request PROVE RequestOK(u)'
  <2> USE DEF TypeOK, IdInv, RequestInv, RequestOK, NotSent, Definite
  <2>1. CASE u = r
    <3>1. pc[r] = "wait" /\ UNCHANGED <<uid, frozen, wire, known, reply, told>>
      BY DEF Answered, Classify
    <3>2. pc'[r] = "release" /\ verdict'[r] = Classify(reply[r]) /\ reply[r] # None
      BY DEF Answered, Classify
    <3>3. RequestOK(r)
      OBVIOUS
    <3> HIDE DEF IInv, TypeOK, IdInv, RequestInv
    <3> QED BY <2>1, <3>1, <3>2, <3>3 DEF Classify
  <2>2. CASE u # r
    BY <2>2 DEF Answered, Classify
  <2> QED BY <2>1, <2>2
<1>5. WireInv'
  BY DEF Answered, Classify, TypeOK, WireInv, UploadOK, Upload, RequestInv, RequestOK, NotSent
<1>6. GradedIsFrozen'
  BY DEF Answered, Classify, TypeOK, GradedIsFrozen, RequestInv, RequestOK, NotSent
<1> HIDE DEF IInv
<1> QED BY <1>1, <1>2, <1>3, <1>4, <1>5, <1>6 DEF IInv, RequestInv

\* Release keeps the inductive invariant.
LEMMA ReleaseKeeps ==
  ASSUME IInv, NEW r \in Request, Release(r)
  PROVE IInv'
<1> USE ClientNone DEF Verdicts, Replies, IInv, Goto, Conclude, server, Holding
<1>1. TypeOK'
  BY DEF Release, TypeOK, Labels
<1>2. OneUploadAtATime'
  BY DEF Release, TypeOK, OneUploadAtATime
<1>3. IdInv'
  BY DEF Release, TypeOK, IdInv, RequestInv, RequestOK, NotSent
<1>4. ASSUME NEW u \in Request PROVE RequestOK(u)'
  <2> USE DEF TypeOK, IdInv, RequestInv, RequestOK, NotSent, Definite
  <2>1. CASE u = r
    BY <2>1 DEF Release
  <2>2. CASE u # r
    BY <2>2 DEF Release
  <2> QED BY <2>1, <2>2
<1>5. WireInv'
  BY DEF Release, TypeOK, WireInv, UploadOK, Upload, RequestInv, RequestOK, NotSent
<1>6. GradedIsFrozen'
  BY DEF Release, TypeOK, GradedIsFrozen, RequestInv, RequestOK, NotSent
<1> HIDE DEF IInv
<1> QED BY <1>1, <1>2, <1>3, <1>4, <1>5, <1>6 DEF IInv, RequestInv

\* Respond keeps the inductive invariant.
LEMMA RespondKeeps ==
  ASSUME IInv, NEW r \in Request, Respond(r)
  PROVE IInv'
<1> USE ClientNone DEF Verdicts, Replies, IInv, Goto, Conclude, server, Holding
<1>1. TypeOK'
  BY DEF Respond, Hint, Validated, TypeOK, Labels, RequestInv, RequestOK
<1>2. OneUploadAtATime'
  BY DEF Respond, Hint, Validated, TypeOK, OneUploadAtATime
<1>3. IdInv'
  BY DEF Respond, Hint, Validated, TypeOK, IdInv, RequestInv, RequestOK, NotSent
<1>4. ASSUME NEW u \in Request PROVE RequestOK(u)'
  <2> USE DEF TypeOK, IdInv, RequestInv, RequestOK, NotSent, Definite
  <2>1. CASE u = r
    BY <2>1 DEF Respond, Hint, Validated
  <2>2. CASE u # r
    BY <2>2 DEF Respond, Hint, Validated
  <2> QED BY <2>1, <2>2
<1>5. WireInv'
  BY DEF Respond, Hint, Validated, TypeOK, WireInv, UploadOK, Upload, RequestInv, RequestOK, NotSent
<1>6. GradedIsFrozen'
  BY DEF Respond, Hint, Validated, TypeOK, GradedIsFrozen, RequestInv, RequestOK, NotSent
<1> HIDE DEF IInv
<1> QED BY <1>1, <1>2, <1>3, <1>4, <1>5, <1>6 DEF IInv, RequestInv

\* TurnAway keeps the inductive invariant.
LEMMA TurnAwayKeeps ==
  ASSUME IInv, NEW r \in Request, TurnAway(r)
  PROVE IInv'
<1> USE ClientNone DEF Verdicts, Replies, IInv, Goto, Conclude, server, Holding
<1>1. TypeOK'
  BY DEF TurnAway, Pay, Costs, TypeOK, Labels
<1>2. OneUploadAtATime'
  BY DEF TurnAway, Pay, Costs, TypeOK, OneUploadAtATime
<1>3. IdInv'
  BY DEF TurnAway, Pay, Costs, TypeOK, IdInv, RequestInv, RequestOK, NotSent
<1>4. ASSUME NEW u \in Request PROVE RequestOK(u)'
  <2> USE DEF TypeOK, IdInv, RequestInv, RequestOK, NotSent, Definite
  <2>1. CASE u = r
    <3>1. pc[r] = "new" /\ UNCHANGED <<uid, frozen, wire, known, reply, told>>
      BY DEF TurnAway, Pay, Costs
    <3>2. pc'[r] = "respond" /\ verdict'[r] = "failed"
      BY DEF TurnAway, Pay, Costs
    <3>3. RequestOK(r)
      OBVIOUS
    <3> HIDE DEF IInv, TypeOK, IdInv, RequestInv
    <3> QED BY <2>1, <3>1, <3>2, <3>3
  <2>2. CASE u # r
    BY <2>2 DEF TurnAway, Pay, Costs
  <2> QED BY <2>1, <2>2
<1>5. WireInv'
  BY DEF TurnAway, Pay, Costs, TypeOK, WireInv, UploadOK, Upload, RequestInv, RequestOK, NotSent
<1>6. GradedIsFrozen'
  BY DEF TurnAway, Pay, Costs, TypeOK, GradedIsFrozen, RequestInv, RequestOK, NotSent
<1> HIDE DEF IInv
<1> QED BY <1>1, <1>2, <1>3, <1>4, <1>5, <1>6 DEF IInv, RequestInv

\* PrepareFails keeps the inductive invariant.
LEMMA PrepareFailsKeeps ==
  ASSUME IInv, NEW r \in Request, PrepareFails(r)
  PROVE IInv'
<1> USE ClientNone DEF Verdicts, Replies, IInv, Goto, Conclude, server, Holding
<1>1. TypeOK'
  BY DEF PrepareFails, Pay, Costs, TypeOK, Labels
<1>2. OneUploadAtATime'
  BY DEF PrepareFails, Pay, Costs, TypeOK, OneUploadAtATime
<1>3. IdInv'
  BY DEF PrepareFails, Pay, Costs, TypeOK, IdInv, RequestInv, RequestOK, NotSent
<1>4. ASSUME NEW u \in Request PROVE RequestOK(u)'
  <2> USE DEF TypeOK, IdInv, RequestInv, RequestOK, NotSent, Definite
  <2>1. CASE u = r
    <3>1. pc[r] = "upload" /\ UNCHANGED <<uid, frozen, wire, known, reply, told>>
      BY DEF PrepareFails, Pay, Costs
    <3>2. pc'[r] = "release" /\ verdict'[r] \in {"pending", "rejected", "failed"}
      BY DEF PrepareFails, Pay, Costs
    <3>3. RequestOK(r)
      OBVIOUS
    <3> HIDE DEF IInv, TypeOK, IdInv, RequestInv
    <3> QED BY <2>1, <3>1, <3>2, <3>3
  <2>2. CASE u # r
    BY <2>2 DEF PrepareFails, Pay, Costs
  <2> QED BY <2>1, <2>2
<1>5. WireInv'
  BY DEF PrepareFails, Pay, Costs, TypeOK, WireInv, UploadOK, Upload, RequestInv, RequestOK, NotSent
<1>6. GradedIsFrozen'
  BY DEF PrepareFails, Pay, Costs, TypeOK, GradedIsFrozen, RequestInv, RequestOK, NotSent
<1> HIDE DEF IInv
<1> QED BY <1>1, <1>2, <1>3, <1>4, <1>5, <1>6 DEF IInv, RequestInv

-----------------------------------------------------------------------------
(* The server, the queries, the crash *)

\* An upload the server takes was on the wire, and it was the only one of its id.
LEMMA ServerAcceptsKeeps ==
  ASSUME IInv, NEW m \in wire, ServerAccepts(m)
  PROVE IInv'
<1> USE ClientNone DEF Verdicts, Replies, IInv, Holding
<1>1. m \in Upload /\ UploadOK(m) /\ m.id \in Id /\ m.by \in Request
  BY DEF TypeOK, WireInv, Upload
<1>2. /\ wire' = wire \ {m} /\ known' = [known EXCEPT ![m.id] = m.data]
      /\ UNCHANGED <<model, lock, pc, uid, verdict, frozen, told, query, left>>
  BY DEF ServerAccepts
<1>3. \/ reply' = reply
      \/ /\ pc[m.by] = "wait"
         /\ \E x \in {"ack", "bare", "temporary", "garbled", None} : reply' = [reply EXCEPT ![m.by] = x]
  BY DEF ServerAccepts, Deliver
<1>4. \A n \in wire : n.id = m.id => n = m
  BY <1>1 DEF TypeOK, WireInv, UploadOK, Upload, IdInv
<1>5. known'[m.id] = m.data /\ m.data \in Artifact /\ \A i \in Id \ {m.id} : known'[i] = known[i]
  BY <1>1, <1>2 DEF TypeOK, Upload
<1>6. TypeOK'
  BY <1>1, <1>2, <1>3 DEF TypeOK, Upload
<1>7. OneUploadAtATime'
  BY <1>2 DEF OneUploadAtATime
<1>8. IdInv'
  BY <1>1, <1>2, <1>5 DEF IdInv, NotSent, UploadOK
<1>9. ASSUME NEW u \in Request PROVE RequestOK(u)'
  <2>1. CASE u = m.by
    <3>1. uid[u] = m.id /\ pc[u] \notin {"new", "select", "freeze", "upload"} /\ known'[uid[u]] # None
      BY <1>1, <1>5, <2>1 DEF UploadOK
    <3>2. ~ NotSent(uid[u])
      BY <1>1, <3>1 DEF NotSent
    <3>3. reply'[u] \in {reply[u], "ack", "bare", "temporary", "garbled", None}
      BY <1>1, <1>3, <2>1 DEF TypeOK
    <3>4. RequestOK(u)
      BY DEF RequestInv
    <3>5. uid[u] # None
      BY <1>1, <3>1
    <3> HIDE DEF IInv
    <3> QED BY <1>2, <3>1, <3>2, <3>3, <3>4, <3>5 DEF RequestOK, Definite
  <2>2. CASE u # m.by
    <3>1. uid[u] # m.id /\ reply'[u] = reply[u]
      BY <1>1, <1>3, <2>2 DEF IdInv, UploadOK, TypeOK
    <3>2. uid[u] # None => uid[u] \in Id /\ known'[uid[u]] = known[uid[u]] /\ (NotSent(uid[u]) => NotSent(uid[u])')
      BY <1>2, <1>5, <3>1 DEF TypeOK, NotSent
    <3>3. RequestOK(u)
      BY DEF RequestInv
    <3> HIDE DEF IInv
    <3> QED BY <1>2, <3>1, <3>2, <3>3 DEF RequestOK, Definite
  <2> QED BY <2>1, <2>2
<1>10. WireInv'
  <2> SUFFICES ASSUME NEW n \in wire' PROVE UploadOK(n)'
    BY DEF WireInv
  <2>1. n \in wire /\ n.id # m.id /\ n.id \in Id /\ UploadOK(n)
    BY <1>2, <1>4 DEF WireInv, TypeOK, Upload
  <2> QED BY <1>2, <1>5, <2>1 DEF UploadOK
<1>11. GradedIsFrozen'
  BY <1>1, <1>2, <1>5 DEF GradedIsFrozen, UploadOK
<1> HIDE DEF IInv
<1> QED BY <1>6, <1>7, <1>8, <1>9, <1>10, <1>11 DEF IInv, RequestInv

\* A definite refusal only reaches a request whose upload is gone for good.
LEMMA ServerRefusesKeeps ==
  ASSUME IInv, NEW m \in wire, ServerRefuses(m) \/ ProxyAnswers(m)
  PROVE IInv'
<1> USE ClientNone DEF Verdicts, Replies, IInv, Holding
<1>1. m \in Upload /\ UploadOK(m) /\ m.id \in Id /\ m.by \in Request
  BY DEF TypeOK, WireInv, Upload
<1>2. /\ wire' \subseteq wire
      /\ UNCHANGED <<model, lock, pc, uid, verdict, frozen, known, told, query, left>>
  BY DEF ServerRefuses, ProxyAnswers, server
<1>3. \/ reply' = reply
      \/ reply' = [reply EXCEPT ![m.by] = "temporary"] /\ pc[m.by] = "wait"
      \/ /\ pc[m.by] = "wait" /\ m \notin wire' /\ uid[m.by] = m.id
         /\ \E x \in {"temporary", "refuse", "garbled", "foreign", None} : reply' = [reply EXCEPT ![m.by] = x]
  BY DEF ServerRefuses, ProxyAnswers, Deliver
<1>4. \A n \in wire : n.id = m.id => n = m
  BY <1>1 DEF TypeOK, WireInv, UploadOK, Upload, IdInv
<1>5. TypeOK'
  BY <1>1, <1>2, <1>3 DEF TypeOK
<1>6. OneUploadAtATime'
  BY <1>2 DEF OneUploadAtATime
<1>7. \A i : NotSent(i) => NotSent(i)'
  BY <1>2 DEF NotSent
<1>8. IdInv'
  BY <1>2, <1>7 DEF IdInv
<1>9. ASSUME NEW u \in Request PROVE RequestOK(u)'
  <2>1. RequestOK(u)
    BY DEF RequestInv
  <2>2. CASE reply'[u] = reply[u]
    <3> HIDE DEF IInv
    <3> QED BY <1>2, <1>7, <2>1, <2>2 DEF RequestOK, Definite
  <2>3. CASE reply'[u] # reply[u]
    <3>1. u = m.by /\ pc[u] = "wait"
      BY <1>1, <1>3, <2>3 DEF TypeOK
    <3>2. \/ reply'[u] \in {"temporary", "garbled", None}
          \/ reply'[u] \in {"refuse", "foreign"} /\ m \notin wire'
      <4>1. \A x : reply' = [reply EXCEPT ![m.by] = x] => reply'[u] = x
        BY <3>1 DEF TypeOK
      <4>2. reply' # reply
        BY <2>3
      <4> HIDE DEF IInv
      <4> QED BY <1>3, <4>1, <4>2
    <3>3. uid[u] = m.id /\ known[m.id] = None
      BY <1>1, <3>1 DEF UploadOK
    <3>4. m \notin wire' => NotSent(m.id)'
      BY <1>2, <1>4, <3>3 DEF NotSent
    <3> HIDE DEF IInv
    <3> QED BY <1>1, <1>2, <1>7, <2>1, <3>1, <3>2, <3>3, <3>4 DEF RequestOK, Definite
  <2> QED BY <2>2, <2>3
<1>10. WireInv'
  BY <1>2 DEF WireInv, UploadOK
<1>11. GradedIsFrozen'
  BY <1>2 DEF GradedIsFrozen
<1> HIDE DEF IInv
<1> QED BY <1>5, <1>6, <1>8, <1>9, <1>10, <1>11 DEF IInv, RequestInv

\* The participant's edits and the status requests touch nothing of this.
LEMMA OthersKeep ==
  ASSUME IInv, Edit \/ QueryStep \/ Finished \/ UNCHANGED vars
  PROVE IInv'
<1> USE DEF IInv
<1>1. UNCHANGED <<lock, pc, uid, verdict, frozen, wire, reply, known, told>>
  BY DEF Edit, QueryStep, Ask, Look, Report, Finished, vars, server
<1>2. left' \in [Costs -> Nat] /\ model' \in Artifact \cup {None}
  <2>1. CASE Edit
    BY <2>1 DEF Edit, Pay, Costs, TypeOK
  <2>2. CASE UNCHANGED <<model, left>>
    BY <2>2 DEF TypeOK
  <2> QED BY <2>1, <2>2 DEF QueryStep, Ask, Look, Report, Finished, vars
<1>3. query' \in [Query -> QueryStates]
  <2>1. CASE UNCHANGED query
    BY <2>1 DEF TypeOK
  <2>2. ASSUME NEW q \in Query, NEW i \in Id, Ask(q, i)
        PROVE <1>3
    <3>1. QueryRecord("asked", i, known[i] # None, "none", "none") \in QueryStates
      BY DEF QueryRecord, QueryStates
    <3> QED BY <2>2, <3>1 DEF Ask, TypeOK
  <2>3. ASSUME NEW q \in Query, Look(q)
        PROVE <1>3
    <3>1. query[q].id \in Id \cup {None} /\ query[q].taken \in BOOLEAN
      BY DEF TypeOK, QueryStates
    <3>2. \A x \in {"unknown", "status", "temporary", "garbled"} :
            QueryRecord("answered", query[q].id, query[q].taken, x, "none") \in QueryStates
      BY <3>1 DEF QueryRecord, QueryStates
    <3> QED BY <2>3, <3>2 DEF Look, TypeOK
  <2>4. ASSUME NEW q \in Query, Report(q)
        PROVE <1>3
    <3>1. StatusCode(query[q].seen) \in {"status", "notFound", "unavailable"}
      BY DEF StatusCode
    <3>2. QueryRecord("idle", query[q].id, query[q].taken, query[q].seen, StatusCode(query[q].seen))
            \in QueryStates
      BY <3>1 DEF QueryRecord, QueryStates, TypeOK
    <3> QED BY <2>4, <3>2 DEF Report, TypeOK
  <2> QED BY <2>1, <2>2, <2>3, <2>4 DEF Edit, QueryStep, Finished, vars
<1>4. TypeOK'
  BY <1>1, <1>2, <1>3 DEF TypeOK
<1>5. OneUploadAtATime' /\ GradedIsFrozen'
  BY <1>1 DEF OneUploadAtATime, GradedIsFrozen
<1>6. IdInv'
  BY <1>1 DEF IdInv, NotSent
<1>7. RequestInv'
  BY <1>1 DEF RequestInv, RequestOK, NotSent
<1>8. WireInv'
  BY <1>1 DEF WireInv, UploadOK
<1> QED BY <1>4, <1>5, <1>6, <1>7, <1>8

\* A crash forgets the lock and the replies, not what was sent or promised.
LEMMA CrashKeeps ==
  ASSUME IInv, Crash
  PROVE IInv'
<1> USE ClientNone DEF IInv, Holding, Verdicts, Replies
<1>1. UNCHANGED <<model, uid, verdict, frozen, wire, known, told>>
  BY DEF Crash, server
<1>2. \A u \in Request :
        /\ reply'[u] = None
        /\ \/ pc[u] \in Holding \cup {"respond"} /\ pc'[u] = "lost"
           \/ pc[u] \notin Holding \cup {"respond"} /\ pc'[u] = pc[u]
  BY DEF Crash
<1>3. TypeOK'
  <2>1. query' \in [Query -> QueryStates]
    BY DEF Crash, TypeOK, QueryStates, NoQuery, QueryRecord
  <2>2. left' \in [Costs -> Nat]
    BY DEF Crash, Pay, TypeOK, Costs
  <2> QED BY <1>1, <2>1, <2>2 DEF Crash, TypeOK, Labels
<1>4. OneUploadAtATime'
  BY <1>2 DEF Crash, OneUploadAtATime
<1>5. \A i : NotSent(i) => NotSent(i)'
  BY <1>1 DEF NotSent
<1>6. IdInv'
  BY <1>1, <1>5 DEF IdInv
<1>7. RequestInv'
  <2> HIDE DEF IInv
  <2>1. RequestInv
    BY DEF IInv
  <2> QED BY <1>1, <1>2, <1>5, <2>1 DEF RequestInv, RequestOK, Definite
<1>8. WireInv'
  BY <1>1, <1>2 DEF WireInv, UploadOK, TypeOK, Upload
<1>9. GradedIsFrozen'
  BY <1>1 DEF GradedIsFrozen
<1> QED BY <1>3, <1>4, <1>6, <1>7, <1>8, <1>9

-----------------------------------------------------------------------------
(* The theorems *)

\* Every step keeps the inductive invariant.
LEMMA Inductive == IInv /\ [Next]_vars => IInv'
BY EnterKeeps, SelectKeeps, FreezeModelKeeps, FreezeFailsKeeps, SendKeeps, GiveUpKeeps,
   AnsweredKeeps, ReleaseKeeps, RespondKeeps, TurnAwayKeeps, PrepareFailsKeeps,
   ServerAcceptsKeeps, ServerRefusesKeeps, OthersKeep, CrashKeeps
DEF Next, Step, ServerStep

\* The inductive invariant holds in every reachable state of the client.
THEOREM Invariance == Spec => []IInv
BY Initially, Inductive, PTL DEF Spec

\* Types, for every set of requests, ids and queries.
THEOREM ClientTypes == Spec => []TypeOK
<1>1. IInv => TypeOK
  BY DEF IInv
<1> QED BY <1>1, Invariance, PTL

\* _SUBMISSION_LOCK admits one request at a time from its name check to its
\* release, whatever fails or crashes (lines 129-153).
THEOREM MutualExclusion == Spec => []OneUploadAtATime
<1>1. IInv => OneUploadAtATime
  BY DEF IInv
<1> QED BY <1>1, Invariance, PTL

\* A 202, or the 500 its validation may turn it into, is only given for an id the
\* server took with the frozen bytes (the acknowledgement check of lines 113-123).
THEOREM AcceptanceIsReal == Spec => []AcceptedIsGraded
<1>1. IInv => AcceptedIsGraded
  <2> SUFFICES ASSUME IInv, NEW r \in Request, verdict[r] \in {"accepted", "invalid"}
               PROVE known[uid[r]] # None /\ known[uid[r]] = frozen[uid[r]]
    BY DEF AcceptedIsGraded
  <2>1. uid[r] \in Id /\ known[uid[r]] # None
    BY DEF IInv, RequestInv, RequestOK, TypeOK
  <2> QED BY <2>1 DEF IInv, GradedIsFrozen
<1> QED BY <1>1, Invariance, PTL

\* What is graded under an id is its snapshot on disk, whatever the participant
\* does to the model file (lines 134-142 with 85-96).
THEOREM GradesTheSnapshot == Spec => []GradedIsFrozen
<1>1. IInv => GradedIsFrozen
  BY DEF IInv
<1> QED BY <1>1, Invariance, PTL

\* An outcome reported as definite stays one: a late answer of the server never
\* contradicts it (the classification of lines 97-122).
THEOREM DefiniteVerdicts == Spec => []DefiniteIsFinal
<1>1. IInv => DefiniteIsFinal
  BY DEF IInv, RequestInv, RequestOK, Definite, NotSent, DefiniteIsFinal
<1> QED BY <1>1, Invariance, PTL

\* No attempt is spent without the client being told the id (the hint of lines
\* 143-146), unless the process was killed or routes.py:91 refused the server's
\* acknowledgement, which AcceptanceIsReal shows to be of an accepted upload.
THEOREM AttemptsAreTold == Spec => []NoSilentAttempt
<1>1. IInv => NoSilentAttempt
  <2> SUFFICES ASSUME IInv, NEW r \in Request, pc[r] = "done", uid[r] # None,
                      verdict[r] # "invalid", known[uid[r]] # None
               PROVE uid[r] \in told
    BY DEF NoSilentAttempt
  <2>1. RequestOK(r) /\ verdict[r] \in Verdicts
    BY DEF IInv, RequestInv, RequestOK, TypeOK
  <2> QED BY <2>1 DEF RequestOK, Definite, NotSent, Verdicts
<1> QED BY <1>1, Invariance, PTL
==============================================================================

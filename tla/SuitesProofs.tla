----------------------------- MODULE SuitesProofs -----------------------------
(***************************************************************************)
(* For every set of runners and suites, whatever they work on and in which   *)
(* order they are launched: one experiment at a time is on the GPU and       *)
(* scores its own checkpoint while nothing is killed; the state file of a    *)
(* suite tells the truth about it, and a suite that completes used only what *)
(* it hashed, whatever is killed, fails or is edited. For every landscape,   *)
(* S05 fails by a fault only, if its budget covers its refinements, and      *)
(* exports the best of its candidates if its two evaluations agree.          *)
(***************************************************************************)
EXTENDS Suites, FiniteSetTheorems, SequenceTheorems, TLAPS

Child == [run : Run, what : {"train", "score", "command"}, memory : BOOLEAN]

TypeInv ==
  /\ DOMAIN pc = Runner /\ next \in [Runner -> Nat]
  /\ DOMAIN ckpt = Config /\ DOMAIN score = Runner
  /\ children \subseteq Child /\ kills \in Nat
  /\ DOMAIN at = Suite /\ DOMAIN todo = Suite
  /\ DOMAIN state = Names

\* A runner in run(), between its flock and the close of the lock file; a
\* suite runs other commands under the lock as well.
InRun(r) == pc[r] \in {"locked", "training", "trained", "scoring"} /\ (r \in Suite => at[r] = "exp")
Commanding(r) == r \in Suite /\ at[r] \in {"locked", "running"}

\* Whoever is between acquiring and releasing has the lock.
LockInv == \A r \in Runner : InRun(r) \/ Commanding(r) => lock = r

\* A configuration that is worked on is one of the runner's own; a suite that
\* is not in run() has not entered it, or has left it.
WorkOK(r) ==
  /\ InRun(r) => next[r] \in DOMAIN Work[r]
  /\ r \notin Suite /\ pc[r] = "queued" => next[r] \in DOMAIN Work[r]
  /\ pc[r] \in {"look", "header", "row"} /\ r \notin Suite => next[r] \in DOMAIN Work[r]
  /\ r \in Suite /\ at[r] \notin {"exp", "failed", "killed"} => pc[r] \in {"queued", "done"}
  /\ r \in Suite /\ at[r] = "exp" => pc[r] \in {"queued", "done"} \/ ~Passed(r)

WorkInv == \A r \in Runner : WorkOK(r)

\* While nothing is killed, a process on the GPU is the one that the holder of
\* the lock waits for.
ChildOK(k) ==
  LET r == k.run[1]
  IN  /\ k.run = ThisRun(r)
      /\ \/ InRun(r) /\ pc[r] = "training" /\ k.what = "train"
         \/ InRun(r) /\ pc[r] = "scoring" /\ k.what = "score"
         \/ Commanding(r) /\ at[r] = "running" /\ k.what = "command"

ChildInv == kills = 0 => \A k \in children : ChildOK(k)

\* While nothing is killed, the checkpoint of a trained configuration is the
\* one of this run until it has been scored, and so is the score.
CkptOK(r) ==
  /\ InRun(r) /\ (pc[r] \in {"trained", "scoring"} \/ (pc[r] = "training" /\ Running(r) = {})) =>
       ckpt[Work[r][next[r]]] = ThisRun(r)
  /\ InRun(r) /\ pc[r] = "scoring" /\ Running(r) = {} => score[r] = ThisRun(r)
  /\ pc[r] \in {"look", "header", "row"} => score[r] = ThisRun(r)

CkptInv == kills = 0 => \A r \in Runner : CkptOK(r)

\* What the state file of a suite says at each point of the suite.
FileOK(s) ==
  LET file == state[Program[s]]
  IN  at[s] \notin {"off", "start", "checked", "refused", "killed"} =>
        /\ file # None /\ file.by = s
        /\ at[s] = "failed" => file.status = "failed"
        /\ at[s] \in {"next", "exp", "waiting", "locked", "running", "ended"} => file.status \in {"queued", "running"}
        /\ at[s] = "appended" => file.status # "completed" /\ s \in sections
        /\ Program[s] # "S03" /\ file.status = "completed" => s \in sections

FileInv == \A s \in Suite : FileOK(s)

IInv == TypeInv /\ LockInv /\ WorkInv /\ ChildInv /\ CkptInv /\ FileInv
-----------------------------------------------------------------------------
(* The initial state *)

\* The invariant holds when runners and suites are launched.
LEMMA Initially == SuiteInit => IInv
<1> SUFFICES ASSUME SuiteInit PROVE IInv
  OBVIOUS
<1>1. PICK launched \in Launches : pc = [r \in Runner |-> IF r \in launched THEN "queued" ELSE "done"]
  BY DEF SuiteInit, Init
<1>2. TypeInv
  BY <1>1 DEF SuiteInit, Init, TypeInv
<1>3. LockInv /\ ChildInv /\ CkptInv
  BY <1>1, SuiteAssumption DEF SuiteInit, Init, LockInv, InRun, Commanding, ChildInv, CkptInv, CkptOK
<1>4. WorkInv
  <2> SUFFICES ASSUME NEW r \in Runner PROVE WorkOK(r)
    BY DEF WorkInv
  <2>1. r \notin Suite /\ pc[r] = "queued" => next[r] \in DOMAIN Work[r]
    <3> SUFFICES ASSUME r \notin Suite, pc[r] = "queued" PROVE next[r] \in DOMAIN Work[r]
      OBVIOUS
    <3>1. Work[r] # <<>> /\ Work[r] \in Seq(Config) /\ next[r] = 1
      BY <1>1, SuiteWork, WorkAssumption DEF SuiteInit, Init
    <3> QED
      BY <3>1
  <2> QED
    BY <1>1, <2>1, SuiteAssumption DEF SuiteInit, Init, WorkOK, InRun
<1>5. FileInv
  BY SuiteAssumption DEF SuiteInit, FileInv, FileOK
<1> QED
  BY <1>2, <1>3, <1>4, <1>5 DEF IInv

-----------------------------------------------------------------------------
(* Steps of run_exp.py *)

\* What a step needs that leaves alone all the invariant speaks of.
LEMMA Unmoved ==
  ASSUME IInv, UNCHANGED <<lock, pc, next, children, ckpt, score, kills, at, todo, state, sections>>
  PROVE  IInv'
<1>1. TypeInv' /\ LockInv' /\ WorkInv'
  BY DEF IInv, TypeInv, LockInv, InRun, Commanding, WorkInv, WorkOK, Passed, Now
<1>2. ChildInv' /\ CkptInv'
  BY DEF IInv, ChildInv, ChildOK, ThisRun, InRun, Commanding, CkptInv, CkptOK, Running
<1>3. FileInv'
  BY DEF IInv, FileInv, FileOK
<1> QED
  BY <1>1, <1>2, <1>3 DEF IInv

\* The steps of run_exp.run keep the invariant, in a runner and in a suite.
LEMMA QueueSteps ==
  ASSUME IInv, NEW a \in Runner, Step(a), UNCHANGED suites,
         a \in Suite => at[a] = "exp" /\ next[a] \in DOMAIN Work[a] /\ ~Passed(a)
  PROVE  IInv'
<1> USE SuiteAssumption, QueueNone DEF IInv, TypeInv, InRun, Commanding, Goto, suites, files, search, world, gpu, bounds
<1>0. FileInv'
  BY DEF FileInv, FileOK
<1>1. CASE Lock(a)
  <2>1. TypeInv'
    BY <1>1 DEF Lock, TypeInv, Child, Run, ThisRun
  <2>2. LockInv'
    BY <1>1 DEF Lock, LockInv
  <2>3. WorkInv'
    BY <1>1 DEF Lock, WorkInv, WorkOK, Passed, Now, LockInv
  <2>4. ChildInv'
    BY <1>1 DEF Lock, ChildInv, ChildOK, ThisRun, LockInv, Child, Run
  <2>5. CkptInv'
    BY <1>1 DEF Lock, CkptInv, CkptOK, ThisRun, Running, LockInv, WorkInv, WorkOK, ChildInv, ChildOK, Child
  <2> QED
    BY <1>0, <2>1, <2>2, <2>3, <2>4, <2>5
<1>2. CASE Train(a)
  <2>1. TypeInv'
    <3>1. ChildOf(a, "train", FALSE) \in Child
      BY DEF ChildOf, Child, Run, ThisRun
    <3> QED
      BY <1>2, <3>1 DEF Train
  <2>2. LockInv'
    BY <1>2 DEF Train, LockInv
  <2>3. WorkInv'
    BY <1>2 DEF Train, WorkInv, WorkOK, Passed, Now, LockInv, ChildOf
  <2>4. ChildInv'
    BY <1>2 DEF Train, ChildInv, ChildOK, ThisRun, LockInv, Child, Run, ChildOf
  <2>5. CkptInv'
    <3>1. Running(a)' # {}
      <4> DEFINE child == ChildOf(a, "train", FALSE)
      <4>1. child.run = <<a, next[a]>>
        BY DEF ChildOf, ThisRun
      <4>2. child \in children' /\ next' = next
        BY <1>2 DEF Train
      <4> HIDE DEF child
      <4> QED
        BY <4>1, <4>2 DEF Running, ThisRun
    <3> QED
      BY <1>2, <3>1 DEF Train, LockInv, CkptInv, CkptOK, Running, ThisRun
  <2> QED
    BY <1>0, <2>1, <2>2, <2>3, <2>4, <2>5
<1>3. CASE Trained(a)
  <2>1. TypeInv'
    BY <1>3 DEF Trained, TypeInv, Child, Run, ThisRun
  <2>2. LockInv'
    BY <1>3 DEF Trained, LockInv
  <2>3. WorkInv'
    BY <1>3 DEF Trained, WorkInv, WorkOK, Passed, Now, LockInv
  <2>4. ChildInv'
    <3> SUFFICES ASSUME kills = 0, NEW k \in children PROVE ChildOK(k)'
      BY <1>3 DEF Trained, ChildInv
    <3>1. ChildOK(k) /\ k \notin Running(a)
      BY <1>3 DEF Trained, ChildInv
    <3>2. k.run[1] # a
      BY <3>1 DEF ChildOK, Running, ThisRun
    <3> QED
      BY <1>3, <3>1, <3>2 DEF Trained, ChildOK, ThisRun
  <2>5. CkptInv'
    BY <1>3 DEF Trained, CkptInv, CkptOK, ThisRun, Running, LockInv, WorkInv, WorkOK, ChildInv, ChildOK, Child
  <2> QED
    BY <1>0, <2>1, <2>2, <2>3, <2>4, <2>5
<1>4. CASE Score(a)
  <2>1. TypeInv'
    <3>1. ChildOf(a, "score", FALSE) \in Child
      BY DEF ChildOf, Child, Run, ThisRun
    <3> QED
      BY <1>4, <3>1 DEF Score
  <2>2. LockInv'
    BY <1>4 DEF Score, LockInv
  <2>3. WorkInv'
    BY <1>4 DEF Score, WorkInv, WorkOK, Passed, Now, LockInv, ChildOf
  <2>4. ChildInv'
    BY <1>4 DEF Score, ChildInv, ChildOK, ThisRun, LockInv, Child, Run, ChildOf
  <2>5. CkptInv'
    <3>1. Running(a)' # {}
      <4> DEFINE child == ChildOf(a, "score", FALSE)
      <4>1. child.run = <<a, next[a]>>
        BY DEF ChildOf, ThisRun
      <4>2. child \in children' /\ next' = next
        BY <1>4 DEF Score
      <4> HIDE DEF child
      <4> QED
        BY <4>1, <4>2 DEF Running, ThisRun
    <3> QED
      BY <1>4, <3>1 DEF Score, LockInv, CkptInv, CkptOK, Running, ThisRun
  <2> QED
    BY <1>0, <2>1, <2>2, <2>3, <2>4, <2>5
<1>5. CASE Scored(a)
  <2>1. TypeInv'
    BY <1>5 DEF Scored, TypeInv, Child, Run, ThisRun
  <2>2. LockInv'
    BY <1>5 DEF Scored, LockInv
  <2>3. WorkInv'
    BY <1>5 DEF Scored, WorkInv, WorkOK, Passed, Now, LockInv
  <2>4. ChildInv'
    <3> SUFFICES ASSUME kills = 0, NEW k \in children PROVE ChildOK(k)'
      BY <1>5 DEF Scored, ChildInv
    <3>1. ChildOK(k) /\ k \notin Running(a)
      BY <1>5 DEF Scored, ChildInv
    <3>2. k.run[1] # a
      BY <3>1 DEF ChildOK, Running, ThisRun
    <3> QED
      BY <1>5, <3>1, <3>2 DEF Scored, ChildOK, ThisRun
  <2>5. CkptInv'
    BY <1>5 DEF Scored, CkptInv, CkptOK, ThisRun, Running, LockInv, WorkInv, WorkOK, ChildInv, ChildOK, Child
  <2> QED
    BY <1>0, <2>1, <2>2, <2>3, <2>4, <2>5
<1>6. CASE Look(a)
  <2>1. TypeInv'
    BY <1>6 DEF Look, TypeInv, Child, Run, ThisRun
  <2>2. LockInv'
    BY <1>6 DEF Look, LockInv
  <2>3. WorkInv'
    BY <1>6 DEF Look, WorkInv, WorkOK, Passed, Now, LockInv
  <2>4. ChildInv'
    BY <1>6 DEF Look, ChildInv, ChildOK, ThisRun, LockInv, Child, Run
  <2>5. CkptInv'
    BY <1>6 DEF Look, CkptInv, CkptOK, ThisRun, Running, LockInv, WorkInv, WorkOK, ChildInv, ChildOK, Child
  <2> QED
    BY <1>0, <2>1, <2>2, <2>3, <2>4, <2>5
<1>7. CASE Header(a)
  <2>1. TypeInv'
    BY <1>7 DEF Header, TypeInv, Child, Run, ThisRun
  <2>2. LockInv'
    BY <1>7 DEF Header, LockInv
  <2>3. WorkInv'
    BY <1>7 DEF Header, WorkInv, WorkOK, Passed, Now, LockInv
  <2>4. ChildInv'
    BY <1>7 DEF Header, ChildInv, ChildOK, ThisRun, LockInv, Child, Run
  <2>5. CkptInv'
    BY <1>7 DEF Header, CkptInv, CkptOK, ThisRun, Running, LockInv, WorkInv, WorkOK, ChildInv, ChildOK, Child
  <2> QED
    BY <1>0, <2>1, <2>2, <2>3, <2>4, <2>5
<1>8. CASE Row(a)
  <2>1. TypeInv'
    BY <1>8 DEF Row, TypeInv, Child, Run, ThisRun
  <2>2. LockInv'
    BY <1>8 DEF Row, LockInv
  <2>3. WorkInv'
    <3> SUFFICES ASSUME NEW r \in Runner PROVE WorkOK(r)'
      BY DEF WorkInv
    <3>1. WorkOK(r) /\ Work[r] \in Seq(Config)
      BY WorkAssumption DEF WorkInv
    <3>2. CASE r = a
      BY <1>8, <3>1, <3>2 DEF Row, WorkOK, Passed, Now
    <3>3. CASE r # a
      BY <1>8, <3>1, <3>3 DEF Row, WorkOK, Passed, Now
    <3> QED
      BY <3>2, <3>3
  <2>4. ChildInv'
    BY <1>8 DEF Row, ChildInv, ChildOK, ThisRun, LockInv, Child, Run
  <2>5. CkptInv'
    BY <1>8 DEF Row, CkptInv, CkptOK, ThisRun, Running, LockInv, WorkInv, WorkOK, ChildInv, ChildOK, Child
  <2> QED
    BY <1>0, <2>1, <2>2, <2>3, <2>4, <2>5
<1> QED
  BY <1>1, <1>2, <1>3, <1>4, <1>5, <1>6, <1>7, <1>8 DEF Step

-----------------------------------------------------------------------------
(* Steps of a suite *)

\* A suite that writes its state file while it owns it, or creates it, leaves
\* those of the others alone: no other suite that has started has this file.
LEMMA FileWritten ==
  ASSUME TypeInv, FileInv, NEW s \in Suite, NEW where, NEW status \in FileStatus,
         state' = [state EXCEPT ![Program[s]] = [by |-> s, status |-> status]],
         at' = [at EXCEPT ![s] = where],
         at[s] \notin {"off", "start", "checked", "refused", "killed"} \/ state[Program[s]] = None,
         sections \subseteq sections',
         where = "failed" => status = "failed",
         where \in {"next", "exp", "waiting", "locked", "running", "ended"} => status \in {"queued", "running"},
         where = "appended" => status # "completed" /\ s \in sections',
         Program[s] # "S03" /\ status = "completed" => s \in sections'
  PROVE  FileInv'
<1> SUFFICES ASSUME NEW t \in Suite PROVE FileOK(t)'
  BY DEF FileInv
<1>1. Program[s] \in Names /\ Program[t] \in Names
  BY SuiteAssumption
<1>2. CASE t = s
  <2>1. state'[Program[s]] = [by |-> s, status |-> status] /\ at'[s] = where
    BY <1>1 DEF TypeInv
  <2>2. [by |-> s, status |-> status] # None
    BY SuiteNone
  <2> QED
    BY <1>2, <2>1, <2>2 DEF FileOK
<1>3. CASE t # s
  <2>1. at'[t] = at[t] /\ FileOK(t)
    BY <1>3 DEF TypeInv, FileInv
  <2>2. CASE Program[t] # Program[s]
    BY <1>1, <2>1, <2>2 DEF TypeInv, FileOK
  <2>3. CASE Program[t] = Program[s]
    BY <1>3, <2>1, <2>3 DEF FileInv, FileOK
  <2> QED
    BY <2>2, <2>3
<1> QED
  BY <1>2, <1>3

\* A suite that moves without writing its state file.
LEMMA FileUnwritten ==
  ASSUME TypeInv, FileInv, NEW s \in Suite, NEW where,
         state' = state, at' = [at EXCEPT ![s] = where], sections \subseteq sections',
         \/ where \in {"refused", "killed", "checked"}
         \/ /\ at[s] \in {"next", "exp", "waiting", "locked", "running", "ended"}
            /\ where \in {"next", "exp", "waiting", "locked", "running", "ended"}
         \/ at[s] = "next" /\ where = "appended" /\ s \in sections'
         \/ at[s] = "completed" /\ where = "done"
  PROVE  FileInv'
<1> SUFFICES ASSUME NEW t \in Suite PROVE FileOK(t)'
  BY DEF FileInv
<1>1. FileOK(t) /\ (at'[t] = IF t = s THEN where ELSE at[t])
  BY DEF TypeInv, FileInv
<1> QED
  BY <1>1 DEF FileOK

\* A suite that moves cannot disturb what runs know of their checkpoints.
LEMMA CkptKept ==
  ASSUME CkptInv, UNCHANGED <<pc, next, ckpt, score, kills>>,
         \A r \in Runner : InRun(r)' => InRun(r) /\ Running(r)' = Running(r)
  PROVE  CkptInv'
<1> SUFFICES ASSUME kills = 0, NEW r \in Runner PROVE CkptOK(r)'
  BY DEF CkptInv
<1>1. CkptOK(r)
  BY DEF CkptInv
<1> QED
  BY <1>1 DEF CkptOK, ThisRun

\* Every step of a suite keeps the invariant.
LEMMA SuiteSteps ==
  ASSUME IInv, NEW s \in Suite, SuiteStep(s) \/ Plan(s) \/ SuiteFails(s) \/ KillSuite(s)
  PROVE  IInv'
<1> USE SuiteAssumption, QueueNone DEF IInv, TypeInv, InRun, Commanding, Enter,
      suites, files, search, world, vars, gpu, bounds, runners
<1>1. CASE Check(s)
  <2>1. TypeInv'
    BY <1>1 DEF Check
  <2>2. LockInv'
    BY <1>1 DEF Check, LockInv
  <2>3. WorkInv'
    BY <1>1 DEF Check, WorkInv, WorkOK, Passed, Now, LockInv
  <2>4. ChildInv'
    BY <1>1 DEF Check, ChildInv, ChildOK, ThisRun, LockInv, Child, Run
  <2>5. CkptInv'
    BY <1>1 DEF Check, CkptInv, CkptOK, ThisRun, Running, LockInv
  <2>6. FileInv'
    BY <1>1, FileUnwritten DEF Check
  <2> QED
    BY <2>1, <2>2, <2>3, <2>4, <2>5, <2>6
<1>2. CASE Create(s)
  <2>1. TypeInv'
    BY <1>2 DEF Create, Status
  <2>2. LockInv'
    BY <1>2 DEF Create, Status, LockInv
  <2>3. WorkInv'
    BY <1>2 DEF Create, Status, WorkInv, WorkOK, Passed, Now, LockInv
  <2>4. ChildInv'
    BY <1>2 DEF Create, Status, ChildInv, ChildOK, ThisRun, LockInv, Child, Run
  <2>5. CkptInv'
    BY <1>2 DEF Create, Status, CkptInv, CkptOK, ThisRun, Running, LockInv
  <2>6. FileInv'
    <3>1. CASE state[Program[s]] = None
      BY <1>2, <3>1, FileWritten DEF FileStatus, Create, Status
    <3>2. CASE state[Program[s]] # None
      BY <1>2, <3>2, FileUnwritten DEF Create
    <3> QED
      BY <3>1, <3>2
  <2> QED
    BY <2>1, <2>2, <2>3, <2>4, <2>5, <2>6
<1>3. CASE Request(s)
  <2>1. TypeInv'
    BY <1>3 DEF Request, Status, Fail
  <2>2. LockInv'
    BY <1>3 DEF Request, Status, Fail, LockInv, WorkInv, WorkOK
  <2>3. WorkInv'
    BY <1>3 DEF Request, Status, Fail, WorkInv, WorkOK, Passed, Now, LockInv
  <2>4. ChildInv'
    BY <1>3 DEF Request, Status, Fail, ChildInv, ChildOK, ThisRun, LockInv, Child, Run, WorkInv, WorkOK
  <2>5. CkptInv'
    <3>1. ASSUME NEW r \in Runner, InRun(r)' PROVE InRun(r) /\ Running(r)' = Running(r)
      BY <1>3, <3>1 DEF Request, Status, Fail, WorkInv, WorkOK, Running, ThisRun, Ends, Child, Run
    <3>2. UNCHANGED <<pc, next, ckpt, score, kills>>
      BY <1>3 DEF Request
    <3> QED
      BY <3>1, <3>2, CkptKept
  <2>6. FileInv'
    <3>1. CASE at' = [at EXCEPT ![s] = "failed"] /\ state' = [state EXCEPT ![Program[s]] = [by |-> s, status |-> "failed"]]
      BY <1>3, <3>1, FileWritten DEF FileStatus, Request
    <3>2. CASE ~(at' = [at EXCEPT ![s] = "failed"] /\ state' = [state EXCEPT ![Program[s]] = [by |-> s, status |-> "failed"]])
      <4>1. /\ at' = [at EXCEPT ![s] = IF Now(s).what = "exp" THEN "exp" ELSE "waiting"]
            /\ state' = [state EXCEPT ![Program[s]] = [by |-> s, status |-> "running"]]
        BY <1>3, <3>2 DEF Request, Status, Fail
      <4> QED
        BY <1>3, <4>1, FileWritten DEF FileStatus, Request
    <3> QED
      BY <3>1, <3>2
  <2> QED
    BY <2>1, <2>2, <2>3, <2>4, <2>5, <2>6
<1>4. CASE Experimented(s)
  <2>1. TypeInv'
    BY <1>4 DEF Experimented
  <2>2. LockInv'
    BY <1>4 DEF Experimented, LockInv, WorkInv, WorkOK
  <2>3. WorkInv'
    BY <1>4 DEF Experimented, WorkInv, WorkOK, Passed, Now, LockInv
  <2>4. ChildInv'
    BY <1>4 DEF Experimented, ChildInv, ChildOK, ThisRun, LockInv, Child, Run, WorkInv, WorkOK
  <2>5. CkptInv'
    BY <1>4 DEF Experimented, CkptInv, CkptOK, ThisRun, Running, LockInv, WorkInv, WorkOK
  <2>6. FileInv'
    BY <1>4, FileUnwritten DEF Experimented
  <2> QED
    BY <2>1, <2>2, <2>3, <2>4, <2>5, <2>6
<1>5. CASE Acquire(s)
  <2>1. TypeInv'
    BY <1>5 DEF Acquire
  <2>2. LockInv'
    BY <1>5 DEF Acquire, LockInv
  <2>3. WorkInv'
    BY <1>5 DEF Acquire, WorkInv, WorkOK, Passed, Now, LockInv
  <2>4. ChildInv'
    BY <1>5 DEF Acquire, ChildInv, ChildOK, ThisRun, LockInv, Child, Run
  <2>5. CkptInv'
    BY <1>5 DEF Acquire, CkptInv, CkptOK, ThisRun, Running, LockInv
  <2>6. FileInv'
    BY <1>5, FileUnwritten DEF Acquire
  <2> QED
    BY <2>1, <2>2, <2>3, <2>4, <2>5, <2>6
<1>6. CASE Ready(s)
  <2>1. TypeInv'
    <3>1. ChildOf(s, "command", FALSE) \in Child
      BY DEF ChildOf, Child, Run, ThisRun
    <3> QED
      BY <1>6, <3>1 DEF Ready, Status, Fail
  <2>2. LockInv'
    BY <1>6 DEF Ready, Status, Fail, ChildOf, LockInv
  <2>3. WorkInv'
    BY <1>6 DEF Ready, Status, Fail, ChildOf, WorkInv, WorkOK, Passed, Now, LockInv
  <2>4. ChildInv'
    BY <1>6 DEF Ready, Status, Fail, ChildOf, ChildInv, ChildOK, ThisRun, LockInv, Child, Run
  <2>5. CkptInv'
    BY <1>6 DEF Ready, Status, Fail, ChildOf, CkptInv, CkptOK, ThisRun, Running, LockInv
  <2>6. FileInv'
    <3>1. \/ at' = [at EXCEPT ![s] = "failed"] /\ state' = [state EXCEPT ![Program[s]] = [by |-> s, status |-> "failed"]]
          \/ at' = [at EXCEPT ![s] = "running"] /\ state' = state
      BY <1>6 DEF Ready, Fail, Status
    <3>2. CASE at' = [at EXCEPT ![s] = "running"] /\ state' = state
      BY <1>6, <3>2, FileUnwritten DEF Ready
    <3>3. CASE at' = [at EXCEPT ![s] = "failed"] /\ state' = [state EXCEPT ![Program[s]] = [by |-> s, status |-> "failed"]]
      BY <1>6, <3>3, FileWritten DEF FileStatus, Ready
    <3> QED
      BY <3>1, <3>2, <3>3
  <2> QED
    BY <2>1, <2>2, <2>3, <2>4, <2>5, <2>6
<1>7. CASE Ended(s)
  <2>1. TypeInv'
    BY <1>7 DEF Ended
  <2>2. LockInv'
    BY <1>7 DEF Ended, LockInv
  <2>3. WorkInv'
    BY <1>7 DEF Ended, WorkInv, WorkOK, Passed, Now, LockInv
  <2>4. ChildInv'
    <3> SUFFICES ASSUME kills = 0, NEW k \in children PROVE ChildOK(k)'
      BY <1>7 DEF Ended, ChildInv
    <3>1. ChildOK(k) /\ k \notin Running(s)
      BY <1>7 DEF Ended, ChildInv
    <3>2. k.run[1] # s
      BY <3>1 DEF ChildOK, Running, ThisRun
    <3> QED
      BY <1>7, <3>1, <3>2 DEF Ended, ChildOK, ThisRun
  <2>5. CkptInv'
    BY <1>7 DEF Ended, CkptInv, CkptOK, ThisRun, Running, LockInv
  <2>6. FileInv'
    BY <1>7, FileUnwritten DEF Ended
  <2> QED
    BY <2>1, <2>2, <2>3, <2>4, <2>5, <2>6
<1>8. CASE Export(s)
  <2>1. TypeInv'
    BY <1>8 DEF Export, Status, Fail
  <2>2. LockInv'
    BY <1>8 DEF Export, Status, Fail, LockInv
  <2>3. WorkInv'
    BY <1>8 DEF Export, Status, Fail, WorkInv, WorkOK, Passed, Now, LockInv
  <2>4. ChildInv'
    BY <1>8 DEF Export, Status, Fail, ChildInv, ChildOK, ThisRun, LockInv, Child, Run
  <2>5. CkptInv'
    BY <1>8 DEF Export, Status, Fail, CkptInv, CkptOK, ThisRun, Running, LockInv
  <2>6. FileInv'
    <3>1. \/ at' = [at EXCEPT ![s] = "failed"] /\ state' = [state EXCEPT ![Program[s]] = [by |-> s, status |-> "failed"]]
             /\ sections' = sections
          \/ at' = [at EXCEPT ![s] = "appended"] /\ state' = state /\ sections' = sections \cup {s}
      BY <1>8 DEF Export, Fail, Status
    <3>2. at[s] = "next"
      BY <1>8 DEF Export
    <3>3. CASE at' = [at EXCEPT ![s] = "appended"] /\ state' = state /\ sections' = sections \cup {s}
      BY <3>2, <3>3, FileUnwritten
    <3>4. CASE at' = [at EXCEPT ![s] = "failed"] /\ state' = [state EXCEPT ![Program[s]] = [by |-> s, status |-> "failed"]]
               /\ sections' = sections
      BY <3>2, <3>4, FileWritten DEF FileStatus
    <3> QED
      BY <3>1, <3>3, <3>4
  <2> QED
    BY <2>1, <2>2, <2>3, <2>4, <2>5, <2>6
<1>9. CASE AppendSection(s)
  <2>1. TypeInv'
    BY <1>9 DEF AppendSection
  <2>2. LockInv'
    BY <1>9 DEF AppendSection, LockInv
  <2>3. WorkInv'
    BY <1>9 DEF AppendSection, WorkInv, WorkOK, Passed, Now, LockInv
  <2>4. ChildInv'
    BY <1>9 DEF AppendSection, ChildInv, ChildOK, ThisRun, LockInv, Child, Run
  <2>5. CkptInv'
    BY <1>9 DEF AppendSection, CkptInv, CkptOK, ThisRun, Running, LockInv
  <2>6. FileInv'
    BY <1>9, FileUnwritten DEF AppendSection
  <2> QED
    BY <2>1, <2>2, <2>3, <2>4, <2>5, <2>6
<1>10. CASE Complete(s)
  <2>1. TypeInv'
    BY <1>10 DEF Complete, Status
  <2>2. LockInv'
    BY <1>10 DEF Complete, Status, LockInv, WorkInv, WorkOK
  <2>3. WorkInv'
    BY <1>10 DEF Complete, Status, WorkInv, WorkOK, Passed, Now, LockInv
  <2>4. ChildInv'
    BY <1>10 DEF Complete, Status, ChildInv, ChildOK, ThisRun, LockInv, Child, Run, WorkInv, WorkOK
  <2>5. CkptInv'
    <3>1. ASSUME NEW r \in Runner, InRun(r)' PROVE InRun(r) /\ Running(r)' = Running(r)
      BY <1>10, <3>1 DEF Complete, Status, WorkInv, WorkOK, Running, ThisRun, Ends, Child, Run
    <3>2. UNCHANGED <<pc, next, ckpt, score, kills>>
      BY <1>10 DEF Complete
    <3> QED
      BY <3>1, <3>2, CkptKept
  <2>6. FileInv'
    <3>1. PICK where : /\ \/ where = "done" /\ Program[s] # "S03" /\ at[s] = "appended"
                          \/ where = "completed" /\ Program[s] = "S03" /\ at[s] = "next"
                       /\ at' = [at EXCEPT ![s] = where]
      BY <1>10 DEF Complete
    <3>2. Program[s] # "S03" => s \in sections
      BY <1>10, <3>1 DEF Complete, FileInv, FileOK
    <3> QED
      BY <1>10, <3>1, <3>2, FileWritten DEF FileStatus, Complete, Status
  <2> QED
    BY <2>1, <2>2, <2>3, <2>4, <2>5, <2>6
<1>11. CASE AppendLast(s)
  <2>1. TypeInv'
    BY <1>11 DEF AppendLast
  <2>2. LockInv'
    BY <1>11 DEF AppendLast, LockInv
  <2>3. WorkInv'
    BY <1>11 DEF AppendLast, WorkInv, WorkOK, Passed, Now, LockInv
  <2>4. ChildInv'
    BY <1>11 DEF AppendLast, ChildInv, ChildOK, ThisRun, LockInv, Child, Run
  <2>5. CkptInv'
    BY <1>11 DEF AppendLast, CkptInv, CkptOK, ThisRun, Running, LockInv
  <2>6. FileInv'
    BY <1>11, FileUnwritten DEF AppendLast
  <2> QED
    BY <2>1, <2>2, <2>3, <2>4, <2>5, <2>6
<1>12. CASE Plan(s)
  <2>1. TypeInv'
    BY <1>12 DEF Plan
  <2>2. LockInv'
    BY <1>12 DEF Plan, LockInv
  <2>3. WorkInv'
    BY <1>12 DEF Plan, WorkInv, WorkOK, Passed, Now, LockInv
  <2>4. ChildInv'
    BY <1>12 DEF Plan, ChildInv, ChildOK, ThisRun, LockInv, Child, Run
  <2>5. CkptInv'
    BY <1>12 DEF Plan, CkptInv, CkptOK, ThisRun, Running, LockInv
  <2>6. FileInv'
    BY <1>12 DEF Plan, FileInv, FileOK
  <2> QED
    BY <2>1, <2>2, <2>3, <2>4, <2>5, <2>6
<1>13. CASE SuiteFails(s)
  <2>1. TypeInv'
    BY <1>13 DEF SuiteFails, Status, Fail, Running
  <2>2. LockInv'
    BY <1>13 DEF SuiteFails, Status, Fail, LockInv, Ends
  <2>3. WorkInv'
    BY <1>13 DEF SuiteFails, Status, Fail, WorkInv, WorkOK, Passed, Now, LockInv, Ends
  <2>4. ChildInv'
    BY <1>13 DEF SuiteFails, Status, Fail, ChildInv, ChildOK, ThisRun, LockInv, Child, Run, Ends, Running
  <2>5. CkptInv'
    <3>1. ASSUME NEW r \in Runner, InRun(r)' PROVE InRun(r) /\ Running(r)' = Running(r)
      BY <1>13, <3>1 DEF SuiteFails, Status, Fail, WorkInv, WorkOK, Running, ThisRun, Ends, Child, Run
    <3>2. UNCHANGED <<pc, next, ckpt, score, kills>>
      BY <1>13 DEF SuiteFails
    <3> QED
      BY <3>1, <3>2, CkptKept
  <2>6. FileInv'
    <3>1. at[s] \notin {"off", "start", "checked", "refused", "killed"}
      BY <1>13 DEF SuiteFails, Ends
    <3> QED
      BY <1>13, <3>1, FileWritten DEF FileStatus, SuiteFails, Fail, Status
  <2> QED
    BY <2>1, <2>2, <2>3, <2>4, <2>5, <2>6
<1>14. CASE KillSuite(s)
  <2>1. TypeInv'
    BY <1>14 DEF KillSuite
  <2>2. LockInv'
    BY <1>14 DEF KillSuite, LockInv, Ends
  <2>3. WorkInv'
    BY <1>14 DEF KillSuite, WorkInv, WorkOK, Passed, Now, LockInv, Ends
  <2>4. ChildInv'
    BY <1>14 DEF KillSuite, ChildInv, ChildOK, ThisRun, LockInv, Child, Run, Ends, Running
  <2>5. CkptInv'
    BY <1>14 DEF KillSuite, CkptInv, CkptOK, ThisRun, Running, LockInv, Ends
  <2>6. FileInv'
    BY <1>14, FileUnwritten DEF KillSuite
  <2> QED
    BY <2>1, <2>2, <2>3, <2>4, <2>5, <2>6
<1>15. CASE Experiment(s)
  BY <1>15, QueueSteps DEF Experiment
<1>16. CASE Recorded(s)
  <2>1. TypeInv'
    BY <1>16 DEF Recorded, Status, Fail
  <2>2. LockInv'
    BY <1>16 DEF Recorded, Status, Fail, LockInv
  <2>3. WorkInv'
    BY <1>16 DEF Recorded, Status, Fail, WorkInv, WorkOK, Passed, Now, LockInv
  <2>4. ChildInv'
    BY <1>16 DEF Recorded, Status, Fail, ChildInv, ChildOK, ThisRun, LockInv, Child, Run, InRun, Commanding
  <2>5. CkptInv'
    BY <1>16 DEF Recorded, Status, Fail, CkptInv, CkptOK, ThisRun, Running, LockInv
  <2>6. FileInv'
    <3>1. \/ at' = [at EXCEPT ![s] = "failed"] /\ state' = [state EXCEPT ![Program[s]] = [by |-> s, status |-> "failed"]]
          \/ at' = [at EXCEPT ![s] = "next"] /\ state' = state
      BY <1>16 DEF Recorded, Fail, Status
    <3>2. CASE at' = [at EXCEPT ![s] = "next"] /\ state' = state
      BY <1>16, <3>2, FileUnwritten DEF Recorded
    <3>3. CASE at' = [at EXCEPT ![s] = "failed"] /\ state' = [state EXCEPT ![Program[s]] = [by |-> s, status |-> "failed"]]
      BY <1>16, <3>3, FileWritten DEF FileStatus, Recorded
    <3> QED
      BY <3>1, <3>2, <3>3
  <2> QED
    BY <2>1, <2>2, <2>3, <2>4, <2>5, <2>6
<1> QED
  BY <1>1, <1>2, <1>3, <1>4, <1>5, <1>6, <1>7, <1>8, <1>9, <1>10, <1>11, <1>12, <1>13, <1>14, <1>15, <1>16 DEF SuiteStep

-----------------------------------------------------------------------------
(* What happens to processes, runners and sources *)

\* Loading changes what a process is known to use, not whose it is.
LEMMA Loading ==
  ASSUME IInv, NEW k \in children, Load(k)
  PROVE  IInv'
<1> USE DEF IInv, TypeInv, InRun, Commanding, files
<1> DEFINE loaded == [k EXCEPT !.memory = TRUE]
<1>1. loaded \in Child /\ loaded.run = k.run /\ loaded.what = k.what
  BY DEF Child
<1>2. /\ children' = (children \ {k}) \cup {loaded}
      /\ UNCHANGED <<lock, pc, next, ckpt, score, kills, at, todo, state, sections>>
  BY DEF Load, Allocate, bounds
<1> HIDE DEF loaded
<1>3. TypeInv' /\ LockInv' /\ WorkInv' /\ FileInv'
  BY <1>1, <1>2 DEF LockInv, WorkInv, WorkOK, Passed, Now, FileInv, FileOK
<1>4. ChildInv'
  <2> SUFFICES ASSUME kills = 0, NEW c \in children' PROVE ChildOK(c)'
    BY <1>2 DEF ChildInv
  <2>1. PICK o \in children : c.run = o.run /\ c.what = o.what
    BY <1>1, <1>2
  <2> QED
    BY <1>2, <2>1 DEF ChildInv, ChildOK, ThisRun
<1>5. CkptInv'
  <2>1. ASSUME NEW r \in Runner, Running(r)' = {} PROVE Running(r) = {}
    BY <1>1, <1>2, <2>1 DEF Running, ThisRun
  <2> SUFFICES ASSUME kills = 0, NEW r \in Runner PROVE CkptOK(r)'
    BY <1>2 DEF CkptInv
  <2>2. CkptOK(r)
    BY DEF CkptInv
  <2> QED
    BY <1>2, <2>1, <2>2 DEF CkptOK, ThisRun
<1> QED
  BY <1>3, <1>4, <1>5

\* The end of a process records its checkpoint, or its score, for the run that
\* waits for it.
LEMMA Exiting ==
  ASSUME IInv, NEW k \in children, Exit(k), UNCHANGED suites
  PROVE  IInv'
<1> USE DEF IInv, TypeInv, InRun, Commanding, suites, files, search, world
<1>1. /\ children' = children \ {k}
      /\ ckpt' = IF k.what = "train" THEN [ckpt EXCEPT ![ConfigOf(k)] = k.run] ELSE ckpt
      /\ score' = IF k.what = "score" THEN [score EXCEPT ![k.run[1]] = ckpt[ConfigOf(k)]] ELSE score
      /\ UNCHANGED <<lock, pc, next, kills, at, todo, state, sections>>
  BY DEF Exit, bounds
<1>2. TypeInv' /\ LockInv' /\ WorkInv' /\ FileInv'
  BY <1>1 DEF LockInv, WorkInv, WorkOK, Passed, Now, FileInv, FileOK
<1>3. ChildInv'
  BY <1>1 DEF ChildInv, ChildOK, ThisRun
<1>4. CkptInv'
  <2> SUFFICES ASSUME kills = 0, NEW r \in Runner PROVE CkptOK(r)'
    BY <1>1 DEF CkptInv
  <2> DEFINE own == k.run[1]
  <2>1. ChildOK(k) /\ CkptOK(r) /\ CkptOK(own) /\ own \in Runner
    BY DEF ChildInv, CkptInv, Child, Run
  <2>2. k.run = ThisRun(own) /\ ConfigOf(k) = Work[own][next[own]]
    BY <2>1 DEF ChildOK, ThisRun, ConfigOf
  <2>3. CASE r = own
    <3>1. CASE k.what = "train"
      <4>1. InRun(own) /\ pc[own] = "training"
        BY <2>1, <3>1 DEF ChildOK
      <4>2. Work[own][next[own]] \in Config
        BY <2>1, <4>1, WorkAssumption DEF WorkInv, WorkOK
      <4>3. ckpt'[Work[own][next[own]]] = ThisRun(own)
        BY <1>1, <2>2, <3>1, <4>2
      <4> QED
        BY <1>1, <2>3, <4>1, <4>3 DEF CkptOK, ThisRun
    <3>2. CASE k.what = "score"
      <4>1. InRun(own) /\ pc[own] = "scoring"
        BY <2>1, <3>2 DEF ChildOK
      <4>2. ckpt[ConfigOf(k)] = ThisRun(own)
        BY <2>1, <2>2, <4>1 DEF CkptOK
      <4>3. score'[own] = ThisRun(own) /\ ckpt' = ckpt
        BY <1>1, <2>1, <3>2, <4>2
      <4> QED
        BY <1>1, <2>1, <2>3, <4>1, <4>3 DEF CkptOK, ThisRun
    <3>3. CASE k.what = "command"
      <4>1. ~InRun(own) /\ pc[own] \notin {"look", "header", "row"}
        BY <2>1, <3>3 DEF ChildOK, WorkInv, WorkOK
      <4> QED
        BY <1>1, <2>3, <4>1 DEF CkptOK
    <3> QED
      BY <3>1, <3>2, <3>3 DEF Child
  <2>4. CASE r # own
    <3>1. ~InRun(r)
      BY <2>1, <2>4 DEF ChildOK, LockInv
    <3>2. score'[r] = score[r]
      BY <1>1, <2>4
    <3> QED
      BY <1>1, <2>1, <3>1, <3>2 DEF CkptOK, ThisRun
  <2> QED
    BY <2>3, <2>4
<1> QED
  BY <1>2, <1>3, <1>4

\* A failing child takes its runner with it, a killed runner drops its lock.
LEMMA RunnerEnds ==
  ASSUME IInv, NEW a \in Runner \ Suite, ChildFails(a) \/ KillRunner(a), UNCHANGED suites
  PROVE  IInv'
<1> USE SuiteAssumption, QueueNone DEF IInv, TypeInv, InRun, Commanding, suites, files, search, world, Stop, Goto
<1>1. /\ UNCHANGED <<next, ckpt, score, at, todo, state, sections>>
      /\ pc' = [pc EXCEPT ![a] = "failed"]
      /\ lock' = IF lock = a THEN None ELSE lock
  BY DEF ChildFails, KillRunner
<1>2. TypeInv' /\ FileInv'
  BY <1>1 DEF ChildFails, KillRunner, FileInv, FileOK
<1>3. LockInv' /\ WorkInv'
  BY <1>1 DEF LockInv, WorkInv, WorkOK, Passed, Now
<1>4. CASE ChildFails(a)
  <2>1. children' = children \ Running(a) /\ kills' = kills
    BY <1>4 DEF ChildFails
  <2>2. ChildInv'
    <3> SUFFICES ASSUME kills = 0, NEW k \in children, k \notin Running(a) PROVE ChildOK(k)'
      BY <2>1 DEF ChildInv
    <3>1. ChildOK(k) /\ k.run[1] # a
      BY DEF ChildInv, ChildOK, Running, ThisRun
    <3> QED
      BY <1>1, <3>1 DEF ChildOK, ThisRun
  <2>3. CkptInv'
    <3> SUFFICES ASSUME kills = 0, NEW r \in Runner PROVE CkptOK(r)'
      BY <2>1 DEF CkptInv
    <3>1. CkptOK(r)
      BY DEF CkptInv
    <3>2. r # a => Running(r)' = Running(r)
      BY <1>1, <2>1 DEF Running, ThisRun
    <3> QED
      BY <1>1, <3>1, <3>2 DEF CkptOK, ThisRun
  <2> QED
    BY <1>2, <1>3, <2>2, <2>3
<1>5. CASE KillRunner(a)
  <2>1. kills' # 0
    BY <1>5 DEF KillRunner
  <2> QED
    BY <1>2, <1>3, <2>1 DEF ChildInv, CkptInv
<1> QED
  BY <1>4, <1>5

\* Every step keeps the invariant.
LEMMA Inductive ==
  ASSUME IInv, [SuiteNext]_everything
  PROVE  IInv'
<1>1. ASSUME NEW s \in Suite, SuiteStep(s) \/ Plan(s) \/ SuiteFails(s) \/ KillSuite(s) PROVE IInv'
  BY <1>1, SuiteSteps
<1>2. ASSUME NEW r \in Runner, RunnerStep(r) PROVE IInv'
  BY <1>2, QueueSteps DEF RunnerStep
<1>3. ASSUME NEW r \in Runner \ Suite, ChildFails(r) \/ KillRunner(r), UNCHANGED suites PROVE IInv'
  BY <1>3, RunnerEnds
<1>4. CASE ProcessStep
  BY <1>4, Loading, Exiting DEF ProcessStep
<1>5. CASE OtherStep \/ Edit \/ Change \/ UNCHANGED everything
  <2>1. UNCHANGED <<lock, pc, next, children, ckpt, score, kills, at, todo, state, sections>>
    BY <1>5 DEF OtherStep, OtherStarts, OtherEnds, Edit, Change, everything, vars, suites, files, bounds
  <2> QED
    BY <2>1, Unmoved
<1> QED
  BY <1>1, <1>2, <1>3, <1>4, <1>5 DEF SuiteNext, SuitesFinished

-----------------------------------------------------------------------------
(* The operators of the search *)

\* A strict total order of a set, as a set of pairs; what is before an element
StrictOrder(S, R) ==
  /\ \A x \in S : <<x, x>> \notin R
  /\ \A x, y, z \in S : <<x, y>> \in R /\ <<y, z>> \in R => <<x, z>> \in R
  /\ \A x, y \in S : x # y => <<x, y>> \in R \/ <<y, x>> \in R
Preceding(S, R, r) == {x \in S : <<x, r>> \in R}

\* In a finite set, each number below the cardinality is the number of elements
\* before exactly one element.
LEMMA Ranks ==
  ASSUME NEW S, IsFiniteSet(S), NEW R, StrictOrder(S, R)
  PROVE  /\ \A r \in S : Cardinality(Preceding(S, R, r)) \in 0..Cardinality(S) - 1
         /\ \A k \in 1..Cardinality(S) : \E r \in S : Cardinality(Preceding(S, R, r)) = k - 1
         /\ \A r, t \in S : Cardinality(Preceding(S, R, r)) = Cardinality(Preceding(S, R, t)) => r = t
<1> USE DEF StrictOrder, Preceding
<1> DEFINE below(r) == Preceding(S, R, r)
           n == Cardinality(S)
           rank == [r \in S |-> Cardinality(below(r))]
<1>1. n \in Nat
  BY FS_CardinalityType
<1>2. ASSUME NEW r \in S PROVE IsFiniteSet(below(r)) /\ Cardinality(below(r)) \in 0..n - 1
  <2>1. IsFiniteSet(S \ {r}) /\ Cardinality(S \ {r}) = n - 1
    BY FS_RemoveElement
  <2>2. below(r) \in SUBSET (S \ {r})
    OBVIOUS
  <2> HIDE DEF below, n
  <2>3. IsFiniteSet(below(r)) /\ Cardinality(below(r)) <= n - 1
    BY <2>1, <2>2, FS_Subset
  <2> QED
    BY <1>1, <2>3, FS_CardinalityType
<1>3. ASSUME NEW r \in S, NEW t \in S, <<r, t>> \in R PROVE rank[r] < rank[t]
  <2>1. r \notin below(r) /\ below(r) \cup {r} \in SUBSET below(t)
    BY <1>3
  <2>2. IsFiniteSet(below(r)) /\ IsFiniteSet(below(t))
    BY <1>2
  <2>3. Cardinality(below(r) \cup {r}) = Cardinality(below(r)) + 1
    BY <2>1, <2>2, FS_AddElement
  <2>4. Cardinality(below(r) \cup {r}) <= Cardinality(below(t))
    BY <2>1, <2>2, FS_Subset
  <2>5. Cardinality(below(r)) \in Nat /\ Cardinality(below(t)) \in Nat
    BY <2>2, FS_CardinalityType
  <2> HIDE DEF below
  <2> QED
    BY <2>3, <2>4, <2>5
<1>4. rank \in [S -> 0..n - 1]
  BY <1>2
<1>5. \A r, t \in S : rank[r] = rank[t] => r = t
  <2> SUFFICES ASSUME NEW r \in S, NEW t \in S, r # t PROVE rank[r] # rank[t]
    OBVIOUS
  <2>1. rank[r] \in 0..n - 1 /\ rank[t] \in 0..n - 1
    BY <1>4
  <2>2. rank[r] < rank[t] \/ rank[t] < rank[r]
    BY <1>3
  <2> HIDE DEF rank
  <2> QED
    BY <1>1, <2>1, <2>2
<1>6. \A k \in 1..n : \E r \in S : rank[r] = k - 1
  <2> SUFFICES ASSUME NEW k \in 1..n, \A r \in S : rank[r] # k - 1 PROVE FALSE
    OBVIOUS
  <2> DEFINE I == 0..n - 1
             j == k - 1
             T == I \ {j}
  <2>1. Cardinality(S) = n
    OBVIOUS
  <2> HIDE DEF n, rank
  <2>2. j \in I /\ IsFiniteSet(I) /\ Cardinality(I) = n
    <3>1. n - 1 \in Int /\ 0 \in Int /\ (IF 0 > n - 1 THEN 0 ELSE n - 1 - 0 + 1) = n
      BY <1>1
    <3> QED
      BY <1>1, <3>1, FS_Interval
  <2>3. rank \in [S -> T]
    BY <1>4
  <2> HIDE DEF I, j
  <2>4. IsFiniteSet(T) /\ Cardinality(T) = n - 1
    BY <2>2, FS_RemoveElement
  <2> HIDE DEF T
  <2>5. \E r, t \in S : r # t /\ rank[r] = rank[t]
    BY <1>1, <2>1, <2>3, <2>4, FS_PigeonHole
  <2> QED
    BY <1>5, <2>5
<1> QED
  BY <1>2, <1>5, <1>6

\* A set of natural numbers has a least element, and is counted from it.
LEMMA Counted ==
  ASSUME NEW n \in Nat, NEW S \in SUBSET (1..n)
  PROVE  /\ IsFiniteSet(S) /\ Cardinality(S) \in 0..n
         /\ S # {} => \E i \in S : \A j \in S : i <= j
         /\ \A i \in S : Cardinality({j \in S : j < i}) \in 0..Cardinality(S) - 1
         /\ \A k \in 1..Cardinality(S) : \E i \in S : Cardinality({j \in S : j < i}) = k - 1
         /\ \A i, l \in S : Cardinality({j \in S : j < i}) = Cardinality({j \in S : j < l}) => i = l
<1> DEFINE R == {p \in S \X S : p[1] < p[2]}
           below(i) == {j \in S : j < i}
<1>1. IsFiniteSet(S) /\ Cardinality(S) \in 0..n
  <2>1. IsFiniteSet(1..n) /\ Cardinality(1..n) = n
    BY FS_Interval
  <2>2. IsFiniteSet(S) /\ Cardinality(S) <= n
    BY <2>1, FS_Subset
  <2> QED
    BY <2>2, FS_CardinalityType
<1>2. \A i \in S : Preceding(S, R, i) = below(i)
  BY DEF Preceding
<1>3. StrictOrder(S, R)
  BY DEF StrictOrder
<1> HIDE DEF R
<1>4. /\ \A i \in S : Cardinality(Preceding(S, R, i)) \in 0..Cardinality(S) - 1
      /\ \A k \in 1..Cardinality(S) : \E i \in S : Cardinality(Preceding(S, R, i)) = k - 1
      /\ \A i, l \in S : Cardinality(Preceding(S, R, i)) = Cardinality(Preceding(S, R, l)) => i = l
  BY <1>1, <1>3, Ranks
<1> HIDE DEF below
<1>5. /\ \A i \in S : Cardinality(below(i)) \in 0..Cardinality(S) - 1
      /\ \A k \in 1..Cardinality(S) : \E i \in S : Cardinality(below(i)) = k - 1
      /\ \A i, l \in S : Cardinality(below(i)) = Cardinality(below(l)) => i = l
  BY <1>2, <1>4
<1>6. ASSUME S # {} PROVE \E i \in S : \A j \in S : i <= j
  <2>1. Cardinality(S) >= 1
    BY <1>1, <1>6, FS_EmptySet
  <2>2. PICK i \in S : Cardinality(below(i)) = 0
    BY <1>1, <1>5, <2>1
  <2>3. IsFiniteSet(below(i))
    BY <1>1, FS_Subset DEF below
  <2>4. below(i) = {}
    BY <2>2, <2>3, FS_EmptySet
  <2> QED
    BY <2>4 DEF below
<1> QED
  BY <1>1, <1>5, <1>6 DEF below

\* Firsts takes up each item that fits, each once.
LEMMA FirstsAre ==
  ASSUME NEW n \in Nat, NEW q, DOMAIN q = 1..n, NEW fit
  PROVE  /\ \E m \in 0..n : DOMAIN Firsts(q, fit) = 1..m
         /\ \A k \in DOMAIN Firsts(q, fit) : Firsts(q, fit)[k] \in fit /\ \E i \in 1..n : Firsts(q, fit)[k] = q[i]
         /\ \A k, l \in DOMAIN Firsts(q, fit) : Firsts(q, fit)[k] = Firsts(q, fit)[l] => k = l
         /\ \A i \in 1..n : q[i] \in fit => \E k \in DOMAIN Firsts(q, fit) : Firsts(q, fit)[k] = q[i]
<1> DEFINE new == {i \in DOMAIN q : q[i] \in fit /\ \A j \in 1..i - 1 : q[j] # q[i]}
           m == Cardinality(new)
           below(i) == {j \in new : j < i}
           nth(k) == CHOOSE i \in new : Cardinality(below(i)) = k - 1
           f == [k \in 1..m |-> q[nth(k)]]
<1>1. Firsts(q, fit) = f
  BY DEF Firsts
<1>2. new \in SUBSET (1..n)
  OBVIOUS
<1> HIDE DEF new
<1>3. /\ m \in 0..n
      /\ \A i \in new : Cardinality(below(i)) \in 0..m - 1
      /\ \A k \in 1..m : \E i \in new : Cardinality(below(i)) = k - 1
      /\ \A i, l \in new : Cardinality(below(i)) = Cardinality(below(l)) => i = l
  BY <1>2, Counted
<1> HIDE DEF m, below
<1>4. \A k \in 1..m : nth(k) \in new /\ Cardinality(below(nth(k))) = k - 1
  BY <1>3
<1>5. \A i \in new : \E k \in 1..m : nth(k) = i
  <2> SUFFICES ASSUME NEW i \in new PROVE \E k \in 1..m : nth(k) = i
    OBVIOUS
  <2> DEFINE k == Cardinality(below(i)) + 1
  <2>1. k \in 1..m /\ k - 1 = Cardinality(below(i))
    BY <1>3
  <2>2. nth(k) \in new /\ Cardinality(below(nth(k))) = Cardinality(below(i))
    BY <1>4, <2>1
  <2> HIDE DEF nth, k
  <2> QED
    BY <1>3, <2>1, <2>2
<1> HIDE DEF nth
<1>6. \A k \in 1..m : f[k] = q[nth(k)] /\ nth(k) \in 1..n /\ q[nth(k)] \in fit
  BY <1>2, <1>4 DEF new
<1>7. \A i, j \in new : q[i] = q[j] => i = j
  <2> SUFFICES ASSUME NEW i \in new, NEW j \in new, i < j PROVE q[i] # q[j]
    BY <1>2
  <2> QED
    BY <1>2 DEF new
<1>8. \A k, l \in 1..m : f[k] = f[l] => k = l
  <2> SUFFICES ASSUME NEW k \in 1..m, NEW l \in 1..m, f[k] = f[l] PROVE k = l
    OBVIOUS
  <2>1. nth(k) = nth(l)
    BY <1>4, <1>6, <1>7
  <2>2. k - 1 = l - 1
    BY <1>4, <2>1
  <2> QED
    BY <1>3, <2>2
<1>9. ASSUME NEW i \in 1..n, q[i] \in fit PROVE \E k \in 1..m : f[k] = q[i]
  <2> DEFINE same == {j \in 1..n : q[j] = q[i]}
  <2>1. same \in SUBSET (1..n) /\ i \in same
    OBVIOUS
  <2>2. PICK j \in same : \A l \in same : j <= l
    BY <2>1, Counted
  <2>3. j \in 1..n /\ q[j] = q[i] /\ \A l \in 1..j - 1 : q[l] # q[j]
    BY <2>2
  <2>4. j \in new
    BY <1>9, <2>3 DEF new
  <2>5. PICK k \in 1..m : nth(k) = j
    BY <1>5, <2>4
  <2> QED
    BY <1>6, <2>3, <2>5
<1>10. DOMAIN f = 1..m
  OBVIOUS
<1> HIDE DEF f
<1>11. /\ \E o \in 0..n : DOMAIN f = 1..o
       /\ \A k \in DOMAIN f : f[k] \in fit /\ \E i \in 1..n : f[k] = q[i]
       /\ \A k, l \in DOMAIN f : f[k] = f[l] => k = l
       /\ \A i \in 1..n : q[i] \in fit => \E k \in DOMAIN f : f[k] = q[i]
  BY <1>3, <1>6, <1>8, <1>9, <1>10
<1> QED
  BY <1>1, <1>11

\* An evaluated candidate
Evaluated == [id : Nat, weights : Weights, metrics : [aus : Int, rus : Int, final : Int]]
Distinct(S) == \A x, y \in S : x.id = y.id => x = y

\* The two orders of a screen are strict and total.
LEMMA PrecedesOrders ==
  ASSUME NEW S \in SUBSET Evaluated, Distinct(S), NEW byAus \in BOOLEAN
  PROVE  /\ \A x \in S : ~Precedes(byAus, x, x)
         /\ \A x, y, z \in S : Precedes(byAus, x, y) /\ Precedes(byAus, y, z) => Precedes(byAus, x, z)
         /\ \A x, y \in S : x # y => Precedes(byAus, x, y) \/ Precedes(byAus, y, x)
<1>1. \A x \in S : x.id \in Nat /\ x.metrics.aus \in Int /\ x.metrics.rus \in Int /\ x.metrics.final \in Int
                   /\ x.metrics \in [aus : Int, rus : Int, final : Int]
  BY DEF Evaluated
<1>2. \A x \in S : ~Precedes(byAus, x, x)
  BY <1>1 DEF Precedes, Before
<1>3. ASSUME NEW x \in S, NEW y \in S, NEW z \in S, Precedes(byAus, x, y), Precedes(byAus, y, z)
      PROVE  Precedes(byAus, x, z)
  BY <1>1, <1>3 DEF Precedes, Before
<1>4. ASSUME NEW x \in S, NEW y \in S, x # y PROVE Precedes(byAus, x, y) \/ Precedes(byAus, y, x)
  <2>1. x.id # y.id
    BY <1>4 DEF Distinct
  <2>2. CASE x.metrics = y.metrics
    BY <1>1, <2>1, <2>2 DEF Precedes, Before
  <2>3. CASE x.metrics # y.metrics
    <3>1. \/ x.metrics.aus # y.metrics.aus
          \/ x.metrics.rus # y.metrics.rus
          \/ x.metrics.final # y.metrics.final
      BY <1>1, <2>3
    <3> QED
      BY <1>1, <3>1 DEF Precedes, Before
  <2> QED
    BY <2>2, <2>3
<1> QED
  BY <1>2, <1>3, <1>4

\* The first rows of a screen are rows of it, and the first of them is the
\* first of all.
LEMMA SortedAre ==
  ASSUME NEW S \in SUBSET Evaluated, IsFiniteSet(S), Distinct(S), NEW byAus \in BOOLEAN, NEW n \in Nat
  PROVE  /\ \E m \in 0..n : SortedFirst(S, n, byAus) \in [1..m -> S] /\ (n > 0 /\ S # {} => m > 0)
         /\ n > 0 /\ S # {} => \A x \in S : x = SortedFirst(S, n, byAus)[1] \/ Precedes(byAus, SortedFirst(S, n, byAus)[1], x)
<1> DEFINE R == {p \in S \X S : Precedes(byAus, p[1], p[2])}
           before(r) == {x \in S : Precedes(byAus, x, r)}
           size == Cardinality(S)
           m == IF n < size THEN n ELSE size
           nth(k) == CHOOSE r \in S : Cardinality(before(r)) = k - 1
           f == [k \in 1..m |-> nth(k)]
<1>1. SortedFirst(S, n, byAus) = f
  BY DEF SortedFirst
<1>2. StrictOrder(S, R)
  BY PrecedesOrders DEF StrictOrder
<1>3. \A r \in S : Preceding(S, R, r) = before(r)
  BY DEF Preceding
<1> HIDE DEF R
<1>4. \A k \in 1..size : \E r \in S : Cardinality(Preceding(S, R, r)) = k - 1
  BY <1>2, Ranks
<1> HIDE DEF before
<1>5. \A k \in 1..size : \E r \in S : Cardinality(before(r)) = k - 1
  BY <1>3, <1>4
<1>6. size \in Nat /\ (S # {} => size > 0)
  BY FS_CardinalityType, FS_EmptySet
<1> HIDE DEF size
<1>7. m \in 0..n /\ (n > 0 /\ S # {} => m > 0) /\ (m > 0 => m <= size)
  BY <1>6
<1>8. \A k \in 1..m : nth(k) \in S /\ Cardinality(before(nth(k))) = k - 1
  BY <1>5, <1>6, <1>7
<1> HIDE DEF m
<1>9. f \in [1..m -> S]
  BY <1>8
<1>10. ASSUME n > 0, S # {} PROVE \A x \in S : x = f[1] \/ Precedes(byAus, f[1], x)
  <2>1. f[1] \in S /\ Cardinality(before(f[1])) = 0
    BY <1>7, <1>8, <1>10
  <2>2. IsFiniteSet(before(f[1]))
    BY FS_Subset DEF before
  <2>3. before(f[1]) = {}
    BY <2>1, <2>2, FS_EmptySet
  <2> HIDE DEF f
  <2>4. \A x \in S : ~Precedes(byAus, x, f[1])
    BY <2>3 DEF before
  <2> QED
    BY <2>1, <2>4, PrecedesOrders
<1> QED
  BY <1>1, <1>7, <1>9, <1>10

\* The first rows of a screen, with or without an eligible one.
LEMMA ScreenIs ==
  ASSUME NEW S \in SUBSET Evaluated, IsFiniteSet(S), Distinct(S), NEW margin \in Int, NEW n \in Nat
  PROVE  \E m \in 0..n : RankScreen(S, margin, n) \in [1..m -> S]
<1> DEFINE eligible == {r \in S : r.metrics.aus >= MinAus - margin}
<1>1. eligible \in SUBSET Evaluated /\ IsFiniteSet(eligible) /\ Distinct(eligible)
  BY FS_Subset DEF Distinct
<1>2. \E m \in 0..n : SortedFirst(eligible, n, FALSE) \in [1..m -> eligible]
  BY <1>1, SortedAre
<1>3. \E m \in 0..n : SortedFirst(eligible, n, FALSE) \in [1..m -> S]
  BY <1>2
<1>4. \E m \in 0..n : SortedFirst(S, n, TRUE) \in [1..m -> S]
  BY SortedAre
<1> QED
  BY <1>3, <1>4 DEF RankScreen

\* select_best finds a row if and only if one is eligible, and one only: the
\* first of the screen of the eligible ones.
LEMMA BestIs ==
  ASSUME NEW S \in SUBSET Evaluated, IsFiniteSet(S), Distinct(S)
  PROVE  LET strict == {r \in S : r.metrics.aus >= MinAus} IN
         /\ strict = {} => SelectBest(S) = {}
         /\ \A n \in Nat \ {0} : strict # {} =>
              /\ \E m \in 1..n : RankScreen(strict, 0, n) \in [1..m -> strict]
              /\ SelectBest(S) = {RankScreen(strict, 0, n)[1]}
<1> DEFINE strict == {r \in S : r.metrics.aus >= MinAus}
<1>1. strict \in SUBSET Evaluated /\ IsFiniteSet(strict) /\ Distinct(strict)
  BY FS_Subset DEF Distinct
<1>2. strict = {} => SelectBest(S) = {}
  BY DEF SelectBest
<1>3. ASSUME NEW n \in Nat \ {0}, strict # {}
      PROVE  /\ \E m \in 1..n : RankScreen(strict, 0, n) \in [1..m -> strict]
             /\ SelectBest(S) = {RankScreen(strict, 0, n)[1]}
  <2>1. {r \in strict : r.metrics.aus >= MinAus - 0} = strict
    BY MarginAssumption
  <2>2. RankScreen(strict, 0, n) = SortedFirst(strict, n, FALSE)
    BY <1>3, <2>1 DEF RankScreen
  <2> DEFINE f == SortedFirst(strict, n, FALSE)
  <2>3. SelectBest(S) = {r \in strict : \A other \in strict : other = r \/ Before(r, other)}
    BY DEF SelectBest
  <2> HIDE DEF strict
  <2>9. n \in Nat /\ n > 0 /\ FALSE \in BOOLEAN
    OBVIOUS
  <2>4. /\ \E m \in 0..n : f \in [1..m -> strict] /\ m > 0
        /\ \A x \in strict : x = f[1] \/ Precedes(FALSE, f[1], x)
    BY <1>1, <1>3, <2>9, SortedAre
  <2> HIDE DEF f
  <2>5. f[1] \in strict
    BY <2>4
  <2>6. \A x, y \in strict : Precedes(FALSE, x, y) <=> Before(x, y)
    BY DEF Precedes
  <2>7. \A x, y \in strict : ~(Before(x, y) /\ Before(y, x))
    BY <1>1, <2>6, PrecedesOrders
  <2>8. SelectBest(S) = {f[1]}
    <3>1. f[1] \in SelectBest(S)
      BY <2>3, <2>4, <2>5, <2>6
    <3>2. ASSUME NEW r \in SelectBest(S) PROVE r = f[1]
      BY <2>3, <2>4, <2>5, <2>6, <2>7
    <3> QED
      BY <3>1, <3>2
  <2>10. \E m \in 1..n : f \in [1..m -> strict]
    <3>1. PICK m \in 0..n : f \in [1..m -> strict] /\ m > 0
      BY <2>4
    <3>2. m \in 1..n
      BY <2>9, <3>1
    <3> QED
      BY <3>1, <3>2
  <2> QED
    BY <2>2, <2>8, <2>10 DEF f
<1> QED
  BY <1>2, <1>3

\* A row with the largest AUS
LEMMA LargestIs ==
  ASSUME NEW S \in SUBSET Evaluated, IsFiniteSet(S), Distinct(S), S # {}
  PROVE  LargestAus(S) \in S
<1> DEFINE Larger(x, y) == \/ x.metrics.aus > y.metrics.aus
                           \/ x.metrics.aus = y.metrics.aus /\ x.metrics.rus > y.metrics.rus
                           \/ x.metrics.aus = y.metrics.aus /\ x.metrics.rus = y.metrics.rus /\ x.id < y.id
           R == {p \in S \X S : Larger(p[1], p[2])}
<1>1. \A x \in S : x.id \in Nat /\ x.metrics.aus \in Int /\ x.metrics.rus \in Int
  BY DEF Evaluated
<1>2. \A x, y \in S : <<x, y>> \in R <=> Larger(x, y)
  OBVIOUS
<1>3. StrictOrder(S, R)
  BY <1>1, <1>2 DEF Distinct, StrictOrder
<1> HIDE DEF R
<1>4. Cardinality(S) \in Nat /\ Cardinality(S) # 0
  BY FS_CardinalityType, FS_EmptySet
<1>5. PICK r \in S : Cardinality(Preceding(S, R, r)) = 1 - 1
  <2>1. 1 \in 1..Cardinality(S)
    BY <1>4
  <2> QED
    BY <1>3, <2>1, Ranks
<1>6. Preceding(S, R, r) = {}
  <2>1. IsFiniteSet(Preceding(S, R, r))
    BY FS_Subset DEF Preceding
  <2> QED
    BY <1>5, <2>1, FS_EmptySet
<1>7. \A x \in S : x = r \/ Larger(r, x)
  BY <1>2, <1>3, <1>6 DEF StrictOrder, Preceding
<1>8. \A x \in S : \/ r.metrics.aus > x.metrics.aus
                   \/ r.metrics.aus = x.metrics.aus /\ r.metrics.rus > x.metrics.rus
                   \/ r.metrics.aus = x.metrics.aus /\ r.metrics.rus = x.metrics.rus /\ r.id <= x.id
  BY <1>1, <1>7
<1> QED
  BY <1>8 DEF LargestAus

\* The shortlist is made of rows, and the best row is on it.
LEMMA FinalistsAre ==
  ASSUME NEW S \in SUBSET Evaluated, IsFiniteSet(S), Distinct(S), \E r \in S : r.id = 1
  PROVE  /\ \E m \in Nat \ {0} : DOMAIN Finalists(S) = 1..m
         /\ \A k \in DOMAIN Finalists(S) : Finalists(S)[k] \in S
         /\ \A r \in SelectBest(S) : \E k \in DOMAIN Finalists(S) : Finalists(S)[k] = r
<1> DEFINE strict == {r \in S : r.metrics.aus >= MinAus}
           p == RankScreen(strict, 0, TopK)
           q == RankScreen(S, Margin, TopK)
           last == <<LargestAus(S), CHOOSE r \in S : r.id = 1>>
           selected == p \o q \o last
<1>1. Finalists(S) = Firsts(selected, S)
  BY DEF Finalists
<1>2. TopK \in Nat /\ TopK \in Nat \ {0} /\ 0 \in Int /\ Margin \in Int
  BY CountAssumption, MarginAssumption
<1>3. last \in Seq(S) /\ Len(last) = 2 /\ last[1] \in S /\ last[2] \in S
  BY LargestIs
<1>4. strict \in SUBSET S /\ strict \in SUBSET Evaluated /\ IsFiniteSet(strict) /\ Distinct(strict)
  BY FS_Subset DEF Distinct
<1>5. \A r \in SelectBest(S) : strict # {} /\ SelectBest(S) = {p[1]}
  BY <1>2, BestIs
<1>6. strict # {} => \E m \in 1..TopK : p \in [1..m -> strict]
  BY <1>2, BestIs
<1> HIDE DEF strict
<1>7. \E m \in 0..TopK : p \in [1..m -> strict]
  BY <1>2, <1>4, ScreenIs
<1>8. \E m \in 0..TopK : q \in [1..m -> S]
  BY <1>2, ScreenIs
<1> HIDE DEF p, q, last
<1>9. p \in Seq(S) /\ q \in Seq(S)
  BY <1>4, <1>7, <1>8
<1>10. /\ selected \in Seq(S) /\ Len(selected) >= 2
       /\ strict # {} => selected[1] = p[1] /\ p[1] \in S
  <2>1. p \o q \in Seq(S) /\ Len(p \o q) >= 0
    BY <1>9
  <2>2. selected \in Seq(S) /\ Len(selected) >= 2
    <3> DEFINE front == p \o q
    <3> HIDE DEF front
    <3>1. front \in Seq(S) /\ Len(front) \in Nat
      BY <2>1 DEF front
    <3>2. last \in Seq(S)
      BY <1>3
    <3>3. front \o last \in Seq(S)
      BY <3>1, <3>2
    <3>4. Len(front \o last) = Len(front) + Len(last)
      BY <3>1, <3>2
    <3>5. Len(front) + Len(last) >= 2
      BY <1>3, <3>1
    <3> QED
      BY <3>3, <3>4, <3>5 DEF front
  <2>3. strict # {} => Len(p) >= 1 /\ p[1] \in S
    BY <1>4, <1>6
  <2>4. Len(p) >= 1 => (p \o q)[1] = p[1] /\ Len(p \o q) >= 1
    BY <1>9
  <2>5. Len(p \o q) >= 1 => selected[1] = (p \o q)[1]
    BY <1>3, <2>1
  <2> QED
    BY <2>2, <2>3, <2>4, <2>5
<1> HIDE DEF selected
<1> DEFINE n == Len(selected)
<1>11. n \in Nat /\ DOMAIN selected = 1..n /\ n >= 2
  BY <1>10
<1>12. /\ \E m \in 0..n : DOMAIN Firsts(selected, S) = 1..m
       /\ \A k \in DOMAIN Firsts(selected, S) : Firsts(selected, S)[k] \in S
       /\ \A i \in 1..n : selected[i] \in S => \E k \in DOMAIN Firsts(selected, S) : Firsts(selected, S)[k] = selected[i]
  BY <1>11, FirstsAre
<1>13. \A i \in 1..n : selected[i] \in S
  BY <1>10, <1>11
<1> HIDE DEF n
<1>14. \E k \in DOMAIN Firsts(selected, S) : TRUE
  BY <1>11, <1>12, <1>13
<1>15. \A r \in SelectBest(S) : \E k \in DOMAIN Firsts(selected, S) : Firsts(selected, S)[k] = r
  BY <1>5, <1>10, <1>11, <1>12
<1> QED
  BY <1>1, <1>12, <1>14, <1>15

\* A refinement adds new weights, each once, and no more than six for a center.
LEMMA RefinementIs ==
  ASSUME NEW n \in Nat, NEW centers, centers \in [1..n -> Weights], NEW step, NEW seen
  PROVE  /\ \E m \in 0..6 * n : Refinement(centers, step, seen) \in [1..m -> Weights \ seen]
         /\ \A k, l \in DOMAIN Refinement(centers, step, seen) :
              Refinement(centers, step, seen)[k] = Refinement(centers, step, seen)[l] => k = l
<1> DEFINE q == Shifts(centers, step)
           f == Firsts(q, Weights \ seen)
<1>1. Len(centers) = n
  OBVIOUS
<1>2. 6 * n \in Nat /\ DOMAIN q = 1..6 * n
  BY <1>1 DEF Shifts
<1> HIDE DEF q
<1>3. /\ \E m \in 0..6 * n : DOMAIN f = 1..m
      /\ \A k \in DOMAIN f : f[k] \in Weights \ seen
      /\ \A k, l \in DOMAIN f : f[k] = f[l] => k = l
  BY <1>2, FirstsAre
<1>4. f = [k \in DOMAIN f |-> f[k]]
  BY DEF Firsts
<1> HIDE DEF f
<1>5. \A m \in 0..6 * n : DOMAIN f = 1..m => f \in [1..m -> Weights \ seen]
  BY <1>3, <1>4
<1>6. Refinement(centers, step, seen) = f
  BY DEF Refinement, f, q
<1> QED
  BY <1>3, <1>5, <1>6

-----------------------------------------------------------------------------
(* Theorems *)

\* The invariant holds throughout.
LEMMA Invariance == SuiteSpec => []IInv
<1>1. IInv /\ [SuiteNext]_everything => IInv'
  BY Inductive
<1> QED
  BY Initially, <1>1, PTL DEF SuiteSpec

\* While nothing is killed, all processes on the GPU belong to one run: that of
\* the holder of the lock.
THEOREM QueueIsSerial == SuiteSpec => []OneExperimentAtATime
<1>1. IInv => OneExperimentAtATime
  <2> SUFFICES ASSUME IInv, kills = 0 PROVE Cardinality({k.run : k \in children}) <= 1
    BY DEF OneExperimentAtATime
  <2>1. \A k \in children : k.run = <<lock, next[lock]>>
    BY DEF IInv, TypeInv, ChildInv, ChildOK, LockInv, Child, Run, ThisRun, Commanding
  <2> DEFINE holder == <<lock, next[lock]>>
  <2>2. {k.run : k \in children} \subseteq {holder}
    BY <2>1
  <2>3. IsFiniteSet({holder}) /\ Cardinality({holder}) = 1
    BY FS_Singleton
  <2>4. Cardinality({k.run : k \in children}) <= Cardinality({holder})
    BY <2>2, <2>3, FS_Subset
  <2> QED
    BY <2>3, <2>4
<1> QED
  BY Invariance, <1>1, PTL

\* While nothing is killed, the row of a run has the score of the checkpoint
\* that this very run has trained.
THEOREM RowsAreTheirOwn == SuiteSpec => []ScoresItsOwn
<1>1. IInv => ScoresItsOwn
  BY DEF IInv, CkptInv, CkptOK, ScoresItsOwn
<1> QED
  BY Invariance, <1>1, PTL

\* Whatever is killed, fails or is launched besides it, the state file of a
\* suite is its own and true.
THEOREM StateFilesTellTheTruth == SuiteSpec => []StateFileTellsTruth
<1>1. IInv => StateFileTellsTruth
  BY DEF IInv, FileInv, FileOK, StateFileTellsTruth
<1> QED
  BY Invariance, <1>1, PTL
-----------------------------------------------------------------------------
(* What a suite has used, and who searches *)

\* A suite that has its state file and has not failed; a process of S05.
Active(s) == at[s] \notin {"off", "start", "checked", "refused", "failed", "killed"}
Searching(s) == Program[s] = "S05" /\ Active(s)
OfSearch(k) == k.run[1] \in Suite /\ Program[k.run[1]] = "S05"

SearchTypeInv ==
  /\ source \in Nat /\ hashed \in [Suite -> Nat] /\ used \in [Suite -> SUBSET Nat]
  /\ changed \subseteq Nat /\ misread \subseteq changed
  /\ round \in Nat
  /\ \A s \in Suite : Program[s] = "S05" /\ at[s] # "off" => land \in Landscapes

\* The jobs of a suite, which are those of one phase in S05.
JobsOf(s) ==
  IF Program[s] # "S05" THEN [what : {"exp", "smoke", "fast", "full"}, of : Nat]
  ELSE IF round <= Len(Refinements) THEN [what : {"fast"}, of : Weights] ELSE [what : {"full"}, of : Nat]

\* S04 ends with the full scorer, S05 has a candidate when it plans.
TodoOK(s) ==
  Active(s) =>
    /\ todo[s] \in Seq(JobsOf(s))
    /\ at[s] \in {"exp", "waiting", "locked", "running", "ended"} => todo[s] # <<>> /\ (at[s] = "exp" <=> Now(s).what = "exp")
    /\ at[s] \in {"completed", "appended", "done"} => todo[s] = <<>>
    /\ at[s] = "completed" => Program[s] = "S03"
    /\ Program[s] = "S04" /\ todo[s] # <<>> => todo[s][Len(todo[s])].what = "full"
    /\ Program[s] = "S05" /\ rows = {} => round = 0 /\ todo[s] # <<>>

RowsOK ==
  /\ rows \subseteq Evaluated /\ IsFiniteSet(rows) /\ Distinct(rows)
  /\ \A x \in rows : x.id <= Cardinality(rows)
  /\ rows # {} => \E x \in rows : x.id = 1

\* The full scorer reads, or has read all.
Read(s) ==
  \/ at[s] \in {"running", "ended"} /\ Now(s).what = "full"
  \/ at[s] = "next" /\ todo[s] = <<>> /\ (Program[s] = "S05" => round > Len(Refinements))
  \/ at[s] \in {"appended", "done"}

\* What was used is not older than what was hashed and not newer than what is
\* there; from the last verification on it is what was hashed.
UsedOK(s) ==
  /\ at[s] \in {"start", "checked"} => used[s] = {}
  /\ Active(s) \/ at[s] = "checked" => hashed[s] <= source
  /\ Active(s) => \A v \in used[s] : hashed[s] <= v /\ v <= source
  /\ Program[s] # "S03" /\ Read(s) => used[s] \subseteq {hashed[s]}

\* The processes of a suite that was not killed are what it waits for,
\* whatever is killed besides it.
OwnOK(s) == at[s] # "killed" => \A k \in children : k.run[1] = s => ChildOK(k)

\* One suite at most searches, also if it is killed: no other one gets the
\* state file. What is exported was not misread, and no process reads on.
OneSearch ==
  /\ state["S05"] = None => rows = {} /\ round = 0 /\ winner = None
  /\ \A k \in children : OfSearch(k) => state["S05"] # None /\ state["S05"].by = k.run[1]
  /\ winner # None =>
       /\ winner \notin misread
       /\ \A k \in children : ~OfSearch(k)
       /\ \A s \in Suite : Program[s] = "S05" => at[s] \in Ends \cup {"start", "checked", "appended"}

SourceInv ==
  SearchTypeInv /\ RowsOK /\ OneSearch /\ \A s \in Suite : TodoOK(s) /\ UsedOK(s) /\ OwnOK(s)

\* Before the first launch nothing is recorded of a source.
LEMMA SourceInitially == SuiteInit => SourceInv
<1> SUFFICES ASSUME SuiteInit PROVE SourceInv
  OBVIOUS
<1> USE SuiteAssumption DEF SuiteInit, Init
<1>1. SearchTypeInv
  BY DEF SearchTypeInv
<1>2. RowsOK
  BY FS_EmptySet DEF RowsOK, Distinct
<1>3. OneSearch
  BY DEF OneSearch, Names
<1>4. ASSUME NEW s \in Suite PROVE TodoOK(s) /\ UsedOK(s) /\ OwnOK(s)
  BY DEF TodoOK, UsedOK, OwnOK, Active, Read
<1> QED
  BY <1>1, <1>2, <1>3, <1>4 DEF SourceInv

\* A function on 1..m is a sequence of length m.
LEMMA ListIs ==
  ASSUME NEW T, NEW m \in Nat, NEW f \in [1..m -> T]
  PROVE  f \in Seq(T) /\ Len(f) = m
OBVIOUS

\* What a sequence has after its head
LEMMA HeadTail ==
  ASSUME NEW T, NEW q \in Seq(T), q # <<>>
  PROVE  /\ Head(q) \in T /\ Head(q) = q[1] /\ Tail(q) \in Seq(T)
         /\ Len(q) \in Nat \ {0} /\ Len(Tail(q)) = Len(q) - 1
         /\ \A i \in 1..Len(q) - 1 : Tail(q)[i] = q[i + 1]
         /\ Tail(q) = <<>> <=> Len(q) = 1
<1>1. Len(q) \in Nat \ {0} /\ DOMAIN q = 1..Len(q)
  BY EmptySeq, LenProperties
<1>2. Head(q) \in T /\ Head(q) = q[1] /\ Tail(q) \in Seq(T) /\ Len(Tail(q)) = Len(q) - 1
      /\ \A i \in 1..Len(q) - 1 : Tail(q)[i] = q[i + 1]
  BY HeadTailProperties
<1>3. Tail(q) = <<>> <=> Len(Tail(q)) = 0
  BY <1>2, EmptySeq
<1> QED
  BY <1>1, <1>2, <1>3

\* The stages a suite starts with
LEMMA StagesOf ==
  ASSUME NEW s \in Suite, Program[s] = "S05" => round = 0
  PROVE  /\ Stages(s) \in Seq(JobsOf(s))
         /\ Program[s] = "S04" => Stages(s)[Len(Stages(s))].what = "full"
         /\ Program[s] = "S05" => Stages(s) # <<>>
<1> DEFINE J == [what : {"exp", "smoke", "fast", "full"}, of : Nat]
<1>1. ASSUME NEW n \in Nat, NEW what \in {"exp", "smoke", "fast", "full"}
      PROVE  Times(n, what) \in Seq(J) /\ Len(Times(n, what)) = n /\ \A i \in 1..n : Times(n, what)[i].what = what
  BY DEF Times, Job
<1>2. CASE Program[s] = "S03"
  <2> DEFINE a == Times(1, "exp")
             b == Times(3, "fast")
             c == Times(4, "full")
  <2>1. a \in Seq(J) /\ b \in Seq(J) /\ c \in Seq(J)
    BY <1>1
  <2> HIDE DEF a, b, c, J
  <2>2. a \o b \in Seq(J)
    BY <2>1, ConcatProperties
  <2>3. (a \o b) \o c \in Seq(J)
    BY <2>1, <2>2, ConcatProperties
  <2>4. Stages(s) = (a \o b) \o c
    BY <1>2 DEF Stages, a, b, c
  <2> QED
    BY <1>2, <2>3, <2>4 DEF JobsOf, J
<1>3. CASE Program[s] = "S04"
  <2> DEFINE a == Times(1, "smoke")
             b == Times(2, "exp")
             c == Times(2, "full")
  <2> HIDE DEF J
  <2>1. a \in Seq(J) /\ b \in Seq(J) /\ c \in Seq(J) /\ Len(c) = 2 /\ c[2].what = "full"
    <3>1. a \in Seq(J) /\ b \in Seq(J)
      BY <1>1
    <3>2. c \in Seq(J) /\ Len(c) = 2 /\ \A i \in 1..2 : c[i].what = "full"
      BY <1>1
    <3> QED
      BY <3>1, <3>2
  <2> HIDE DEF a, b, c
  <2>2. a \o b \in Seq(J) /\ Len(a \o b) \in Nat
    BY <2>1, ConcatProperties, LenProperties
  <2> DEFINE d == a \o b
  <2> HIDE DEF d
  <2>3. d \in Seq(J) /\ Len(d) \in Nat
    BY <2>2 DEF d
  <2>4. /\ d \o c \in Seq(J) /\ Len(d \o c) = Len(d) + 2
        /\ (d \o c)[Len(d) + 2] = c[2]
    <3>1. /\ d \o c \in Seq(J) /\ Len(d \o c) = Len(d) + Len(c)
          /\ \A i \in 1..Len(d) + Len(c) : (d \o c)[i] = IF i <= Len(d) THEN d[i] ELSE c[i - Len(d)]
      BY <2>1, <2>3, ConcatProperties
    <3>2. Len(d) + 2 \in 1..Len(d) + Len(c) /\ ~(Len(d) + 2 <= Len(d)) /\ Len(d) + 2 - Len(d) = 2
      BY <2>1, <2>3
    <3>3. (d \o c)[Len(d) + 2] = c[Len(d) + 2 - Len(d)]
      BY <3>1, <3>2
    <3> QED
      BY <2>1, <3>1, <3>2, <3>3
  <2>5. Stages(s) = d \o c
    BY <1>3 DEF Stages, a, b, c, d
  <2>6. (d \o c)[Len(d \o c)].what = "full"
    BY <2>1, <2>3, <2>4
  <2> QED
    BY <1>3, <2>4, <2>5, <2>6 DEF JobsOf, J
<1>4. CASE Program[s] = "S05"
  <2>1. Stages(s) = [i \in DOMAIN Initial |-> Job("fast", Initial[i])]
    BY <1>4 DEF Stages
  <2>2. Len(Refinements) \in Nat
    BY RefinementAssumption
  <2>3. ~(Program[s] # "S05") /\ round <= Len(Refinements)
    BY <1>4, <2>2
  <2>4. JobsOf(s) = [what : {"fast"}, of : Weights]
    BY <2>3, Zenon DEF JobsOf
  <2>5. Initial \in Seq(Weights) /\ Len(Initial) > 0
    BY InitialAssumption
  <2>6. \A w \in Weights : Job("fast", w) \in JobsOf(s)
    BY <2>4 DEF Job
  <2>7. DOMAIN Initial = 1..Len(Initial) /\ Len(Initial) \in Nat /\ \A i \in 1..Len(Initial) : Initial[i] \in Weights
    BY <2>5
  <2>8. Stages(s) \in [1..Len(Initial) -> JobsOf(s)]
    BY <2>1, <2>6, <2>7
  <2> HIDE DEF J
  <2>9. Stages(s) \in Seq(JobsOf(s)) /\ Len(Stages(s)) = Len(Initial)
    BY <2>7, <2>8
  <2> QED
    BY <1>4, <2>5, <2>9
<1> QED
  BY <1>2, <1>3, <1>4, SuiteAssumption DEF Names

\* No two suites search.
LEMMA OnlyOne ==
  ASSUME IInv, NEW s \in Suite, NEW t \in Suite, Searching(s), Searching(t)
  PROVE  s = t
BY DEF IInv, FileInv, FileOK, Searching, Active

\* What a step of a suite leaves to the others
LEMMA Others ==
  ASSUME IInv, SourceInv, NEW s \in Suite,
         \A t \in Suite \ {s} : at'[t] = at[t] /\ todo'[t] = todo[t] /\ used'[t] = used[t] /\ hashed'[t] = hashed[t],
         source' = source, UNCHANGED <<rows, round>> \/ Searching(s),
         NEW t \in Suite \ {s}
  PROVE  TodoOK(t)' /\ UsedOK(t)'
<1>1. TodoOK(t) /\ UsedOK(t)
  BY DEF SourceInv
<1>2. CASE UNCHANGED <<rows, round>>
  BY <1>1, <1>2 DEF TodoOK, UsedOK, Active, Read, JobsOf, Now
<1>3. CASE ~Searching(t)
  <2>1. Program[t] = "S05" => ~Active(t) /\ at[t] # "next" /\ at[t] \notin {"running", "ended", "appended", "done"}
    BY <1>3 DEF Searching, Active
  <2> QED
    BY <1>1, <2>1 DEF TodoOK, UsedOK, Active, Read, JobsOf, Now
<1> QED
  BY <1>2, <1>3, OnlyOne

\* What the other suites own is left to them by a step of s.
LEMMA OthersOwn ==
  ASSUME SourceInv, NEW s \in Runner,
         \A t \in Suite \ {s} : at'[t] = at[t],
         \A r \in Runner \ {s} : pc'[r] = pc[r] /\ next'[r] = next[r],
         \A k \in children' : k.run[1] # s => k \in children,
         NEW t \in Suite \ {s}
  PROVE  OwnOK(t)'
BY SuiteAssumption DEF SourceInv, OwnOK, ChildOK, InRun, Commanding, ThisRun

\* A step of one suite
Frame(s) ==
  /\ \A t \in Suite \ {s} : at'[t] = at[t] /\ todo'[t] = todo[t] /\ used'[t] = used[t] /\ hashed'[t] = hashed[t]
  /\ source' = source
  /\ UNCHANGED <<rows, round>> \/ Searching(s)
  /\ \A r \in Runner \ {s} : pc'[r] = pc[r] /\ next'[r] = next[r]
  /\ \A k \in children' : k.run[1] # s => k \in children

\* A step within the frame of s has only its own suite to answer for.
LEMMA Framed ==
  ASSUME IInv, SourceInv, NEW s \in Suite, Frame(s),
         SearchTypeInv', RowsOK', OneSearch', TodoOK(s)', UsedOK(s)', OwnOK(s)'
  PROVE  SourceInv'
<1>1. ASSUME NEW t \in Suite \ {s} PROVE TodoOK(t)' /\ UsedOK(t)' /\ OwnOK(t)'
  BY Others, OthersOwn, SuiteAssumption DEF Frame
<1> QED
  BY <1>1 DEF SourceInv

\* Before a suite has its state file
LEMMA LaunchSteps ==
  ASSUME IInv, SourceInv, NEW s \in Suite, Check(s) \/ Create(s)
  PROVE  SourceInv'
<1> USE SuiteAssumption DEF IInv, TypeInv, SourceInv, Enter, Status, search, world, files, vars
<1>1. CASE Check(s)
  <2>1. Frame(s)
    BY <1>1 DEF Check, Frame
  <2>2. SearchTypeInv'
    BY <1>1 DEF Check, SearchTypeInv
  <2>3. RowsOK'
    BY <1>1 DEF Check, RowsOK
  <2>4. OneSearch'
    BY <1>1 DEF Check, OneSearch, OfSearch, Ends
  <2>5. TodoOK(s)'
    BY <1>1 DEF Check, TodoOK, Active
  <2>6. UsedOK(s)'
    BY <1>1 DEF Check, UsedOK, Active, Read, SearchTypeInv
  <2>7. OwnOK(s)'
    BY <1>1 DEF Check, OwnOK, ChildOK, InRun, Commanding, ThisRun
  <2> QED
    BY <2>1, <2>2, <2>3, <2>4, <2>5, <2>6, <2>7, Framed
<1>2. CASE Create(s)
  <2>1. Frame(s)
    BY <1>2 DEF Create, Frame
  <2>2. SearchTypeInv'
    BY <1>2 DEF Create, SearchTypeInv
  <2>3. RowsOK'
    BY <1>2 DEF Create, RowsOK
  <2>4. OneSearch'
    <3>1. [by |-> s, status |-> "queued"] # None
      BY SuiteNone DEF FileStatus
    <3>2. CASE state[Program[s]] = None
      BY <1>2, <3>1, <3>2 DEF Create, OneSearch, OfSearch, Ends, Names
    <3>3. CASE state[Program[s]] # None
      BY <1>2, <3>3 DEF Create, OneSearch, OfSearch, Ends
    <3> QED
      BY <3>2, <3>3
  <2>5. TodoOK(s)'
    <3>1. CASE state[Program[s]] = None
      <4>1. at'[s] = "next" /\ todo'[s] = Stages(s) /\ UNCHANGED <<rows, round>>
        BY <1>2, <3>1 DEF Create
      <4>2. Program[s] = "S05" => round = 0
        BY <3>1 DEF OneSearch
      <4> QED
        BY <4>1, <4>2, StagesOf DEF TodoOK, JobsOf, Now
    <3>2. CASE state[Program[s]] # None
      BY <1>2, <3>2 DEF Create, TodoOK, Active
    <3> QED
      BY <3>1, <3>2
  <2>6. UsedOK(s)'
    <3>1. UNCHANGED <<used, hashed, source>> /\ used[s] = {} /\ hashed[s] <= source
      BY <1>2 DEF Create, UsedOK
    <3>2. at'[s] \in {"next", "refused"}
      BY <1>2 DEF Create
    <3> QED
      BY <3>1, <3>2 DEF UsedOK, Active, Read
  <2>7. OwnOK(s)'
    BY <1>2 DEF Create, OwnOK, ChildOK, InRun, Commanding, ThisRun
  <2> QED
    BY <2>1, <2>2, <2>3, <2>4, <2>5, <2>6, <2>7, Framed
<1> QED
  BY <1>1, <1>2

\* The job a suite is at, and those after it
LEMMA JobsAre ==
  ASSUME SourceInv, NEW s \in Suite, Active(s), todo[s] # <<>>
  PROVE  /\ Now(s) \in JobsOf(s) /\ Tail(todo[s]) \in Seq(JobsOf(s))
         /\ Program[s] = "S04" /\ Tail(todo[s]) # <<>> => Tail(todo[s])[Len(Tail(todo[s]))].what = "full"
         /\ Program[s] = "S04" /\ Tail(todo[s]) = <<>> => Now(s).what = "full"
         /\ Program[s] = "S05" => IF round <= Len(Refinements) THEN Now(s).what = "fast" /\ Now(s).of \in Weights
                                  ELSE Now(s).what = "full" /\ Now(s).of \in Nat
<1>1. todo[s] \in Seq(JobsOf(s)) /\ (Program[s] = "S04" => todo[s][Len(todo[s])].what = "full")
  BY DEF SourceInv, TodoOK
<1> DEFINE T == JobsOf(s)
           q == todo[s]
<1>2. q \in Seq(T) /\ q # <<>>
  BY <1>1
<1>3. Program[s] = "S04" => q[Len(q)].what = "full"
  BY <1>1
<1> HIDE DEF q, T
<1>4. /\ Head(q) \in T /\ Head(q) = q[1] /\ Tail(q) \in Seq(T)
      /\ Len(q) \in Nat \ {0} /\ Len(Tail(q)) = Len(q) - 1
      /\ \A i \in 1..Len(q) - 1 : Tail(q)[i] = q[i + 1]
      /\ Tail(q) = <<>> <=> Len(q) = 1
  BY <1>2, HeadTail
<1>5. Program[s] = "S04" /\ Tail(q) # <<>> => Tail(q)[Len(Tail(q))].what = "full"
  BY <1>3, <1>4
<1>6. Program[s] = "S04" /\ Tail(q) = <<>> => Head(q).what = "full"
  BY <1>3, <1>4
<1>7. Program[s] = "S05" => IF round <= Len(Refinements) THEN Head(q).what = "fast" /\ Head(q).of \in Weights
                            ELSE Head(q).what = "full" /\ Head(q).of \in Nat
  BY <1>4 DEF T, JobsOf
<1> QED
  BY <1>4, <1>5, <1>6, <1>7 DEF Now, q, T

\* A new row
LEMMA RowAdded ==
  ASSUME RowsOK, NEW w \in Weights, NEW l \in Landscape,
         rows' = rows \cup {[id |-> Cardinality(rows) + 1, weights |-> w, metrics |-> Metrics(l, w)]}
  PROVE  RowsOK' /\ rows' # {} /\ Cardinality(rows') = Cardinality(rows) + 1
<1> DEFINE size == Cardinality(rows)
           row == [id |-> size + 1, weights |-> w, metrics |-> Metrics(l, w)]
<1> USE DEF RowsOK
<1>1. size \in Nat
  BY FS_CardinalityType
<1>2. row \in Evaluated
  <2>1. \A ends \in [Donors -> Int] : Metric(ends, w) \in Int
    <3> SUFFICES ASSUME NEW ends \in [Donors -> Int] PROVE Metric(ends, w) \in Int
      OBVIOUS
    <3>1. \A i \in {1, 2, 3} : ends[i] \in Int /\ w[i] \in Int
      BY DEF Donors, Weights
    <3>2. \A i \in {1, 2, 3} : ends[i] * w[i] \in Int
      BY <3>1
    <3> QED
      BY <3>2 DEF Metric
  <2>2. Metrics(l, w) \in [aus : Int, rus : Int, final : Int]
    BY <2>1 DEF Metrics, Landscape
  <2> QED
    BY <1>1, <2>2 DEF Evaluated
<1>3. row \notin rows /\ row.id = size + 1
  BY <1>1 DEF Evaluated
<1>4. IsFiniteSet(rows') /\ Cardinality(rows') = size + 1
  <2> HIDE DEF row
  <2>1. rows' = rows \cup {row}
    BY DEF row
  <2> QED
    BY <1>3, <2>1, FS_AddElement
<1>5. Distinct(rows')
  BY <1>1, <1>3 DEF Distinct, Evaluated
<1>6. \A x \in rows' : x.id <= size + 1
  BY <1>1, <1>3 DEF Evaluated
<1>7. \E x \in rows' : x.id = 1
  <2>1. rows = {} => size = 0
    BY FS_EmptySet
  <2> QED
    BY <1>3, <2>1
<1> QED
  BY <1>2, <1>4, <1>5, <1>6, <1>7

\* One stage of a suite
LEMMA StageSteps ==
  ASSUME IInv, SourceInv, NEW s \in Suite,
         Request(s) \/ Experimented(s) \/ Acquire(s) \/ Ready(s) \/ Ended(s) \/ Recorded(s)
  PROVE  SourceInv'
<1> USE SuiteAssumption DEF IInv, TypeInv, SourceInv, Enter, Status, Fail, search, world, files, vars, runners
<1>0. [by |-> s, status |-> "failed"] # None /\ [by |-> s, status |-> "running"] # None
  BY SuiteNone DEF FileStatus
<1>1. CASE Request(s)
  <2>1. Frame(s)
    BY <1>1 DEF Request, Frame
  <2>2. SearchTypeInv'
    BY <1>1 DEF Request, SearchTypeInv
  <2>3. RowsOK'
    BY <1>1 DEF Request, RowsOK
  <2>4. OneSearch'
    <3>1. Program[s] = "S05" => winner = None /\ state["S05"] # None /\ state["S05"].by = s
      BY <1>1 DEF Request, OneSearch, Ends, FileInv, FileOK
    <3>2. UNCHANGED <<children, rows, round, winner, misread>>
      BY <1>1 DEF Request
    <3>3. /\ \E what \in {"running", "failed"} : state' = [state EXCEPT ![Program[s]] = [by |-> s, status |-> what]]
          /\ \A t \in Suite \ {s} : at'[t] = at[t]
      BY <1>1 DEF Request
    <3>4. Program[s] # "S05" => state'["S05"] = state["S05"]
      BY <3>3
    <3>5. Program[s] = "S05" => state'["S05"] # None /\ state'["S05"].by = s
      BY <1>0, <3>3 DEF Names
    <3> QED
      BY <3>1, <3>2, <3>3, <3>4, <3>5 DEF OneSearch, OfSearch
  <2>5. TodoOK(s)'
    BY <1>1 DEF Request, TodoOK, Active, JobsOf, Now
  <2>6. UsedOK(s)'
    BY <1>1 DEF Request, UsedOK, Active, Read, Now
  <2>7. OwnOK(s)'
    BY <1>1 DEF Request, OwnOK, ChildOK, InRun, Commanding, ThisRun
  <2> QED
    BY <2>1, <2>2, <2>3, <2>4, <2>5, <2>6, <2>7, Framed
<1>2. CASE Experimented(s)
  <2>0. Active(s) /\ todo[s] # <<>> /\ Now(s).what = "exp"
    BY <1>2 DEF Experimented, TodoOK, Active
  <2>1. Frame(s)
    BY <1>2 DEF Experimented, Frame
  <2>2. SearchTypeInv'
    BY <1>2 DEF Experimented, SearchTypeInv
  <2>3. RowsOK'
    BY <1>2 DEF Experimented, RowsOK
  <2>4. OneSearch'
    BY <1>2 DEF Experimented, OneSearch, OfSearch, Ends
  <2>5. TodoOK(s)'
    BY <1>2, <2>0, JobsAre DEF Experimented, TodoOK, Active, JobsOf, Now
  <2>6. UsedOK(s)'
    BY <1>2, <2>0, JobsAre DEF Experimented, UsedOK, Active, Read, Now, Names
  <2>7. OwnOK(s)'
    <3>1. ~InRun(s)
      BY <1>2 DEF Experimented, WorkInv, WorkOK, InRun, Passed
    <3> QED
      BY <1>2, <3>1 DEF Experimented, OwnOK, ChildOK, InRun, Commanding, ThisRun
  <2> QED
    BY <2>1, <2>2, <2>3, <2>4, <2>5, <2>6, <2>7, Framed
<1>3. CASE Acquire(s)
  <2>1. Frame(s)
    BY <1>3 DEF Acquire, Frame
  <2>2. SearchTypeInv'
    BY <1>3 DEF Acquire, SearchTypeInv
  <2>3. RowsOK'
    BY <1>3 DEF Acquire, RowsOK
  <2>4. OneSearch'
    BY <1>3 DEF Acquire, OneSearch, OfSearch, Ends
  <2>5. TodoOK(s)'
    BY <1>3 DEF Acquire, TodoOK, Active, JobsOf, Now
  <2>6. UsedOK(s)'
    BY <1>3 DEF Acquire, UsedOK, Active, Read, Now
  <2>7. OwnOK(s)'
    BY <1>3 DEF Acquire, OwnOK, ChildOK, InRun, Commanding, ThisRun
  <2> QED
    BY <2>1, <2>2, <2>3, <2>4, <2>5, <2>6, <2>7, Framed
<1>4. CASE Ready(s)
  <2> DEFINE child == ChildOf(s, "command", FALSE)
  <2>0. child.run = ThisRun(s) /\ child.run[1] = s /\ child.what = "command"
    BY DEF ChildOf, ThisRun
  <2> HIDE DEF child
  <2>1. Frame(s)
    BY <1>4, <2>0 DEF Ready, Frame, child
  <2>2. SearchTypeInv'
    BY <1>4 DEF Ready, SearchTypeInv
  <2>3. RowsOK'
    BY <1>4 DEF Ready, RowsOK
  <2>4. OneSearch'
    <3>1. Program[s] = "S05" => winner = None /\ state["S05"] # None /\ state["S05"].by = s
      BY <1>4 DEF Ready, OneSearch, Ends, FileInv, FileOK
    <3>2. children' \subseteq children \cup {child} /\ UNCHANGED <<rows, round, winner, misread>>
      BY <1>4 DEF Ready, child
    <3>3. /\ state' = state \/ state' = [state EXCEPT ![Program[s]] = [by |-> s, status |-> "failed"]]
          /\ \A t \in Suite \ {s} : at'[t] = at[t]
      BY <1>4 DEF Ready
    <3> QED
      BY <1>0, <2>0, <3>1, <3>2, <3>3 DEF OneSearch, OfSearch, Names
  <2>5. TodoOK(s)'
    BY <1>4 DEF Ready, TodoOK, Active, JobsOf, Now
  <2>6. UsedOK(s)'
    <3>1. at'[s] = "running" /\ Program[s] # "S03" => source = hashed[s]
      BY <1>4 DEF Ready, Verified
    <3>2. /\ at[s] = "locked" /\ at'[s] \in {"running", "failed"}
          /\ UNCHANGED <<used, hashed, source, todo>>
      BY <1>4 DEF Ready
    <3>3. hashed[s] <= source /\ \A v \in used[s] : v \in Nat /\ hashed[s] <= v /\ v <= source
      BY <3>2 DEF UsedOK, Active, SearchTypeInv
    <3>4. hashed[s] \in Nat /\ source \in Nat
      BY DEF SearchTypeInv
    <3>5. Program[s] # "S03" /\ at'[s] = "running" => used[s] \subseteq {hashed[s]}
      BY <3>1, <3>3, <3>4
    <3> QED
      BY <3>2, <3>3, <3>5 DEF UsedOK, Active, Read, Now
  <2>7. OwnOK(s)'
    <3>1. \A k \in children : k.run[1] # s
      BY <1>4 DEF Ready, OwnOK, ChildOK, InRun, Commanding
    <3>2. /\ \/ children' = children \cup {child} /\ at' = [at EXCEPT ![s] = "running"]
             \/ children' = children
          /\ UNCHANGED next
      BY <1>4 DEF Ready, child
    <3> QED
      BY <2>0, <3>1, <3>2 DEF OwnOK, ChildOK, InRun, Commanding, ThisRun
  <2> QED
    BY <2>1, <2>2, <2>3, <2>4, <2>5, <2>6, <2>7, Framed
<1>5. CASE Ended(s)
  <2>1. Frame(s)
    BY <1>5 DEF Ended, Frame
  <2>2. SearchTypeInv'
    BY <1>5 DEF Ended, SearchTypeInv
  <2>3. RowsOK'
    BY <1>5 DEF Ended, RowsOK
  <2>4. OneSearch'
    BY <1>5 DEF Ended, OneSearch, OfSearch, Ends
  <2>5. TodoOK(s)'
    BY <1>5 DEF Ended, TodoOK, Active, JobsOf, Now
  <2>6. UsedOK(s)'
    BY <1>5 DEF Ended, UsedOK, Active, Read, Now
  <2>7. OwnOK(s)'
    BY <1>5 DEF Ended, OwnOK, ChildOK, InRun, Commanding, ThisRun, Running
  <2> QED
    BY <2>1, <2>2, <2>3, <2>4, <2>5, <2>6, <2>7, Framed
<1>6. CASE Recorded(s)
  <2> DEFINE candidate == Program[s] = "S05" /\ Now(s).what = "fast"
             row == [id |-> Cardinality(rows) + 1, weights |-> Now(s).of, metrics |-> Metrics(land.fast, Now(s).of)]
  <2>0. /\ Active(s) /\ at[s] = "ended" /\ todo[s] # <<>>
        /\ \/ at' = [at EXCEPT ![s] = "failed"] /\ UNCHANGED <<todo, rows>>
              /\ state' = [state EXCEPT ![Program[s]] = [by |-> s, status |-> "failed"]]
           \/ /\ at' = [at EXCEPT ![s] = "next"] /\ todo' = [todo EXCEPT ![s] = Tail(@)] /\ state' = state
              /\ rows' = IF candidate THEN rows \cup {row} ELSE rows
        /\ UNCHANGED <<pc, next, children, hashed, used, source, changed, misread, round, winner, land>>
    BY <1>6 DEF Recorded, TodoOK, Active
  <2>1. Frame(s)
    BY <2>0 DEF Frame, Searching
  <2>2. SearchTypeInv'
    BY <2>0 DEF SearchTypeInv
  <2> HIDE DEF row
  <2>3. RowsOK' /\ (candidate /\ at'[s] = "next" => rows' # {})
    <3>1. CASE rows' = rows
      BY <2>0, <3>1 DEF RowsOK, row
    <3>2. CASE rows' # rows
      <4>1. candidate /\ rows' = rows \cup {row}
        BY <2>0, <3>2
      <4>2. Now(s).of \in Weights
        BY <2>0, <4>1, JobsAre
      <4>3. land.fast \in Landscape
        BY <2>0, <4>1, LandscapeAssumption DEF SearchTypeInv
      <4> QED
        BY <4>1, <4>2, <4>3, RowAdded DEF row
    <3> QED
      BY <3>1, <3>2
  <2>4. OneSearch'
    <3>1. Program[s] = "S05" => winner = None /\ state["S05"] # None /\ state["S05"].by = s
      BY <2>0 DEF OneSearch, Ends, FileInv, FileOK
    <3>2. Program[s] # "S05" => state'["S05"] = state["S05"] /\ rows' = rows
      <4>1. Program[s] # "S05" => rows' = rows
        BY <2>0
      <4>2. \/ state' = state
            \/ state' = [state EXCEPT ![Program[s]] = [by |-> s, status |-> "failed"]]
        BY <2>0
      <4> QED
        BY <4>1, <4>2 DEF Names
    <3>3. Program[s] = "S05" => state'["S05"] # None /\ state'["S05"].by = s
      BY <1>0, <2>0, <3>1 DEF Names
    <3>4. UNCHANGED <<children, round, winner, misread>> /\ \A t \in Suite \ {s} : at'[t] = at[t]
      BY <2>0
    <3> QED
      BY <3>1, <3>2, <3>3, <3>4 DEF OneSearch, OfSearch
  <2>5. TodoOK(s)'
    <3>1. CASE at'[s] = "next"
      <4>1. todo'[s] = Tail(todo[s]) /\ round' = round
        BY <2>0, <3>1
      <4>2. Program[s] = "S05" => rows' # {}
        BY <2>0, <2>3, <3>1, JobsAre, RefinementAssumption DEF TodoOK
      <4> QED
        BY <2>0, <3>1, <4>1, <4>2, JobsAre DEF TodoOK, JobsOf, Now
    <3>2. CASE at'[s] = "failed"
      BY <3>2 DEF TodoOK, Active
    <3> QED
      BY <2>0, <3>1, <3>2
  <2>6. UsedOK(s)'
    <3>1. CASE at'[s] = "next"
      <4>1. ASSUME Program[s] # "S03", Tail(todo[s]) = <<>>, Program[s] = "S05" => round > Len(Refinements)
            PROVE  used[s] \subseteq {hashed[s]}
        <5>1. Len(Refinements) \in Nat /\ round \in Nat
          BY RefinementAssumption DEF SearchTypeInv
        <5>2. Now(s).what = "full"
          BY <2>0, <4>1, <5>1, JobsAre DEF Names
        <5> QED
          BY <2>0, <4>1, <5>2 DEF UsedOK, Read
      <4>2. todo'[s] = Tail(todo[s]) /\ UNCHANGED <<used, hashed, source, round>>
        BY <2>0, <3>1
      <4>3. Active(s) /\ at'[s] = "next"
        BY <2>0, <3>1
      <4> QED
        BY <4>1, <4>2, <4>3 DEF UsedOK, Active, Read
    <3>2. CASE at'[s] = "failed"
      BY <2>0, <3>2 DEF UsedOK, Active, Read
    <3> QED
      BY <2>0, <3>1, <3>2
  <2>7. OwnOK(s)'
    <3>1. \A k \in children : k.run[1] # s
      BY <2>0 DEF OwnOK, ChildOK, InRun, Commanding
    <3> QED
      BY <2>0, <3>1 DEF OwnOK
  <2> QED
    BY <2>1, <2>2, <2>3, <2>4, <2>5, <2>6, <2>7, Framed
<1> QED
  BY <1>1, <1>2, <1>3, <1>4, <1>5, <1>6

\* The points of a refinement: new weights, each once, and not too many
LEMMA PointsAre ==
  ASSUME RowsOK, NEW n \in 1..Len(Refinements), NEW points \in Points(Refinements[n])
  PROVE  /\ \E m \in 0..6 * Refinements[n][2] : points \in [1..m -> Weights \ {r.weights : r \in rows}]
         /\ Refinements[n][2] \in Nat
         /\ \A k, l \in DOMAIN points : points[k] = points[l] => k = l
<1> DEFINE spec == Refinements[n]
           centers == RankScreen(rows, Margin, spec[2])
           old == {r.weights : r \in rows}
           from == [i \in DOMAIN centers |-> centers[i].weights]
<1>1. spec[2] \in Nat /\ Margin \in Int
  BY RefinementAssumption, MarginAssumption
<1>2. points = Refinement(from, spec[1], old)
  BY DEF Points
<1> HIDE DEF spec, old
<1>3. PICK o \in 0..spec[2] : centers \in [1..o -> rows]
  BY <1>1, ScreenIs DEF RowsOK
<1> HIDE DEF centers
<1>4. from \in [1..o -> Weights] /\ o \in Nat
  BY <1>1, <1>3 DEF RowsOK, Evaluated
<1> HIDE DEF from
<1>5. /\ \E m \in 0..6 * o : points \in [1..m -> Weights \ old]
      /\ \A k, l \in DOMAIN points : points[k] = points[l] => k = l
  BY <1>2, <1>4, RefinementIs
<1>6. \A m \in 0..6 * o : m \in 0..6 * spec[2]
  BY <1>1, <1>3
<1> QED
  BY <1>1, <1>5, <1>6 DEF spec, old

\* What S05 does next, and how a suite ends
LEMMA EndSteps ==
  ASSUME IInv, SourceInv, NEW s \in Suite,
         Plan(s) \/ Export(s) \/ AppendSection(s) \/ Complete(s) \/ AppendLast(s)
  PROVE  SourceInv'
<1> USE SuiteAssumption DEF IInv, TypeInv, SourceInv, Enter, Status, Fail, search, world, files, vars, runners
<1>0. \A what \in FileStatus : [by |-> s, status |-> what] # None
  BY SuiteNone
<1>1. CASE Plan(s)
  <2>a. /\ Program[s] = "S05" /\ at[s] = "next" /\ todo[s] = <<>>
        /\ round' = round + 1 /\ round <= Len(Refinements)
    BY <1>1 DEF Plan
  <2>b. Searching(s) /\ rows # {}
    BY <2>a DEF Searching, Active, TodoOK
  <2>c. /\ UNCHANGED <<at, hashed, used, rows, misread, winner, land>>
        /\ UNCHANGED <<source, changed, state, pc, next, children>>
    BY <1>1 DEF Plan
  <2>d. \A t \in Suite \ {s} : todo'[t] = todo[t]
    BY <1>1 DEF Plan
  <2>e. round \in Nat /\ Len(Refinements) \in Nat
    BY RefinementAssumption DEF SearchTypeInv
  <2>0. /\ Searching(s) /\ at[s] = "next" /\ todo[s] = <<>> /\ rows # {}
        /\ UNCHANGED <<at, hashed, used, rows, misread, winner, land, source, changed, state, pc, next, children>>
        /\ \A t \in Suite \ {s} : todo'[t] = todo[t]
        /\ round \in Nat /\ Len(Refinements) \in Nat /\ round' = round + 1 /\ round <= Len(Refinements)
    BY <2>a, <2>b, <2>c, <2>d, <2>e
  <2>1. Frame(s)
    BY <2>0 DEF Frame
  <2>2. SearchTypeInv'
    BY <2>0 DEF SearchTypeInv
  <2>3. RowsOK'
    BY <2>0 DEF RowsOK
  <2>4. OneSearch'
    <3>1. state["S05"] # None
      BY <2>0 DEF Searching, Active, FileInv, FileOK
    <3> QED
      BY <2>0, <3>1 DEF OneSearch, OfSearch
  <2>5. todo'[s] \in Seq(JobsOf(s)') /\ (round = Len(Refinements) => todo'[s] # <<>>)
    <3>1. rows \in SUBSET Evaluated /\ IsFiniteSet(rows) /\ Distinct(rows) /\ \E r \in rows : r.id = 1
      BY <2>0 DEF RowsOK
    <3>2. CASE round < Len(Refinements)
      <4>1. PICK points \in Points(Refinements[round + 1]) :
              todo'[s] = [i \in DOMAIN points |-> Job("fast", points[i])]
        BY <1>1, <2>0, <3>2 DEF Plan
      <4>2. \E m \in Nat : points \in [1..m -> Weights]
        <5>1. round + 1 \in 1..Len(Refinements)
          BY <2>0, <3>2
        <5>2. PICK m \in 0..6 * Refinements[round + 1][2] : points \in [1..m -> Weights \ {r.weights : r \in rows}]
          BY <5>1, <4>1, PointsAre
        <5>3. Refinements[round + 1][2] \in Nat
          BY <5>1, <4>1, PointsAre
        <5>4. m \in Nat
          BY <5>3
        <5>5. points \in [1..m -> Weights]
          BY <5>2
        <5> QED
          BY <5>4, <5>5
      <4>3. JobsOf(s)' = [what : {"fast"}, of : Weights]
        <5>1. ~(Program[s] # "S05") /\ round' <= Len(Refinements)
          BY <2>a, <2>0, <3>2
        <5> QED
          BY <5>1, Zenon DEF JobsOf
      <4>4. \A w \in Weights : Job("fast", w) \in JobsOf(s)'
        BY <4>3 DEF Job
      <4>5. PICK m \in Nat : points \in [1..m -> Weights]
        BY <4>2
      <4>6. todo'[s] \in [1..m -> JobsOf(s)']
        BY <4>1, <4>4, <4>5
      <4> QED
        BY <3>2, <4>6, <2>0, ListIs
    <3>3. CASE round = Len(Refinements)
      <4> DEFINE chosen == Finalists(rows)
      <4>1. todo'[s] = [i \in DOMAIN chosen |-> Job("full", chosen[i].id)]
        BY <1>1, <2>0, <3>3 DEF Plan
      <4>2. PICK m \in Nat \ {0} : DOMAIN chosen = 1..m
        BY <3>1, FinalistsAre
      <4>3. \A k \in 1..m : chosen[k].id \in Nat
        <5>1. \A k \in DOMAIN chosen : chosen[k] \in rows
          BY <3>1, FinalistsAre
        <5> HIDE DEF chosen
        <5> QED
          BY <3>1, <4>2, <5>1 DEF Evaluated
      <4>4. JobsOf(s)' = [what : {"full"}, of : Nat]
        <5>1. ~(Program[s] # "S05") /\ ~(round' <= Len(Refinements))
          BY <2>a, <2>0, <3>3
        <5> QED
          BY <5>1, Zenon DEF JobsOf
      <4> HIDE DEF chosen
      <4>5. todo'[s] \in [1..m -> JobsOf(s)']
        BY <4>1, <4>2, <4>3, <4>4 DEF Job
      <4>6. todo'[s] \in Seq(JobsOf(s)') /\ Len(todo'[s]) = m
        BY <4>2, <4>5, ListIs
      <4> QED
        BY <4>2, <4>6
    <3> QED
      BY <2>0, <3>2, <3>3
  <2>6. TodoOK(s)'
    BY <2>0, <2>5 DEF TodoOK, Searching
  <2>7. UsedOK(s)'
    <3>1. Read(s)' => Read(s)
      BY <2>0, <2>5 DEF Read, Searching
    <3> QED
      BY <2>0, <3>1 DEF UsedOK, Active, Searching
  <2>8. OwnOK(s)'
    BY <2>0 DEF OwnOK, ChildOK, InRun, Commanding, ThisRun
  <2> QED
    BY <2>1, <2>2, <2>3, <2>4, <2>6, <2>7, <2>8, Framed
<1>2. CASE Export(s)
  <2>0. /\ Searching(s) /\ at[s] = "next" /\ todo[s] = <<>> /\ round > Len(Refinements)
        /\ \/ at' = [at EXCEPT ![s] = "failed"] /\ UNCHANGED winner
              /\ state' = [state EXCEPT ![Program[s]] = [by |-> s, status |-> "failed"]]
           \/ at' = [at EXCEPT ![s] = "appended"] /\ state' = state
        /\ UNCHANGED <<pc, next, children, todo, hashed, used, source, changed, misread, round, rows, land>>
    BY <1>2 DEF Export, Searching, Active
  <2>1. Frame(s)
    BY <2>0 DEF Frame
  <2>2. SearchTypeInv'
    BY <2>0 DEF SearchTypeInv
  <2>3. RowsOK'
    BY <2>0 DEF RowsOK
  <2>4. OneSearch'
    <3>1. winner = None /\ state["S05"] # None /\ state["S05"].by = s
      BY <2>0 DEF OneSearch, Ends, FileInv, FileOK, Searching, Active
    <3>2. state'["S05"] # None /\ state'["S05"].by = s
      BY <1>0, <2>0, <3>1 DEF Searching, Names, FileStatus
    <3>3. \A k \in children : ~OfSearch(k)
      <4> SUFFICES ASSUME NEW k \in children, OfSearch(k) PROVE FALSE
        OBVIOUS
      <4>1. k.run[1] = s
        BY <3>1 DEF OneSearch
      <4> QED
        BY <2>0, <4>1 DEF OwnOK, ChildOK, InRun, Commanding
    <3>4. at'[s] # "failed" => winner' \notin changed
      <4> SUFFICES ASSUME at'[s] # "failed", winner' # None PROVE winner' \notin changed
        BY SuiteNone DEF SearchTypeInv
      <4> DEFINE best == SelectBest(Confirmed)
      <4>1. ~(\E r \in best : r.id \in changed) /\ winner' = IF best = {} THEN None ELSE (CHOOSE r \in best : TRUE).id
        BY <1>2, <2>0 DEF Export
      <4> HIDE DEF best
      <4>2. best # {} /\ (CHOOSE r \in best : TRUE) \in best
        BY <4>1
      <4> QED
        BY <4>1, <4>2
    <3>5. \A t \in Suite : Program[t] = "S05" => at'[t] \in Ends \cup {"start", "checked", "appended"}
      <4>1. \A t \in Suite : Program[t] = "S05" /\ t # s => ~Active(t)
        BY <2>0, OnlyOne DEF Searching
      <4> QED
        BY <2>0, <4>1 DEF Active, Ends
    <3> QED
      BY <2>0, <3>1, <3>2, <3>3, <3>4, <3>5 DEF OneSearch, OfSearch, SearchTypeInv
  <2>5. TodoOK(s)'
    BY <2>0 DEF TodoOK, Searching, Active, JobsOf
  <2>6. UsedOK(s)'
    BY <2>0 DEF UsedOK, Searching, Active, Read
  <2>7. OwnOK(s)'
    BY <2>0 DEF OwnOK, ChildOK, InRun, Commanding, ThisRun
  <2> QED
    BY <2>1, <2>2, <2>3, <2>4, <2>5, <2>6, <2>7, Framed
<1>3. CASE AppendSection(s)
  <2>1. Frame(s)
    BY <1>3 DEF AppendSection, Frame
  <2>2. SearchTypeInv' /\ RowsOK'
    BY <1>3 DEF AppendSection, SearchTypeInv, RowsOK
  <2>3. OneSearch'
    BY <1>3 DEF AppendSection, OneSearch, OfSearch, Ends
  <2>4. TodoOK(s)'
    BY <1>3 DEF AppendSection, TodoOK, Active, JobsOf, Now
  <2>5. UsedOK(s)'
    BY <1>3 DEF AppendSection, UsedOK, Active, Read, Now
  <2>6. OwnOK(s)'
    BY <1>3 DEF AppendSection, OwnOK, ChildOK, InRun, Commanding, ThisRun
  <2> QED
    BY <2>1, <2>2, <2>3, <2>4, <2>5, <2>6, Framed
<1>4. CASE Complete(s)
  <2>1. Frame(s)
    BY <1>4 DEF Complete, Frame
  <2>2. SearchTypeInv' /\ RowsOK'
    BY <1>4 DEF Complete, SearchTypeInv, RowsOK
  <2>3. OneSearch'
    <3>1. UNCHANGED <<children, rows, round, winner, misread>> /\ \A t \in Suite \ {s} : at'[t] = at[t]
      BY <1>4 DEF Complete
    <3>2. state' = [state EXCEPT ![Program[s]] = [by |-> s, status |-> "completed"]]
      BY <1>4 DEF Complete
    <3>3. Program[s] = "S05" => at[s] = "appended" /\ at'[s] = "done"
      BY <1>4 DEF Complete
    <3>4. Program[s] = "S05" => state["S05"] # None /\ state["S05"].by = s
      BY <3>3 DEF FileInv, FileOK
    <3>5. IF Program[s] = "S05" THEN state'["S05"] # None /\ state'["S05"].by = s ELSE state'["S05"] = state["S05"]
      BY <1>0, <3>2 DEF Names, FileStatus
    <3> QED
      BY <3>1, <3>3, <3>4, <3>5 DEF OneSearch, OfSearch, Ends
  <2>4. TodoOK(s)'
    BY <1>4 DEF Complete, TodoOK, Active, JobsOf, Now
  <2>5. UsedOK(s)'
    BY <1>4 DEF Complete, UsedOK, Active, Read, Now
  <2>6. OwnOK(s)'
    BY <1>4 DEF Complete, OwnOK, ChildOK, InRun, Commanding, ThisRun
  <2> QED
    BY <2>1, <2>2, <2>3, <2>4, <2>5, <2>6, Framed
<1>5. CASE AppendLast(s)
  <2>1. Frame(s)
    BY <1>5 DEF AppendLast, Frame
  <2>2. SearchTypeInv' /\ RowsOK'
    BY <1>5 DEF AppendLast, SearchTypeInv, RowsOK
  <2>3. OneSearch'
    BY <1>5 DEF AppendLast, OneSearch, OfSearch, Ends
  <2>4. TodoOK(s)'
    BY <1>5 DEF AppendLast, TodoOK, Active, JobsOf, Now
  <2>5. UsedOK(s)'
    BY <1>5 DEF AppendLast, UsedOK, TodoOK, Active, Read, Now
  <2>6. OwnOK(s)'
    BY <1>5 DEF AppendLast, OwnOK, ChildOK, InRun, Commanding, ThisRun
  <2> QED
    BY <2>1, <2>2, <2>3, <2>4, <2>5, <2>6, Framed
<1> QED
  BY <1>1, <1>2, <1>3, <1>4, <1>5

\* A suite fails or is killed
LEMMA FaultSteps ==
  ASSUME IInv, SourceInv, NEW s \in Suite, SuiteFails(s) \/ KillSuite(s)
  PROVE  SourceInv'
<1> USE SuiteAssumption DEF IInv, TypeInv, SourceInv, Enter, Status, Fail, search, world, files, vars, runners
<1>0. \A what \in FileStatus : [by |-> s, status |-> what] # None
  BY SuiteNone
<1>1. CASE SuiteFails(s)
  <2>0. /\ Active(s) /\ at' = [at EXCEPT ![s] = "failed"] /\ children' = children \ Running(s)
        /\ state' = [state EXCEPT ![Program[s]] = [by |-> s, status |-> "failed"]]
        /\ UNCHANGED <<pc, next, todo, hashed, used, source, changed, rows, round, misread, winner, land>>
    BY <1>1 DEF SuiteFails, Active, Ends
  <2>1. Frame(s)
    BY <2>0 DEF Frame
  <2>2. SearchTypeInv' /\ RowsOK'
    BY <2>0 DEF SearchTypeInv, RowsOK, Active
  <2>3. OneSearch'
    <3>1. Program[s] = "S05" => state["S05"] # None /\ state["S05"].by = s
      BY <2>0 DEF Active, FileInv, FileOK
    <3>2. IF Program[s] = "S05" THEN state'["S05"] # None /\ state'["S05"].by = s ELSE state'["S05"] = state["S05"]
      BY <1>0, <2>0 DEF Names, FileStatus
    <3> QED
      BY <2>0, <3>1, <3>2 DEF OneSearch, OfSearch, Ends
  <2>4. TodoOK(s)'
    BY <2>0 DEF TodoOK, Active
  <2>5. UsedOK(s)'
    BY <2>0 DEF UsedOK, Active, Read
  <2>6. OwnOK(s)'
    <3>1. \A k \in children : k.run[1] = s => k \in Running(s)
      BY <2>0 DEF OwnOK, ChildOK, Running, Active
    <3> QED
      BY <2>0, <3>1 DEF OwnOK
  <2> QED
    BY <2>1, <2>2, <2>3, <2>4, <2>5, <2>6, Framed
<1>2. CASE KillSuite(s)
  <2>0. /\ at[s] \notin Ends /\ at' = [at EXCEPT ![s] = "killed"] /\ UNCHANGED <<children, state>>
        /\ UNCHANGED <<pc, next, todo, hashed, used, source, changed, rows, round, misread, winner, land>>
    BY <1>2 DEF KillSuite
  <2>1. Frame(s)
    BY <2>0 DEF Frame
  <2>2. SearchTypeInv' /\ RowsOK'
    BY <2>0 DEF SearchTypeInv, RowsOK, Ends
  <2>3. OneSearch'
    BY <2>0 DEF OneSearch, OfSearch, Ends
  <2>4. TodoOK(s)' /\ UsedOK(s)' /\ OwnOK(s)'
    BY <2>0 DEF TodoOK, UsedOK, OwnOK, Active, Read
  <2> QED
    BY <2>1, <2>2, <2>3, <2>4, Framed
<1> QED
  BY <1>1, <1>2

\* A process that a step of run_exp.run starts is its runner's own.
LEMMA StepOwn ==
  ASSUME IInv, NEW r \in Runner, Step(r), UNCHANGED suites
  PROVE  /\ \A a \in Runner \ {r} : pc'[a] = pc[a] /\ next'[a] = next[a]
         /\ \A k \in children' : k.run[1] # r => k \in children
BY DEF IInv, TypeInv, Step, Lock, Train, Trained, Score, Scored, Look, Header, Row, Goto, gpu, bounds, ChildOf, ThisRun

\* What the suites need of a step that leaves their variables alone
LEMMA Apart ==
  ASSUME SourceInv, UNCHANGED suites,
         \A k \in children' : OfSearch(k) => winner = None /\ state["S05"] # None /\ state["S05"].by = k.run[1],
         \A s \in Suite : OwnOK(s)'
  PROVE  SourceInv'
<1> USE DEF SourceInv, suites, files, search, world
<1>1. SearchTypeInv' /\ RowsOK'
  BY DEF SearchTypeInv, RowsOK
<1>2. OneSearch'
  BY DEF OneSearch, OfSearch
<1>3. \A s \in Suite : TodoOK(s)' /\ UsedOK(s)'
  BY DEF TodoOK, UsedOK, Active, Read, JobsOf, Now
<1> QED
  BY <1>1, <1>2, <1>3

\* The steps of run_exp.run, in a runner and in a suite
LEMMA RunSteps ==
  ASSUME IInv, SourceInv, NEW a \in Runner, Step(a), UNCHANGED suites, a \in Suite => at[a] = "exp"
  PROVE  SourceInv'
<1> USE SuiteAssumption DEF IInv, TypeInv, SourceInv, suites, files, search, world
<1>1. /\ \A b \in Runner \ {a} : pc'[b] = pc[b] /\ next'[b] = next[b]
      /\ \A k \in children' : k.run[1] # a => k \in children
  BY StepOwn
<1>2. \A t \in Suite \ {a} : OwnOK(t)'
  BY <1>1, OthersOwn
<1>3. ASSUME a \in Suite PROVE OwnOK(a)'
  <2> USE DEF InRun, Commanding, Goto, gpu, bounds
  <2>0. at[a] = "exp" /\ OwnOK(a)
    BY <1>3
  <2>1. CASE Train(a) \/ Score(a)
    <3> DEFINE child == IF Train(a) THEN ChildOf(a, "train", FALSE) ELSE ChildOf(a, "score", FALSE)
    <3>1. child.run = ThisRun(a) /\ child.what = IF Train(a) THEN "train" ELSE "score"
      BY DEF ChildOf
    <3>2. /\ children' = children \cup {child} /\ next' = next /\ at' = at
          /\ pc' = [pc EXCEPT ![a] = IF Train(a) THEN "training" ELSE "scoring"]
      BY <2>1 DEF Train, Score
    <3>3. \A k \in children : k.run[1] # a
      BY <2>0, <2>1 DEF Train, Score, OwnOK, ChildOK
    <3> HIDE DEF child
    <3>4. \A k \in children' : k.run[1] = a => k = child
      BY <3>2, <3>3
    <3> QED
      BY <2>0, <3>1, <3>2, <3>4 DEF OwnOK, ChildOK, ThisRun
  <2>2. CASE Lock(a) \/ Trained(a) \/ Scored(a) \/ Look(a) \/ Header(a) \/ Row(a)
    <3>1. \A k \in children : k.run[1] # a
      BY <2>0, <2>2 DEF Lock, Trained, Scored, Look, Header, Row, OwnOK, ChildOK, Running
    <3>2. children' = children
      BY <2>2 DEF Lock, Trained, Scored, Look, Header, Row
    <3> QED
      BY <3>1, <3>2 DEF OwnOK
  <2> QED
    BY <2>1, <2>2 DEF Step
<1>4. ASSUME NEW k \in children', OfSearch(k) PROVE winner = None /\ state["S05"] # None /\ state["S05"].by = k.run[1]
  <2>1. CASE k \in children
    BY <1>4, <2>1 DEF OneSearch
  <2>2. CASE k \notin children
    BY <1>1, <1>4, <2>2 DEF OfSearch, OneSearch, Ends, FileInv, FileOK
  <2> QED
    BY <2>1, <2>2
<1> QED
  BY <1>2, <1>3, <1>4, Apart

\* A process loads its code and data.
LEMMA LoadStep ==
  ASSUME IInv, SourceInv, NEW k \in children, Load(k)
  PROVE  SourceInv'
<1> USE SuiteAssumption DEF IInv, TypeInv, SourceInv, files
<1> DEFINE a == k.run[1]
           loaded == [k EXCEPT !.memory = TRUE]
           fast == a \in Suite /\ k.what = "command" /\ Program[a] = "S05" /\ Now(a).what = "fast"
           full == a \in Suite /\ k.what = "command" /\ Program[a] = "S05" /\ Now(a).what = "full"
           train == a \in Suite /\ k.what = "train"
<1>0. loaded.run = k.run /\ loaded.what = k.what /\ a \in Runner
  BY DEF Child, Run
<1>1. /\ children' = (children \ {k}) \cup {loaded}
      /\ used' = IF fast \/ train THEN [used EXCEPT ![a] = @ \cup {source}] ELSE used
      /\ misread' = IF full /\ Now(a).of \in changed THEN misread \cup {Now(a).of} ELSE misread
      /\ UNCHANGED <<pc, next, at, todo, hashed, state, rows, round, winner, land, source, changed>>
  BY DEF Load, Allocate, world
<1> HIDE DEF loaded
<1>2. \A c \in children' : \E o \in children : c.run = o.run /\ c.what = o.what
  BY <1>0, <1>1
<1>3. SearchTypeInv' /\ RowsOK'
  BY <1>0, <1>1 DEF SearchTypeInv, RowsOK
<1>4. OneSearch'
  <2>1. winner # None => misread' = misread
    BY <1>1 DEF OneSearch, OfSearch
  <2> QED
    BY <1>1, <1>2, <2>1 DEF OneSearch, OfSearch
<1>5. ASSUME NEW s \in Suite PROVE TodoOK(s)' /\ UsedOK(s)' /\ OwnOK(s)'
  <2>1. TodoOK(s)'
    BY <1>1 DEF TodoOK, Active, JobsOf, Now
  <2>2. OwnOK(s)'
    BY <1>1, <1>2 DEF OwnOK, ChildOK, InRun, Commanding, ThisRun
  <2>3. UsedOK(s)'
    <3>1. CASE used'[s] = used[s]
      BY <1>1, <3>1 DEF UsedOK, Active, Read, Now
    <3>2. CASE used'[s] # used[s]
      <4>1. a = s /\ (fast \/ train) /\ used'[s] = used[s] \cup {source}
        BY <1>0, <1>1, <3>2 DEF SearchTypeInv
      <4>2. CASE at[s] = "killed"
        BY <1>1, <4>2 DEF UsedOK, Active, Read
      <4>3. CASE at[s] # "killed"
        <5>0. ChildOK(k)
          BY <4>1, <4>3 DEF OwnOK
        <5>1. at[s] = "exp" \/ (at[s] = "running" /\ Now(s).what = "fast")
          <6>1. CASE k.what = "train"
            BY <4>1, <5>0, <6>1 DEF ChildOK, InRun
          <6>2. CASE fast
            BY <4>1, <5>0, <6>2 DEF ChildOK
          <6> QED
            BY <4>1, <6>1, <6>2
        <5>2. hashed[s] <= source /\ \A v \in used[s] : hashed[s] <= v /\ v <= source
          BY <5>1 DEF UsedOK, Active
        <5>3. source \in Nat /\ hashed[s] \in Nat
          BY DEF SearchTypeInv
        <5> QED
          BY <1>1, <4>1, <5>1, <5>2, <5>3 DEF UsedOK, Active, Read, Now
      <4> QED
        BY <4>2, <4>3
    <3> QED
      BY <3>1, <3>2
  <2> QED
    BY <2>1, <2>2, <2>3
<1> QED
  BY <1>3, <1>4, <1>5

\* A tracked file is edited, the checkpoint of a candidate is changed.
LEMMA TamperSteps ==
  ASSUME IInv, SourceInv, Edit \/ Change
  PROVE  SourceInv'
<1> USE DEF SourceInv, search, files, vars
<1>1. /\ UNCHANGED <<pc, next, children, at, todo, hashed, used, state, rows, round, misread, winner, land>>
      /\ source' \in {source, source + 1}
      /\ (\E id \in Candidates : changed' = changed \cup {id}) \/ changed' = changed
  BY DEF Edit, Change
<1>2. Candidates \subseteq Nat
  BY FS_CardinalityType DEF Candidates, RowsOK, Evaluated
<1>3. SearchTypeInv' /\ RowsOK' /\ OneSearch'
  <2>1. source' \in Nat /\ changed' \subseteq Nat /\ changed \subseteq changed'
    <3>1. source \in Nat /\ changed \subseteq Nat
      BY DEF SearchTypeInv
    <3>2. changed' = changed \/ \E id \in Nat : changed' = changed \cup {id}
      BY <1>1, <1>2
    <3>3. changed' \subseteq Nat /\ changed \subseteq changed'
      BY <3>1, <3>2
    <3>4. source' \in Nat
      BY <1>1, <3>1
    <3> QED
      BY <3>3, <3>4
  <2>2. SearchTypeInv'
    BY <1>1, <2>1 DEF SearchTypeInv
  <2>3. RowsOK'
    BY <1>1 DEF RowsOK
  <2>4. OneSearch'
    BY <1>1 DEF OneSearch, OfSearch
  <2> QED
    BY <2>2, <2>3, <2>4
<1>4. ASSUME NEW s \in Suite PROVE TodoOK(s)' /\ UsedOK(s)' /\ OwnOK(s)'
  <2>0. TodoOK(s)'
    BY <1>1 DEF TodoOK, Active, JobsOf, Now
  <2>1. TodoOK(s)' /\ OwnOK(s)'
    BY <1>1, <2>0 DEF OwnOK, ChildOK, InRun, Commanding, ThisRun
  <2>2. source <= source' /\ source \in Nat /\ source' \in Nat /\ hashed[s] \in Nat /\ used[s] \subseteq Nat
    BY <1>1 DEF SearchTypeInv
  <2>3. UsedOK(s)'
    BY <1>1, <2>2 DEF UsedOK, Active, Read, Now
  <2> QED
    BY <2>1, <2>3
<1> QED
  BY <1>3, <1>4

\* Every step keeps what a suite has recorded of its sources.
LEMMA SourceInductive ==
  ASSUME IInv, SourceInv, [SuiteNext]_everything
  PROVE  SourceInv'
<1>1. ASSUME NEW s \in Suite, SuiteStep(s) \/ Plan(s) \/ SuiteFails(s) \/ KillSuite(s) PROVE SourceInv'
  <2>1. CASE Experiment(s)
    BY <2>1, RunSteps, SuiteAssumption DEF Experiment
  <2> QED
    BY <1>1, <2>1, LaunchSteps, StageSteps, EndSteps, FaultSteps DEF SuiteStep
<1>2. ASSUME NEW r \in Runner, RunnerStep(r) PROVE SourceInv'
  BY <1>2, RunSteps DEF RunnerStep
<1>3. ASSUME NEW r \in Runner \ Suite, ChildFails(r) \/ KillRunner(r), UNCHANGED suites PROVE SourceInv'
  <2>1. /\ \A b \in Runner \ {r} : pc'[b] = pc[b] /\ next'[b] = next[b]
        /\ children' \subseteq children
    BY <1>3 DEF ChildFails, KillRunner, Stop, Goto, IInv, TypeInv
  <2>2. \A s \in Suite : OwnOK(s)'
    BY <1>3, <2>1, OthersOwn DEF suites
  <2>3. \A k \in children : OfSearch(k) => winner = None /\ state["S05"] # None /\ state["S05"].by = k.run[1]
    BY DEF SourceInv, OneSearch
  <2> QED
    BY <1>3, <2>1, <2>2, <2>3, Apart
<1>4. ASSUME NEW k \in children, Exit(k), UNCHANGED suites PROVE SourceInv'
  <2>1. UNCHANGED <<pc, next, at>> /\ children' \subseteq children
    BY <1>4 DEF Exit, suites
  <2>2. \A s \in Suite : OwnOK(s)'
    BY <2>1 DEF SourceInv, OwnOK, ChildOK, InRun, Commanding, ThisRun
  <2>3. \A c \in children : OfSearch(c) => winner = None /\ state["S05"] # None /\ state["S05"].by = c.run[1]
    BY DEF SourceInv, OneSearch
  <2> QED
    BY <1>4, <2>1, <2>2, <2>3, Apart
<1>5. CASE OtherStep \/ UNCHANGED everything
  <2>1. UNCHANGED <<pc, next, at, children, suites>>
    BY <1>5 DEF OtherStep, OtherStarts, OtherEnds, everything, vars, suites, bounds
  <2>2. \A s \in Suite : OwnOK(s)'
    BY <2>1 DEF SourceInv, OwnOK, ChildOK, InRun, Commanding, ThisRun
  <2>3. \A c \in children : OfSearch(c) => winner = None /\ state["S05"] # None /\ state["S05"].by = c.run[1]
    BY DEF SourceInv, OneSearch
  <2> QED
    BY <2>1, <2>2, <2>3, Apart
<1> QED
  BY <1>1, <1>2, <1>3, <1>4, <1>5, LoadStep, TamperSteps DEF SuiteNext, SuitesFinished, ProcessStep

\* So it holds throughout.
LEMMA SourceInvariance == SuiteSpec => []SourceInv
<1>1. IInv /\ SourceInv /\ [SuiteNext]_everything => SourceInv'
  BY SourceInductive
<1> QED
  BY SourceInitially, Invariance, <1>1, PTL DEF SuiteSpec

\* Whatever is edited or changed while they wait, whatever is killed or fails:
\* S04 and S05 complete only if all they used is what they hashed, and S05
\* exports nothing that was misread.
THEOREM CompletedFromItsSources == SuiteSpec => []CompletedIsOfItsSources
<1>1. SourceInv => CompletedIsOfItsSources
  BY SuiteNone DEF SourceInv, CompletedIsOfItsSources, SearchTypeInv, OneSearch, UsedOK, Read
<1> QED
  BY SourceInvariance, <1>1, PTL

-----------------------------------------------------------------------------
(* The search stays within its bounds *)

Budget == CHOOSE budget \in [0..Len(Refinements) -> 0..MaxCandidates] : Fits(budget)

\* What is planned fits in the budget of its round and is new, each once.
PlanOK(s) ==
  Searching(s) /\ round <= Len(Refinements) =>
    /\ Cardinality(rows) + Len(todo[s]) <= Budget[round]
    /\ \A i, j \in DOMAIN todo[s] : todo[s][i].of = todo[s][j].of => i = j
    /\ \A i \in DOMAIN todo[s] : \A r \in rows : r.weights # todo[s][i].of

FaultOK(s) == PlanOK(s) /\ (at[s] = "failed" => failures > 0 \/ tampers > 0)

\* Without tampering every suite sees what it hashed, or will hash.
FaultsInv ==
  /\ failures \in Nat /\ tampers \in Nat
  /\ tampers = 0 => changed = {} /\ \A s \in Suite : hashed[s] = source

FaultInv == FaultsInv /\ \A s \in Suite : FaultOK(s)

\* Budget[i] bounds the candidates there are after i refinements.
LEMMA BudgetIs ==
  ASSUME BudgetSuffices
  PROVE  /\ Budget \in [0..Len(Refinements) -> 0..MaxCandidates]
         /\ Budget[0] >= Len(Initial)
         /\ \A i \in 1..Len(Refinements) : Budget[i] >= Budget[i - 1] + 6 * Refinements[i][2]
BY DEF BudgetSuffices, Budget, Fits

\* Before the first launch nothing has failed.
LEMMA FaultInitially == SuiteInit => FaultInv
BY DEF SuiteInit, Init, FaultInv, FaultsInv, FaultOK, PlanOK, Searching, Active

\* What a step of one suite leaves to the others
LEMMA OthersFault ==
  ASSUME IInv, FaultInv, NEW s \in Suite, FaultsInv', failures <= failures', tampers <= tampers',
         \A t \in Suite \ {s} : at'[t] = at[t] /\ todo'[t] = todo[t],
         UNCHANGED <<rows, round>> \/ Searching(s),
         FaultOK(s)'
  PROVE  FaultInv'
<1>1. ASSUME NEW t \in Suite \ {s} PROVE FaultOK(t)'
  <2>1. FaultOK(t) /\ failures \in Nat /\ tampers \in Nat /\ failures' \in Nat /\ tampers' \in Nat
    BY DEF FaultInv, FaultsInv
  <2>2. at'[t] = "failed" => failures' > 0 \/ tampers' > 0
    BY <2>1 DEF FaultOK
  <2>3. PlanOK(t)'
    <3>1. CASE UNCHANGED <<rows, round>>
      BY <2>1, <3>1 DEF FaultOK, PlanOK, Searching, Active
    <3>2. CASE Searching(s)
      BY <3>2, OnlyOne DEF PlanOK, Searching, Active
    <3> QED
      BY <3>1, <3>2
  <2> QED
    BY <2>2, <2>3 DEF FaultOK
<1> QED
  BY <1>1 DEF FaultInv

\* A suite that begins a search: nothing is evaluated yet.
LEMMA InitialFits ==
  ASSUME SourceInv, BudgetSuffices, NEW s \in Suite, Program[s] = "S05", state["S05"] = None,
         todo' = [todo EXCEPT ![s] = Stages(s)], DOMAIN todo = Suite, UNCHANGED <<rows, round>>
  PROVE  PlanOK(s)'
<1>1. rows' = {} /\ round' = 0 /\ Cardinality(rows') = 0
  BY FS_EmptySet DEF SourceInv, OneSearch
<1>2. todo'[s] = [i \in DOMAIN Initial |-> Job("fast", Initial[i])]
  BY DEF Stages
<1>3. Len(Initial) \in Nat /\ DOMAIN Initial = 1..Len(Initial)
  BY InitialAssumption
<1>4. DOMAIN todo'[s] = 1..Len(Initial) /\ Len(todo'[s]) = Len(Initial) /\ \A i \in 1..Len(Initial) : todo'[s][i].of = Initial[i]
  BY <1>2, <1>3 DEF Job
<1>5. \A i, j \in DOMAIN todo'[s] : todo'[s][i].of = todo'[s][j].of => i = j
  BY <1>3, <1>4, InitialAssumption
<1>6. Cardinality(rows') + Len(todo'[s]) <= Budget[round']
  BY <1>1, <1>3, <1>4, BudgetIs
<1> QED
  BY <1>1, <1>5, <1>6 DEF PlanOK

\* A refinement: at most six new points around each center
LEMMA RefinementFits ==
  ASSUME SourceInv, BudgetSuffices, NEW s \in Suite, PlanOK(s), Searching(s), todo[s] = <<>>,
         round < Len(Refinements), NEW points \in Points(Refinements[round + 1]),
         todo'[s] = [i \in DOMAIN points |-> Job("fast", points[i])], rows' = rows, round' = round + 1
  PROVE  PlanOK(s)'
<1>1. RowsOK /\ round \in Nat /\ Len(Refinements) \in Nat /\ Cardinality(rows) \in Nat
  BY RefinementAssumption, FS_CardinalityType DEF SourceInv, SearchTypeInv, RowsOK
<1>2. round + 1 \in 1..Len(Refinements) /\ round \in 0..Len(Refinements) /\ (round + 1) - 1 = round
  BY <1>1
<1> DEFINE k == Refinements[round + 1][2]
<1>3. PICK m \in 0..6 * k : points \in [1..m -> Weights \ {r.weights : r \in rows}]
  BY <1>1, <1>2, PointsAre
<1>4. k \in Nat /\ \A i, j \in DOMAIN points : points[i] = points[j] => i = j
  BY <1>1, <1>2, PointsAre
<1>5. Budget[round + 1] >= Budget[round] + 6 * k
  BY <1>2, BudgetIs
<1>6. Budget[round] \in Nat /\ Budget[round + 1] \in Nat
  BY <1>2, BudgetIs, CountAssumption
<1> HIDE DEF k
<1>7. m \in Nat /\ m <= 6 * k /\ DOMAIN points = 1..m /\ \A i \in 1..m : points[i] \notin {r.weights : r \in rows}
  BY <1>3, <1>4
<1>8. todo'[s] = [i \in 1..m |-> Job("fast", points[i])]
  BY <1>7
<1>9. DOMAIN todo'[s] = 1..m /\ Len(todo'[s]) = m /\ \A i \in 1..m : todo'[s][i].of = points[i]
  BY <1>7, <1>8 DEF Job
<1>10. Cardinality(rows) <= Budget[round]
  <2>1. Len(todo[s]) = 0
    OBVIOUS
  <2> QED
    BY <1>1, <1>2, <2>1 DEF PlanOK
<1>11. Cardinality(rows) + m <= Budget[round + 1]
  BY <1>1, <1>4, <1>5, <1>6, <1>7, <1>10
<1> QED
  BY <1>4, <1>7, <1>9, <1>11 DEF PlanOK

\* A candidate of the plan becomes a row.
LEMMA RowFits ==
  ASSUME SourceInv, NEW s \in Suite, PlanOK(s), Searching(s), round <= Len(Refinements), todo[s] # <<>>,
         todo'[s] = Tail(todo[s]), round' = round,
         NEW row, row.weights = Now(s).of, rows' = rows \cup {row}, Cardinality(rows') = Cardinality(rows) + 1
  PROVE  PlanOK(s)'
<1> DEFINE q == todo[s]
<1>1. q \in Seq(JobsOf(s)) /\ q # <<>>
  BY DEF SourceInv, TodoOK, Searching
<1>2. /\ Cardinality(rows) + Len(q) <= Budget[round]
      /\ \A i, j \in DOMAIN q : q[i].of = q[j].of => i = j
      /\ \A i \in DOMAIN q : \A r \in rows : r.weights # q[i].of
      /\ row.weights = Head(q).of /\ todo'[s] = Tail(q)
  BY DEF PlanOK, Now
<1> HIDE DEF q
<1>3. /\ Head(q) = q[1] /\ Tail(q) \in Seq(JobsOf(s))
      /\ Len(q) \in Nat \ {0} /\ Len(Tail(q)) = Len(q) - 1
      /\ \A i \in 1..Len(q) - 1 : Tail(q)[i] = q[i + 1]
  BY <1>1, HeadTail
<1>4. DOMAIN q = 1..Len(q) /\ DOMAIN Tail(q) = 1..Len(q) - 1
  BY <1>1, <1>3
<1>5. \A i, j \in DOMAIN Tail(q) : Tail(q)[i].of = Tail(q)[j].of => i = j
  BY <1>2, <1>3, <1>4
<1>6. ASSUME NEW i \in DOMAIN Tail(q), NEW r \in rows' PROVE r.weights # Tail(q)[i].of
  <2>1. i + 1 \in DOMAIN q /\ Tail(q)[i] = q[i + 1] /\ 1 \in DOMAIN q /\ i + 1 # 1
    BY <1>3, <1>4
  <2> QED
    BY <1>2, <1>3, <2>1
<1>7. Cardinality(rows) \in Nat
  BY FS_CardinalityType DEF SourceInv, RowsOK
<1>8. Cardinality(rows') + Len(Tail(q)) = Cardinality(rows) + Len(q)
  BY <1>3, <1>7
<1> QED
  BY <1>2, <1>5, <1>6, <1>8 DEF PlanOK

\* What passes its own checks: the budget is not used up, and the point is new.
LEMMA PlannedIsAllowed ==
  ASSUME SourceInv, BudgetSuffices, NEW s \in Suite, PlanOK(s), at[s] = "next", todo[s] # <<>>
  PROVE  Allowed(s)
<1> SUFFICES ASSUME Program[s] = "S05", Now(s).what = "fast"
             PROVE  Cardinality(rows) < MaxCandidates /\ \A r \in rows : r.weights # Now(s).of
  BY DEF Allowed
<1>1. Active(s) /\ Searching(s)
  BY DEF Active, Searching
<1>2. round \in 0..Len(Refinements)
  BY <1>1, JobsAre, RefinementAssumption DEF SourceInv, SearchTypeInv
<1> DEFINE q == todo[s]
<1>3. /\ Cardinality(rows) + Len(q) <= Budget[round]
      /\ \A i \in DOMAIN q : \A r \in rows : r.weights # q[i].of
  BY <1>1, <1>2 DEF PlanOK
<1>4. q \in Seq(JobsOf(s)) /\ q # <<>>
  BY <1>1 DEF SourceInv, TodoOK
<1>5. Now(s) = Head(q)
  BY DEF Now
<1> HIDE DEF q
<1>6. Head(q) = q[1] /\ Len(q) \in Nat \ {0} /\ 1 \in DOMAIN q
  <2>1. Head(q) = q[1] /\ Len(q) \in Nat \ {0}
    BY <1>4, HeadTail
  <2>2. DOMAIN q = 1..Len(q)
    BY <1>4
  <2> QED
    BY <2>1, <2>2
<1>7. Cardinality(rows) \in Nat
  BY FS_CardinalityType DEF SourceInv, RowsOK
<1>8. Budget[round] \in 0..MaxCandidates
  BY <1>2, BudgetIs
<1>9. Cardinality(rows) < MaxCandidates
  BY <1>3, <1>6, <1>7, <1>8, CountAssumption
<1> QED
  BY <1>3, <1>5, <1>6, <1>9

\* A step of a suite that takes up no work
LEMMA QuietFault ==
  ASSUME IInv, FaultInv, NEW s \in Suite, failures' = failures, UNCHANGED <<world, hashed, rows, round>>,
         \A t \in Suite \ {s} : at'[t] = at[t] /\ todo'[t] = todo[t],
         todo'[s] = todo[s], Searching(s)' => Searching(s), at'[s] # "failed"
  PROVE  FaultInv'
<1>1. FaultsInv'
  BY DEF FaultInv, FaultsInv, world
<1>2. FaultOK(s)'
  BY DEF FaultInv, FaultOK, PlanOK
<1>3. failures <= failures' /\ tampers <= tampers'
  BY DEF FaultInv, FaultsInv, world
<1> QED
  BY <1>1, <1>2, <1>3, OthersFault

\* A suite fails, because something failed or was tampered with.
LEMMA FailedFault ==
  ASSUME IInv, FaultInv, NEW s \in Suite, Fail(s), UNCHANGED <<world, todo, hashed, rows, round>>,
         (failures' = failures /\ (changed # {} \/ source # hashed[s])) \/ failures' = failures + 1
  PROVE  FaultInv'
<1>0. failures \in Nat /\ tampers \in Nat /\ (tampers = 0 => changed = {} /\ \A t \in Suite : hashed[t] = source)
  BY DEF FaultInv, FaultsInv
<1>1. /\ failures' \in Nat /\ failures <= failures' /\ tampers' = tampers /\ tampers <= tampers'
      /\ failures' > 0 \/ tampers' > 0
  BY <1>0 DEF world
<1>2. at' = [at EXCEPT ![s] = "failed"]
  BY DEF Fail, Enter
<1>3. FaultsInv'
  BY <1>0, <1>1 DEF FaultsInv, world
<1>4. FaultOK(s)'
  BY <1>1, <1>2 DEF FaultOK, PlanOK, Searching, Active, IInv, TypeInv
<1> QED
  BY <1>1, <1>2, <1>3, <1>4, OthersFault

\* A suite that is refused at its launch has been changed, killed or tampered with.
LEMMA LaunchFault ==
  ASSUME IInv, SourceInv, FaultInv, BudgetSuffices, NEW s \in Suite, Check(s) \/ Create(s)
  PROVE  FaultInv'
<1> USE DEF Enter, Status, vars, files, search, world
<1>1. CASE Check(s)
  <2>1. /\ at'[s] \in {"checked", "refused"} /\ hashed' = [hashed EXCEPT ![s] = source]
        /\ UNCHANGED <<failures, tampers, changed, source, todo, rows, round>>
        /\ \A t \in Suite \ {s} : at'[t] = at[t] /\ todo'[t] = todo[t]
    BY <1>1 DEF Check, IInv, TypeInv
  <2>2. FaultsInv'
    BY <2>1 DEF FaultInv, FaultsInv
  <2>3. FaultOK(s)'
    BY <2>1 DEF FaultOK, PlanOK, Searching, Active
  <2>4. failures <= failures' /\ tampers <= tampers'
    BY <2>1 DEF FaultInv, FaultsInv
  <2> QED
    BY <2>1, <2>2, <2>3, <2>4, OthersFault
<1>2. CASE Create(s)
  <2>1. /\ UNCHANGED <<failures, tampers, changed, source, hashed, rows, round>>
        /\ \A t \in Suite \ {s} : at'[t] = at[t] /\ todo'[t] = todo[t]
        /\ at'[s] \in {"next", "refused"}
        /\ at'[s] = "next" => state[Program[s]] = None /\ todo' = [todo EXCEPT ![s] = Stages(s)]
    BY <1>2 DEF Create, IInv, TypeInv
  <2>2. FaultsInv'
    BY <2>1 DEF FaultInv, FaultsInv
  <2>3. PlanOK(s)'
    <3>1. CASE at'[s] = "next" /\ Program[s] = "S05"
      BY <2>1, <3>1, InitialFits DEF IInv, TypeInv
    <3>2. CASE ~(at'[s] = "next" /\ Program[s] = "S05")
      BY <2>1, <3>2 DEF PlanOK, Searching, Active
    <3> QED
      BY <3>1, <3>2
  <2>4. failures <= failures' /\ tampers <= tampers'
    BY <2>1 DEF FaultInv, FaultsInv
  <2>5. FaultOK(s)'
    BY <2>1, <2>3 DEF FaultOK
  <2> QED
    BY <2>1, <2>2, <2>4, <2>5, OthersFault
<1> QED
  BY <1>1, <1>2

\* An experiment fails only by a fault, never by running out of candidates.
LEMMA StageFault ==
  ASSUME IInv, SourceInv, FaultInv, BudgetSuffices, NEW s \in Suite,
         Request(s) \/ Experimented(s) \/ Acquire(s) \/ Ready(s) \/ Ended(s) \/ Recorded(s)
  PROVE  FaultInv'
<1> USE DEF Enter, vars, runners, files, search
<1>0. DOMAIN at = Suite /\ DOMAIN todo = Suite
  BY DEF IInv, TypeInv
<1>1. CASE Request(s)
  <2>1. CASE Allowed(s) /\ (Program[s] = "S04" => Verified(s))
    BY <1>0, <1>1, <2>1, QuietFault DEF Request, Searching, Active
  <2>2. CASE ~Verified(s) /\ Program[s] = "S04"
    BY <1>1, <2>2, FailedFault DEF Request, Verified
  <2>3. Allowed(s)
    BY <1>1, PlannedIsAllowed DEF Request, FaultInv, FaultOK
  <2> QED
    BY <2>1, <2>2, <2>3
<1>2. CASE Experimented(s)
  <2>1. /\ UNCHANGED <<failures, world, hashed, rows, round>>
        /\ at[s] = "exp" /\ at'[s] = "next"
        /\ \A t \in Suite \ {s} : at'[t] = at[t] /\ todo'[t] = todo[t]
    BY <1>0, <1>2 DEF Experimented
  <2>2. Active(s) /\ todo[s] # <<>> /\ Now(s).what = "exp"
    BY <2>1 DEF SourceInv, TodoOK, Active
  <2>3. Program[s] # "S05"
    BY <2>2, JobsAre
  <2>4. FaultsInv' /\ failures <= failures' /\ tampers <= tampers'
    BY <2>1 DEF FaultInv, FaultsInv, world
  <2>5. FaultOK(s)'
    BY <2>1, <2>3 DEF FaultOK, PlanOK, Searching
  <2> QED
    BY <2>1, <2>4, <2>5, OthersFault
<1>3. CASE Acquire(s)
  BY <1>0, <1>3, QuietFault DEF Acquire, Searching, Active
<1>4. CASE Ready(s)
  <2>1. CASE Verified(s) /\ (Program[s] = "S05" /\ Now(s).what = "full" => Now(s).of \notin changed)
    BY <1>0, <1>4, <2>1, QuietFault DEF Ready, Searching, Active
  <2>2. CASE ~(Verified(s) /\ (Program[s] = "S05" /\ Now(s).what = "full" => Now(s).of \notin changed))
    <3>1. Fail(s) /\ UNCHANGED <<failures, world, todo, hashed, rows, round>>
      BY <1>4, <2>2 DEF Ready
    <3>2. changed # {} \/ source # hashed[s]
      BY <2>2 DEF Verified
    <3> QED
      BY <3>1, <3>2, FailedFault
  <2> QED
    BY <2>1, <2>2
<1>5. CASE Ended(s)
  BY <1>0, <1>5, QuietFault DEF Ended, Searching, Active
<1>6. CASE Recorded(s)
  <2> DEFINE candidate == Program[s] = "S05" /\ Now(s).what = "fast"
             row == [id |-> Cardinality(rows) + 1, weights |-> Now(s).of, metrics |-> Metrics(land.fast, Now(s).of)]
  <2>1. CASE candidate /\ Cardinality(rows) + 1 \in changed
    BY <1>6, <2>1, FailedFault DEF Recorded
  <2>2. CASE ~(candidate /\ Cardinality(rows) + 1 \in changed)
    <3>1. /\ UNCHANGED <<failures, world, hashed, round>>
          /\ at[s] = "ended" /\ at'[s] = "next" /\ todo' = [todo EXCEPT ![s] = Tail(@)]
          /\ \A t \in Suite \ {s} : at'[t] = at[t] /\ todo'[t] = todo[t]
          /\ rows' = IF candidate THEN rows \cup {row} ELSE rows
      BY <1>0, <1>6, <2>2 DEF Recorded
    <3>2. Active(s) /\ todo[s] # <<>> /\ (candidate => Searching(s))
      BY <3>1 DEF SourceInv, TodoOK, Active, Searching
    <3>3. PlanOK(s)'
      <4>1. CASE candidate
        <5>1. round <= Len(Refinements) /\ Now(s).of \in Weights
          BY <3>2, <4>1, JobsAre
        <5>2. land.fast \in Landscape /\ RowsOK
          BY <3>1, <4>1, LandscapeAssumption DEF SourceInv, SearchTypeInv
        <5>3. Cardinality(rows') = Cardinality(rows) + 1
          BY <3>1, <4>1, <5>1, <5>2, RowAdded
        <5>4. PlanOK(s) /\ todo'[s] = Tail(todo[s])
          BY <1>0, <3>1 DEF FaultInv, FaultOK
        <5>5. row.weights = Now(s).of /\ rows' = rows \cup {row}
          BY <3>1, <4>1
        <5> HIDE DEF row
        <5> QED
          BY <3>1, <3>2, <4>1, <5>1, <5>3, <5>4, <5>5, RowFits
      <4>2. CASE ~candidate
        <5>1. Searching(s) => round > Len(Refinements)
          BY <3>2, <4>2, JobsAre, RefinementAssumption DEF Searching, SourceInv, SearchTypeInv
        <5> QED
          BY <3>1, <3>2, <5>1, RefinementAssumption DEF PlanOK, Searching, Active, SourceInv, SearchTypeInv
      <4> QED
        BY <4>1, <4>2
    <3>4. FaultsInv' /\ failures <= failures' /\ tampers <= tampers'
      BY <3>1 DEF FaultInv, FaultsInv, world
    <3>5. FaultOK(s)'
      BY <3>1, <3>3 DEF FaultOK
    <3>6. UNCHANGED <<rows, round>> \/ Searching(s)
      BY <3>1, <3>2
    <3> QED
      BY <3>1, <3>4, <3>5, <3>6, OthersFault
  <2> QED
    BY <2>1, <2>2
<1> QED
  BY <1>1, <1>2, <1>3, <1>4, <1>5, <1>6

\* Planning, exporting and completing fail for no other reason.
LEMMA EndFault ==
  ASSUME IInv, SourceInv, FaultInv, BudgetSuffices, NEW s \in Suite,
         Plan(s) \/ Export(s) \/ AppendSection(s) \/ Complete(s) \/ AppendLast(s)
  PROVE  FaultInv'
<1> USE DEF Enter, vars, runners, files, search
<1>0. DOMAIN at = Suite /\ DOMAIN todo = Suite
  BY DEF IInv, TypeInv
<1>1. CASE Plan(s)
  <2>1. /\ UNCHANGED <<failures, world, hashed, rows, at>> /\ round <= Len(Refinements) /\ round' = round + 1
        /\ Program[s] = "S05" /\ at[s] = "next" /\ todo[s] = <<>>
        /\ \A t \in Suite \ {s} : at'[t] = at[t] /\ todo'[t] = todo[t]
    BY <1>0, <1>1 DEF Plan
  <2>2. Searching(s) /\ round \in Nat /\ Len(Refinements) \in Nat
    BY <2>1, RefinementAssumption DEF Searching, Active, SourceInv, SearchTypeInv
  <2>3. PlanOK(s)'
    <3>1. CASE round < Len(Refinements)
      <4>1. PICK points \in Points(Refinements[round + 1]) :
              todo' = [todo EXCEPT ![s] = [i \in DOMAIN points |-> Job("fast", points[i])]]
        BY <1>1, <3>1 DEF Plan
      <4>2. todo'[s] = [i \in DOMAIN points |-> Job("fast", points[i])] /\ PlanOK(s)
        BY <1>0, <4>1 DEF FaultInv, FaultOK
      <4> QED
        BY <2>1, <2>2, <3>1, <4>2, RefinementFits
    <3>2. CASE ~(round < Len(Refinements))
      BY <2>1, <2>2, <3>2 DEF PlanOK
    <3> QED
      BY <3>1, <3>2
  <2>4. FaultsInv' /\ failures <= failures' /\ tampers <= tampers'
    BY <2>1 DEF FaultInv, FaultsInv, world
  <2>5. FaultOK(s)'
    BY <2>1, <2>3 DEF FaultOK
  <2> QED
    BY <2>1, <2>2, <2>4, <2>5, OthersFault
<1>2. CASE Export(s)
  <2> DEFINE best == SelectBest(Confirmed)
  <2>1. CASE \E r \in best : r.id \in changed
    BY <1>2, <2>1, FailedFault DEF Export
  <2>2. CASE ~\E r \in best : r.id \in changed
    BY <1>0, <1>2, <2>2, QuietFault DEF Export, Searching, Active
  <2> QED
    BY <2>1, <2>2
<1>3. CASE AppendSection(s)
  BY <1>0, <1>3, QuietFault DEF AppendSection, Searching, Active
<1>4. CASE Complete(s)
  BY <1>0, <1>4, QuietFault DEF Complete, Searching, Active
<1>5. CASE AppendLast(s)
  BY <1>0, <1>5, QuietFault DEF AppendLast, Searching, Active
<1> QED
  BY <1>1, <1>2, <1>3, <1>4, <1>5

\* A suite fails or is killed; what is done besides the suites
LEMMA BrokenFault ==
  ASSUME IInv, FaultInv, NEW s \in Suite, SuiteFails(s) \/ KillSuite(s)
  PROVE  FaultInv'
<1> USE DEF vars, runners, files, search
<1>1. CASE SuiteFails(s)
  <2>1. Fail(s) /\ UNCHANGED <<world, todo, hashed, rows, round>>
    BY <1>1 DEF SuiteFails
  <2>2. (failures' = failures /\ (changed # {} \/ source # hashed[s])) \/ failures' = failures + 1
    BY <1>1 DEF SuiteFails, Verified
  <2> QED
    BY <2>1, <2>2, FailedFault
<1>2. CASE KillSuite(s)
  BY <1>2, QuietFault DEF KillSuite, Enter, Searching, Active, IInv, TypeInv
<1> QED
  BY <1>1, <1>2

\* A step that leaves the suites alone but for an edit or a change
LEMMA ApartFault ==
  ASSUME FaultInv, UNCHANGED <<at, todo, hashed, rows, round>>,
         failures' \in {failures, failures + 1},
         UNCHANGED world \/ (source' \in {source, source + 1} /\ tampers' = tampers + 1)
  PROVE  FaultInv'
<1>1. failures \in Nat /\ tampers \in Nat /\ (tampers = 0 => changed = {} /\ \A t \in Suite : hashed[t] = source)
  BY DEF FaultInv, FaultsInv
<1>2. failures' \in Nat /\ failures <= failures' /\ tampers' \in Nat /\ tampers <= tampers'
  BY <1>1 DEF world
<1>3. FaultsInv'
  <2>1. tampers' = 0 => UNCHANGED world
    BY <1>1
  <2> QED
    BY <1>1, <1>2, <2>1 DEF FaultsInv, world
<1>4. ASSUME NEW s \in Suite PROVE FaultOK(s)'
  <2>1. FaultOK(s)
    BY DEF FaultInv
  <2> QED
    BY <1>1, <1>2, <2>1 DEF FaultOK, PlanOK, Searching, Active
<1> QED
  BY <1>3, <1>4 DEF FaultInv

\* Every step keeps a cause for whatever has failed.
LEMMA FaultInductive ==
  ASSUME IInv, SourceInv, FaultInv, BudgetSuffices, [SuiteNext]_everything
  PROVE  FaultInv'
<1>0. failures \in Nat
  BY DEF FaultInv, FaultsInv
<1>1. ASSUME NEW s \in Suite, SuiteStep(s) \/ Plan(s) \/ SuiteFails(s) \/ KillSuite(s) PROVE FaultInv'
  <2>1. CASE Experiment(s)
    <3>1. UNCHANGED suites /\ failures' = failures
      BY <2>1 DEF Experiment, Step, Lock, Train, Trained, Score, Scored, Look, Header, Row, bounds
    <3> QED
      BY <3>1, ApartFault DEF suites, search
  <2> QED
    BY <1>1, <2>1, LaunchFault, StageFault, EndFault, BrokenFault DEF SuiteStep
<1>2. ASSUME NEW r \in Runner, RunnerStep(r) PROVE FaultInv'
  <2>1. UNCHANGED suites /\ failures' = failures
    BY <1>2 DEF RunnerStep, Step, Lock, Train, Trained, Score, Scored, Look, Header, Row, bounds
  <2> QED
    BY <2>1, ApartFault DEF suites, search
<1>3. ASSUME NEW r \in Runner \ Suite, ChildFails(r) \/ KillRunner(r), UNCHANGED suites PROVE FaultInv'
  <2>1. failures' \in {failures, failures + 1}
    BY <1>3 DEF ChildFails, KillRunner
  <2> QED
    BY <1>3, <2>1, ApartFault DEF suites, search
<1>4. CASE ProcessStep
  <2>1. UNCHANGED <<at, todo, hashed, rows, round, world, failures>>
    BY <1>4 DEF ProcessStep, Load, Exit, Allocate, suites, search, bounds
  <2> QED
    BY <2>1, ApartFault
<1>5. CASE OtherStep \/ UNCHANGED everything
  <2>1. UNCHANGED <<at, todo, hashed, rows, round, world, failures>>
    BY <1>5 DEF OtherStep, OtherStarts, OtherEnds, everything, vars, suites, search, bounds
  <2> QED
    BY <2>1, ApartFault
<1>6. CASE Edit \/ Change
  <2>1. UNCHANGED <<at, todo, hashed, rows, round, failures>>
    BY <1>6 DEF Edit, Change, vars, search
  <2>2. source' \in {source, source + 1} /\ tampers' = tampers + 1
    BY <1>6 DEF Edit, Change
  <2> QED
    BY <2>1, <2>2, ApartFault
<1> QED
  BY <1>1, <1>2, <1>3, <1>4, <1>5, <1>6 DEF SuiteNext, SuitesFinished

\* Where the budget covers the search, every suite that fails had a fault or
\* was tampered with, in whatever order suites and runners come to the lock.
THEOREM FailuresHaveACause == BudgetSuffices => (SuiteSpec => []OnlyFaultsFail)
<1> SUFFICES ASSUME BudgetSuffices PROVE SuiteSpec => []OnlyFaultsFail
  OBVIOUS
<1>1. IInv /\ SourceInv /\ FaultInv /\ [SuiteNext]_everything => FaultInv'
  BY FaultInductive
<1>2. FaultInv => OnlyFaultsFail
  <2> SUFFICES ASSUME FaultInv, NEW s \in Suite, at[s] = "failed" PROVE failures + tampers > 0
    BY DEF OnlyFaultsFail
  <2>1. failures > 0 \/ tampers > 0
    BY DEF FaultInv, FaultOK
  <2>2. \A a, b \in Nat : a > 0 \/ b > 0 => a + b > 0
    OBVIOUS
  <2> QED
    BY <2>1, <2>2 DEF FaultInv, FaultsInv
<1> QED
  BY FaultInitially, Invariance, SourceInvariance, <1>1, <1>2, PTL DEF SuiteSpec

-----------------------------------------------------------------------------
(* The search finds the best *)

TheBest == LET best == SelectBest(rows) IN IF best = {} THEN None ELSE (CHOOSE r \in best : TRUE).id

\* After the last plan the best row is on the shortlist; if the evaluations
\* agree it is exported.
FoundOK(s) ==
  Searching(s) =>
    /\ round > Len(Refinements) => \A r \in SelectBest(rows) : r.id \in shortlist
    /\ at[s] \in {"appended", "done"} /\ land.fast = land.full => winner = TheBest

\* A row has the metrics of the fast evaluation.
FoundInv ==
  /\ \A r \in rows : r.metrics = Metrics(land.fast, r.weights)
  /\ \A s \in Suite : FoundOK(s)

\* What is left out of a set does not matter to its best, if the best is not.
LEMMA SameBest ==
  ASSUME NEW S \in SUBSET Evaluated, IsFiniteSet(S), Distinct(S), NEW T \in SUBSET S, SelectBest(S) \subseteq T
  PROVE  SelectBest(T) = SelectBest(S)
<1> DEFINE strict == {r \in S : r.metrics.aus >= MinAus}
<1>1. SelectBest(S) \subseteq SelectBest(T)
  BY DEF SelectBest
<1>2. ASSUME NEW r \in SelectBest(T) PROVE r \in SelectBest(S)
  <2>1. r \in strict /\ r \in S
    BY DEF SelectBest
  <2>2. PICK b : SelectBest(S) = {b}
    <3>1. \A n \in Nat \ {0} : strict # {} => SelectBest(S) = {RankScreen(strict, 0, n)[1]}
      BY BestIs
    <3>2. 1 \in Nat \ {0}
      OBVIOUS
    <3> QED
      BY <2>1, <3>1, <3>2
  <2>3. b \in SelectBest(T) /\ b \in strict /\ b \in S
    BY <1>1, <2>2 DEF SelectBest
  <2>4. (b = r \/ Before(r, b)) /\ (b = r \/ Before(b, r))
    BY <2>3 DEF SelectBest
  <2>5. \A x, y : Before(x, y) <=> Precedes(FALSE, x, y)
    BY DEF Precedes
  <2>6. r = b
    BY <2>1, <2>3, <2>4, <2>5, PrecedesOrders
  <2> QED
    BY <2>2, <2>6
<1> QED
  BY <1>1, <1>2

\* Before the first launch there is nothing to find.
LEMMA FoundInitially == SuiteInit => FoundInv
BY DEF SuiteInit, Init, FoundInv, FoundOK, Searching, Active

\* A step that adds no row, makes no plan and exports nothing
LEMMA QuietFound ==
  ASSUME FoundInv, UNCHANGED <<rows, round, shortlist, winner, land>>,
         \A s \in Suite : /\ Searching(s)' => Searching(s)
                          /\ Searching(s) /\ at'[s] \in {"appended", "done"} => at[s] \in {"appended", "done"}
  PROVE  FoundInv'
<1>1. ASSUME NEW s \in Suite PROVE FoundOK(s)'
  BY DEF FoundInv, FoundOK, TheBest
<1> QED
  BY <1>1 DEF FoundInv

\* What a step of a suite that searches leaves to the others
LEMMA OthersFound ==
  ASSUME IInv, NEW s \in Suite, Searching(s), \A t \in Suite \ {s} : at'[t] = at[t],
         \A r \in rows' : r.metrics = Metrics(land'.fast, r.weights), FoundOK(s)'
  PROVE  FoundInv'
<1>1. ASSUME NEW t \in Suite \ {s} PROVE FoundOK(t)'
  BY OnlyOne DEF FoundOK, Searching, Active
<1> QED
  BY <1>1 DEF FoundInv

\* A new row is the measurement of a candidate that was planned.
LEMMA RowFound ==
  ASSUME IInv, SourceInv, FoundInv, NEW s \in Suite, Recorded(s), rows' # rows
  PROVE  FoundInv'
<1> DEFINE row == [id |-> Cardinality(rows) + 1, weights |-> Now(s).of, metrics |-> Metrics(land.fast, Now(s).of)]
<1>1. /\ Program[s] = "S05" /\ Now(s).what = "fast" /\ rows' = rows \cup {row}
      /\ at[s] = "ended" /\ at' = [at EXCEPT ![s] = "next"] /\ UNCHANGED <<round, land>>
  BY DEF Recorded, Enter, Fail
<1>2. Active(s) /\ Searching(s) /\ todo[s] # <<>>
  BY <1>1 DEF SourceInv, TodoOK, Active, Searching
<1>3. ~(round > Len(Refinements))
  BY <1>1, <1>2, JobsAre, RefinementAssumption DEF SourceInv, SearchTypeInv
<1>4. FoundOK(s)'
  BY <1>1, <1>3 DEF FoundOK, IInv, TypeInv
<1>5. \A r \in rows' : r.metrics = Metrics(land'.fast, r.weights)
  BY <1>1 DEF FoundInv
<1> QED
  BY <1>1, <1>2, <1>4, <1>5, OthersFound

\* A plan takes up the neighbours of the best points so far.
LEMMA PlanFound ==
  ASSUME IInv, SourceInv, FoundInv, NEW s \in Suite, Plan(s)
  PROVE  FoundInv'
<1>1. /\ Program[s] = "S05" /\ at[s] = "next" /\ todo[s] = <<>> /\ round <= Len(Refinements) /\ round' = round + 1
      /\ UNCHANGED <<at, rows, winner, land>>
  BY DEF Plan
<1>2. Searching(s) /\ rows # {} /\ round \in Nat /\ Len(Refinements) \in Nat
  <2>1. Active(s) /\ Searching(s)
    BY <1>1 DEF Searching, Active
  <2>2. rows # {}
    BY <1>1, <2>1 DEF SourceInv, TodoOK
  <2> QED
    BY <2>1, <2>2, RefinementAssumption DEF SourceInv, SearchTypeInv
<1>3. ASSUME round' > Len(Refinements) PROVE \A r \in SelectBest(rows) : r.id \in shortlist'
  <2>1. ~(round < Len(Refinements))
    BY <1>1, <1>2, <1>3
  <2>2. shortlist' = {r.id : r \in ToSet(Finalists(rows))}
    BY <2>1 DEF Plan
  <2>3. \A r \in SelectBest(rows) : \E k \in DOMAIN Finalists(rows) : Finalists(rows)[k] = r
    BY <1>2, FinalistsAre DEF SourceInv, RowsOK
  <2> QED
    BY <2>2, <2>3 DEF ToSet
<1>4. FoundOK(s)'
  BY <1>1, <1>3 DEF FoundOK
<1>5. \A r \in rows' : r.metrics = Metrics(land'.fast, r.weights)
  BY <1>1 DEF FoundInv
<1> QED
  BY <1>1, <1>2, <1>4, <1>5, OthersFound

\* What is exported is the best of the confirmed finalists.
LEMMA ExportFound ==
  ASSUME IInv, SourceInv, FoundInv, NEW s \in Suite, Export(s)
  PROVE  FoundInv'
<1> DEFINE best == SelectBest(Confirmed)
           T == {r \in rows : r.id \in shortlist}
<1>1. /\ Program[s] = "S05" /\ at[s] = "next" /\ round > Len(Refinements)
      /\ UNCHANGED <<rows, round, shortlist, land>>
      /\ \/ at' = [at EXCEPT ![s] = "failed"]
         \/ /\ at' = [at EXCEPT ![s] = "appended"]
            /\ winner' = IF best = {} THEN None ELSE (CHOOSE r \in best : TRUE).id
  BY DEF Export, Enter, Fail
<1>2. Searching(s) /\ DOMAIN at = Suite
  BY <1>1 DEF Searching, Active, IInv, TypeInv
<1>3. ASSUME land.fast = land.full PROVE best = SelectBest(rows)
  <2>1. rows \in SUBSET Evaluated /\ IsFiniteSet(rows) /\ Distinct(rows)
    BY DEF SourceInv, RowsOK
  <2>2. Confirmed = T
    <3>1. ASSUME NEW r \in rows PROVE [r EXCEPT !.metrics = Metrics(land.full, r.weights)] = r
      BY <1>3, <2>1 DEF FoundInv, Evaluated
    <3> QED
      BY <3>1 DEF Confirmed
  <2>3. SelectBest(rows) \subseteq T
    BY <1>1, <1>2 DEF FoundInv, FoundOK, SelectBest
  <2> HIDE DEF T
  <2>4. T \in SUBSET rows
    BY DEF T
  <2> QED
    BY <2>1, <2>2, <2>3, <2>4, SameBest
<1> HIDE DEF best
<1>4. FoundOK(s)'
  <2>1. at'[s] \in {"failed", "appended"}
    BY <1>1, <1>2
  <2>2. \A r \in SelectBest(rows) : r.id \in shortlist
    BY <1>1, <1>2 DEF FoundInv, FoundOK
  <2>3. at'[s] = "appended" /\ land.fast = land.full => winner' = TheBest
    BY <1>1, <1>2, <1>3 DEF TheBest
  <2> QED
    BY <1>1, <2>1, <2>2, <2>3 DEF FoundOK, TheBest, Searching, Active
<1>5. \A r \in rows' : r.metrics = Metrics(land'.fast, r.weights)
  BY <1>1 DEF FoundInv
<1>6. \A t \in Suite \ {s} : at'[t] = at[t]
  BY <1>1, <1>2
<1> QED
  BY <1>2, <1>4, <1>5, <1>6, OthersFound

\* A search that is created starts with no row.
LEMMA CreateFound ==
  ASSUME IInv, SourceInv, FoundInv, NEW s \in Suite, Create(s)
  PROVE  FoundInv'
<1>1. /\ at[s] = "checked" /\ UNCHANGED <<rows, round, shortlist, winner, land>>
      /\ \A t \in Suite \ {s} : at'[t] = at[t]
      /\ at'[s] \in {"next", "refused"} /\ (at'[s] = "next" => state[Program[s]] = None)
  BY DEF Create, Enter, search, IInv, TypeInv
<1>2. FoundOK(s)'
  <2>1. at'[s] = "next" /\ Program[s] = "S05" => round = 0
    BY <1>1 DEF SourceInv, OneSearch
  <2>2. ~(0 > Len(Refinements))
    BY RefinementAssumption
  <2> QED
    BY <1>1, <2>1, <2>2 DEF FoundOK, Searching, Active
<1>3. ASSUME NEW t \in Suite \ {s} PROVE FoundOK(t)'
  BY <1>1 DEF FoundInv, FoundOK, Searching, Active, TheBest
<1> QED
  BY <1>1, <1>2, <1>3 DEF FoundInv

\* Every step keeps what the search has found so far.
LEMMA FoundInductive ==
  ASSUME IInv, SourceInv, FoundInv, [SuiteNext]_everything
  PROVE  FoundInv'
<1> USE DEF search, suites, everything
<1>1. ASSUME NEW s \in Suite, SuiteStep(s) \/ SuiteFails(s) \/ KillSuite(s), ~Create(s), ~Export(s), ~(Recorded(s) /\ rows' # rows)
      PROVE  FoundInv'
  <2>0. DOMAIN at = Suite
    BY DEF IInv, TypeInv
  <2>1. UNCHANGED <<rows, round, shortlist, winner, land>> /\ \A t \in Suite \ {s} : at'[t] = at[t]
    BY <1>1, <2>0 DEF SuiteStep, SuiteFails, KillSuite, Check, Request, Experimented, Acquire, Ready, Ended, Recorded, AppendSection,
                     Complete, AppendLast, Experiment, Enter, Fail
  <2>2. Searching(s)' => Searching(s)
    BY <1>1, <2>0 DEF SuiteStep, SuiteFails, KillSuite, Check, Request, Experimented, Acquire, Ready, Ended, Recorded, AppendSection,
                     Complete, AppendLast, Experiment, Enter, Fail, Searching, Active
  <2>3. Searching(s) /\ at'[s] \in {"appended", "done"} => at[s] \in {"appended", "done"}
    BY <1>1, <2>0 DEF SuiteStep, SuiteFails, KillSuite, Check, Request, Experimented, Acquire, Ready, Ended, Recorded, AppendSection,
                     Complete, AppendLast, Experiment, Enter, Fail, Searching, SourceInv, TodoOK, Active
  <2> QED
    BY <2>1, <2>2, <2>3, QuietFound DEF Searching, Active
<1>2. ASSUME NEW s \in Suite, SuiteStep(s) \/ Plan(s) \/ SuiteFails(s) \/ KillSuite(s) PROVE FoundInv'
  BY <1>1, <1>2, CreateFound, ExportFound, RowFound, PlanFound
<1>3. CASE UNCHANGED <<at, rows, round, shortlist, winner, land>>
  BY <1>3, QuietFound DEF Searching, Active
<1>4. CASE \E r \in Runner : RunnerStep(r) \/ (r \notin Suite /\ (ChildFails(r) \/ KillRunner(r)) /\ UNCHANGED suites)
  BY <1>3, <1>4 DEF RunnerStep
<1>5. CASE ProcessStep \/ OtherStep \/ Edit \/ Change \/ UNCHANGED everything
  BY <1>3, <1>5 DEF ProcessStep, Load, OtherStep, Edit, Change
<1> QED
  BY <1>2, <1>4, <1>5 DEF SuiteNext, SuitesFinished

\* If the fast evaluation agrees with the full one, the best of all candidates
\* is exported, whatever the landscapes, the points and the number of finalists.
THEOREM TheBestIsFound == SuiteSpec => []SearchLosesNothing
<1>1. IInv /\ SourceInv /\ FoundInv /\ [SuiteNext]_everything => FoundInv'
  BY FoundInductive
<1>2. FoundInv => SearchLosesNothing
  BY DEF FoundInv, FoundOK, SearchLosesNothing, TheBest, Searching, Active
<1> QED
  BY FoundInitially, Invariance, SourceInvariance, <1>1, <1>2, PTL DEF SuiteSpec

=============================================================================

------------------------------- MODULE GpuQueue -------------------------------
(***************************************************************************)
(* The experiment queue of student_docker/tools/run_exp.py: runners that    *)
(* share one GPU through flock on /tmp/hackathon_gpu.lock, train and score  *)
(* in child processes and record a row in EXPERIMENTS.md; with              *)
(* tools/gpu_hold.py, jobs outside the queue, and killed runners.           *)
(*                                                                         *)
(* A runner works through a list of configurations in one process (main).   *)
(* The lock file descriptor is close-on-exec, so the kernel drops the lock  *)
(* when the runner dies, also if its child goes on.                         *)
(*                                                                         *)
(* Simplifications:                                                        *)
(*  - GPU memory is what keeps wait_for_gpu waiting or not: a child past    *)
(*    its start-up, an outside job or a hold is over the limit;             *)
(*  - a checkpoint is the run that wrote it; a row is a run and the         *)
(*    checkpoint it scored.                                                 *)
(***************************************************************************)
EXTENDS Integers, Sequences, FiniteSets

CONSTANTS
  Runner,      \* run_exp.py processes
  Config,      \* configurations; each has its own save_path
  Work,        \* the configurations of each runner, in order
  Launches,    \* the sets of runners that may be launched together
  MaxKills,    \* bound on killed runners
  MaxFailures, \* bound on failing children
  MaxOthers,   \* bound on GPU jobs of others, gpu_hold.py included
  None

ASSUME WorkAssumption == Work \in [Runner -> Seq(Config)] /\ Launches \subseteq SUBSET Runner
ASSUME QueueBounds == MaxKills \in Nat /\ MaxFailures \in Nat /\ MaxOthers \in Nat

Run == Runner \X Nat
ASSUME QueueNone == None \notin Runner \cup Run

VARIABLES
  lock,     \* the runner that holds the flock, or None
  pc,       \* where each runner is
  next,     \* index of the configuration it works on
  children, \* processes on the GPU: the run they belong to, "train", "score" or
            \* "command", and whether their memory is allocated
  ckpt,     \* per configuration: the run that wrote its checkpoint
  score,    \* per runner: the checkpoint its child scored
  log,      \* rows of EXPERIMENTS.md, or None
  others,   \* number of GPU jobs outside the queue: team mates' and gpu_hold.py's
  kills, failures, started

vars == <<lock, pc, next, children, ckpt, score, log, others,
          kills, failures, started>>
gpu == <<children, ckpt, others>>
bounds == <<kills, failures, started>>

Init ==
  /\ lock = None
  /\ pc \in {[r \in Runner |-> IF r \in launched THEN "queued" ELSE "done"] : launched \in Launches}
  /\ next = [r \in Runner |-> 1]
  /\ children = {}
  /\ ckpt = [c \in Config |-> None]
  /\ score = [r \in Runner |-> None]
  /\ log = None
  /\ others = 0
  /\ kills = 0
  /\ failures = 0
  /\ started = 0

ThisRun(r) == <<r, next[r]>>
Goto(r, label) == pc' = [pc EXCEPT ![r] = label]

ChildOf(r, what, memory) == [run |-> ThisRun(r), what |-> what, memory |-> memory]
Running(r) == {k \in children : k.run = ThisRun(r)}

\* Mutant: scoring inside the runner, whose CUDA context stays until it ends.
BusyInProcess ==
  \/ others > 0
  \/ \E k \in children : k.memory
  \/ \E r \in Runner : pc[r] \notin {"done", "failed"} /\ next[r] > 1

\* nvidia-smi: what is in use is over the limit.
Busy == others > 0 \/ \E k \in children : k.memory

-----------------------------------------------------------------------------
(* run(cfg_path) *)

\* Mutant: the lock is not waited for.
LockAnyway(r) ==
  /\ pc[r] = "queued"
  /\ lock' = r
  /\ Goto(r, "locked")
  /\ UNCHANGED <<next, gpu, score, log, bounds>>

\* fcntl.flock(lock, LOCK_EX)
Lock(r) ==
  /\ pc[r] = "queued"
  /\ lock = None
  /\ lock' = r
  /\ Goto(r, "locked")
  /\ UNCHANGED <<next, gpu, score, log, bounds>>

\* wait_for_gpu, then the training process
Train(r) ==
  /\ pc[r] = "locked"
  /\ ~Busy
  /\ children' = children \cup {ChildOf(r, "train", FALSE)}
  /\ Goto(r, "training")
  /\ UNCHANGED <<lock, next, ckpt, others, score, log, bounds>>

\* Mutant: the lock is given back between training and scoring.
TrainedAndUnlocked(r) ==
  /\ pc[r] = "training"
  /\ Running(r) = {}
  /\ lock' = None
  /\ Goto(r, "trained")
  /\ UNCHANGED <<next, gpu, score, log, bounds>>

\* The child ended with return code 0.
Trained(r) ==
  /\ pc[r] = "training"
  /\ Running(r) = {}
  /\ Goto(r, "trained")
  /\ UNCHANGED <<lock, next, gpu, score, log, bounds>>

\* fasteval.py runs as a child of its own, without wait_for_gpu.
Score(r) ==
  /\ pc[r] = "trained"
  /\ children' = children \cup {ChildOf(r, "score", FALSE)}
  /\ Goto(r, "scoring")
  /\ UNCHANGED <<lock, next, ckpt, others, score, log, bounds>>

\* Its result is parsed; the with statement closes the lock file.
Scored(r) ==
  /\ pc[r] = "scoring"
  /\ Running(r) = {}
  /\ lock' = None
  /\ Goto(r, "look")
  /\ UNCHANGED <<next, gpu, score, log, bounds>>

\* LOG.exists()
Look(r) ==
  /\ pc[r] = "look"
  /\ Goto(r, IF log # None THEN "row" ELSE "header")
  /\ UNCHANGED <<lock, next, gpu, score, log, bounds>>

\* LOG.write_text truncates the file.
Header(r) ==
  /\ pc[r] = "header"
  /\ log' = {}
  /\ Goto(r, "row")
  /\ UNCHANGED <<lock, next, gpu, score, bounds>>

\* The row is appended; main goes on with the next configuration.
Row(r) ==
  /\ pc[r] = "row"
  /\ log' = log \cup {<<ThisRun(r), score[r]>>}
  /\ next' = [next EXCEPT ![r] = @ + 1]
  /\ Goto(r, IF next[r] = Len(Work[r]) THEN "done" ELSE "queued")
  /\ UNCHANGED <<lock, gpu, score, bounds>>

-----------------------------------------------------------------------------
(* The children, and what else happens *)

\* A child has loaded its model: its memory shows.
Allocate(k) ==
  /\ ~k.memory
  /\ children' = (children \ {k}) \cup {[k EXCEPT !.memory = TRUE]}
  /\ UNCHANGED <<lock, pc, next, ckpt, others, score, log, bounds>>

ConfigOf(k) == Work[k.run[1]][k.run[2]]

\* A child saves or scores the checkpoint and exits; a command is any other
\* process that runs under the lock.
Exit(k) ==
  /\ k.memory
  /\ children' = children \ {k}
  /\ ckpt' = IF k.what = "train" THEN [ckpt EXCEPT ![ConfigOf(k)] = k.run] ELSE ckpt
  /\ score' = IF k.what = "score" THEN [score EXCEPT ![k.run[1]] = ckpt[ConfigOf(k)]] ELSE score
  /\ UNCHANGED <<lock, pc, next, others, log, bounds>>

\* The runner gives up: SystemExit, or it is killed; the lock is dropped.
Stop(r) == Goto(r, "failed") /\ lock' = IF lock = r THEN None ELSE lock

\* A child fails; nothing is recorded, and main runs no further configuration.
ChildFails(r) ==
  /\ Running(r) # {}
  /\ failures < MaxFailures /\ failures' = failures + 1
  /\ children' = children \ Running(r)
  /\ Stop(r)
  /\ UNCHANGED <<next, ckpt, others, score, log, kills, started>>

\* The runner alone is killed; its child goes on as an orphan.
KillRunner(r) ==
  /\ pc[r] \notin {"done", "failed"}
  /\ kills < MaxKills /\ kills' = kills + 1
  /\ Stop(r)
  /\ UNCHANGED <<next, children, ckpt, others, score, log, failures, started>>

\* A team mate's job, or gpu_hold.py, takes memory; and gives it back.
OtherStarts ==
  /\ started < MaxOthers
  /\ started' = started + 1
  /\ others' = others + 1
  /\ UNCHANGED <<lock, pc, next, children, ckpt, score, log, kills, failures>>

OtherEnds ==
  /\ others > 0 /\ others' = others - 1
  /\ UNCHANGED <<lock, pc, next, children, ckpt, score, log, bounds>>

Step(r) ==
  \/ Lock(r) \/ Train(r) \/ Trained(r) \/ Score(r) \/ Scored(r)
  \/ Look(r) \/ Header(r) \/ Row(r)

-----------------------------------------------------------------------------
(* Properties *)

\* One experiment of the queue at a time is on the GPU, from its start to the
\* end of its scoring, as long as no runner is killed (lines 53-76).
OneExperimentAtATime == kills = 0 => Cardinality({k.run : k \in children}) <= 1

\* The row of a run is the score of the checkpoint that this run trained,
\* also when two runners work on the same configuration (lines 53-76), and
\* as long as no runner is killed.
ScoresItsOwn ==
  kills = 0 => \A r \in Runner : pc[r] \in {"look", "header", "row"} => score[r] = ThisRun(r)
=============================================================================

-------------------------------- MODULE Suites --------------------------------
(***************************************************************************)
(* The suite runners tools/S03_run.py, S04_run.py and S05_run.py of          *)
(* student_docker, in the queue of run_exp.py: programs that train through   *)
(* run_exp.run, run other commands under its GPU lock, keep a state file and *)
(* append a section to S_EXPERIMENTS.md; with other runners, competing       *)
(* launches, edited sources, failing children and killed suites.             *)
(*                                                                         *)
(* Simplifications:                                                        *)
(*  - a suite is a sequence of jobs: "exp" trains and scores a               *)
(*    configuration, "smoke", "fast" and "full" are commands under the lock;*)
(*  - what S04 and S05 track (scripts, configurations, caches) has one      *)
(*    version, which edits only raise: what is edited is not edited back;   *)
(*  - one of the files a suite must not find stands for all of them;        *)
(*  - a checkpoint file of a candidate is what its evaluation saved, or     *)
(*    changed.                                                              *)
(***************************************************************************)
EXTENDS GpuQueue, SoupSearch

CONSTANTS
  Suite,       \* runners that run a suite; the others are run_exp.py itself
  Program,     \* "S03", "S04" or "S05", for each suite
  Landscapes,  \* pairs of a landscape of the fast and one of the full metrics
  MaxTampers   \* bound on edits of tracked files and changes of candidates

Names == {"S03", "S04", "S05"}
ASSUME SuiteAssumption == Suite \subseteq Runner /\ Program \in [Suite -> Names]
ASSUME SuiteBounds == MaxTampers \in Nat
ASSUME LandscapeAssumption == Landscapes \subseteq [fast : Landscape, full : Landscape]
FileStatus == {"queued", "running", "completed", "failed"}
ASSUME SuiteNone == None \notin Nat \cup [by : Suite, status : FileStatus]
ASSUME SuiteWork == \A launched \in Launches : \A r \in launched \ Suite : Work[r] # <<>>

VARIABLES
  at,       \* where each suite is
  todo,     \* the jobs each suite still has to do
  state,    \* the state file of each program: its owner and status, or None
  source,   \* version of the tracked sources
  hashed,   \* the version each suite hashed when it was launched
  used,     \* history: versions its experiments and candidates were made from
  sections, \* suites that have appended to S_EXPERIMENTS.md
  rows,     \* candidates of S05: number, weights and fast metrics
  round,    \* number of plans S05 has made: refinements, then the shortlist
  shortlist,\* candidates for the full scorer
  changed,  \* candidates whose checkpoint has been changed
  misread,  \* history: candidates the full scorer read after a change
  winner,   \* what S05 exported: a candidate, or None
  land,     \* the landscapes of the fast and of the full metrics
  tampers   \* edits and changes so far

runners == <<pc, next, ckpt, score, log, others, kills, started>>
files == <<state, sections>>
search == <<rows, round, shortlist, misread, winner, land>>
world == <<source, changed, tampers>>
suites == <<at, todo, hashed, used, files, search, world>>
everything == <<vars, suites>>

Ends == {"off", "refused", "done", "failed", "killed"}

\* The stages, one job for each process that the suite runs or run() call.
Job(what, x) == [what |-> what, of |-> x]
Times(n, what) == [i \in 1..n |-> Job(what, i)]
Stages(s) ==
  CASE Program[s] = "S03" -> Times(1, "exp") \o Times(3, "fast") \o Times(4, "full")
    [] Program[s] = "S04" -> Times(1, "smoke") \o Times(2, "exp") \o Times(2, "full")
    [] Program[s] = "S05" -> [i \in DOMAIN Initial |-> Job("fast", Initial[i])]
Now(s) == Head(todo[s])

Enter(s, where) == at' = [at EXCEPT ![s] = where]
Status(s, what) == state' = [state EXCEPT ![Program[s]] = [by |-> s, status |-> what]]

\* verify_sources, verify_manifest; S03 verifies nothing.
Verified(s) == Program[s] = "S03" \/ source = hashed[s]

\* except BaseException: the state is "failed"; the lock file is closed.
Fail(s) ==
  /\ Enter(s, "failed")
  /\ Status(s, "failed")
  /\ lock' = IF lock = s THEN None ELSE lock

SuiteInit ==
  /\ Init
  /\ at = [s \in Suite |-> IF pc[s] = "queued" THEN "start" ELSE "off"]
  /\ todo = [s \in Suite |-> <<>>]
  /\ state = [n \in Names |-> None]
  /\ source = 0 /\ hashed = [s \in Suite |-> 0] /\ used = [s \in Suite |-> {}]
  /\ sections = {}
  /\ rows = {} /\ round = 0 /\ shortlist = {} /\ changed = {} /\ misread = {} /\ winner = None
  /\ IF \E s \in Suite : Program[s] = "S05" /\ at[s] = "start" THEN land \in Landscapes ELSE land = None
  /\ tampers = 0

-----------------------------------------------------------------------------
(* main(), up to the try *)

\* No file of a previous run; then the tracked files are hashed.
Check(s) ==
  /\ at[s] = "start"
  /\ Enter(s, IF state[Program[s]] = None THEN "checked" ELSE "refused")
  /\ hashed' = [hashed EXCEPT ![s] = source]
  /\ UNCHANGED <<vars, todo, used, files, search, world>>

\* Mutant: the state file is replaced as in an update.
CreateAnyway(s) ==
  /\ at[s] = "checked"
  /\ Status(s, "queued") /\ todo' = [todo EXCEPT ![s] = Stages(s)] /\ Enter(s, "next")
  /\ UNCHANGED <<vars, hashed, used, sections, search, world>>

\* write_json(state_path, state, exclusive=True)
Create(s) ==
  /\ at[s] = "checked"
  /\ IF state[Program[s]] = None
     THEN Status(s, "queued") /\ todo' = [todo EXCEPT ![s] = Stages(s)] /\ Enter(s, "next")
     ELSE Enter(s, "refused") /\ UNCHANGED <<state, todo>>
  /\ UNCHANGED <<vars, hashed, used, sections, search, world>>

-----------------------------------------------------------------------------
(* One stage *)

\* The checks of evaluate(): the budget, and no candidate twice
Allowed(s) ==
  Program[s] = "S05" /\ Now(s).what = "fast" =>
    Cardinality(rows) < MaxCandidates /\ \A r \in rows : r.weights # Now(s).of

\* The next stage is announced: before run() and score_model, S04 verifies.
Request(s) ==
  /\ at[s] = "next" /\ todo[s] # <<>>
  /\ IF Allowed(s) /\ (Program[s] = "S04" => Verified(s))
     THEN /\ Enter(s, IF Now(s).what = "exp" THEN "exp" ELSE "waiting")
          /\ Status(s, "running")
          /\ UNCHANGED lock
     ELSE Fail(s)
  /\ UNCHANGED <<runners, children, failures, todo, hashed, used, sections, search, world>>

\* main of run_exp.py would be past the configuration of this stage.
Passed(s) == next[s] > Now(s).of

\* A step of run_exp.run with the configuration of this stage
Experiment(s) ==
  /\ at[s] = "exp"
  /\ next[s] \in DOMAIN Work[s] /\ ~Passed(s)
  /\ Step(s)
  /\ UNCHANGED suites

\* run_exp.run has returned: the configuration of this stage is recorded.
Experimented(s) ==
  /\ at[s] = "exp"
  /\ Passed(s)
  /\ todo' = [todo EXCEPT ![s] = Tail(@)]
  /\ Enter(s, "next")
  /\ UNCHANGED <<vars, hashed, used, files, search, world>>

\* gpu_command: the lock
Acquire(s) ==
  /\ at[s] = "waiting"
  /\ lock = None
  /\ lock' = s
  /\ Enter(s, "locked")
  /\ UNCHANGED <<runners, children, failures, todo, hashed, used, files, search, world>>

\* on_ready once the GPU is free, then the process; a candidate that goes to
\* the full scorer is the one that was evaluated.
Ready(s) ==
  /\ at[s] = "locked"
  /\ ~Busy
  /\ IF Verified(s) /\ (Program[s] = "S05" /\ Now(s).what = "full" => Now(s).of \notin changed)
     THEN /\ children' = children \cup {ChildOf(s, "command", FALSE)}
          /\ Enter(s, "running")
          /\ UNCHANGED <<lock, state>>
     ELSE Fail(s) /\ UNCHANGED children
  /\ UNCHANGED <<runners, failures, todo, hashed, used, sections, search, world>>

\* The process has ended: gpu_command gives the lock back and returns.
Ended(s) ==
  /\ at[s] = "running"
  /\ Running(s) = {}
  /\ lock' = None
  /\ Enter(s, "ended")
  /\ UNCHANGED <<runners, children, failures, todo, hashed, used, files, search, world>>

\* Its result is taken up, outside the lock. A candidate of S05 becomes a row
\* if its file is what it reported; what fasteval.py measured goes to the log.
Recorded(s) ==
  LET candidate == Program[s] = "S05" /\ Now(s).what = "fast"
      id == Cardinality(rows) + 1
  IN  /\ at[s] = "ended"
      /\ IF candidate /\ id \in changed
         THEN Fail(s) /\ UNCHANGED <<todo, rows, log>>
         ELSE /\ todo' = [todo EXCEPT ![s] = Tail(@)]
              /\ Enter(s, "next")
              /\ rows' = IF candidate
                         THEN rows \cup {[id |-> id, weights |-> Now(s).of, metrics |-> Metrics(land.fast, Now(s).of)]}
                         ELSE rows
              /\ log' = IF candidate \/ (Program[s] = "S03" /\ Now(s).what = "fast")
                        THEN (IF log = None THEN {} ELSE log) \cup {<<ThisRun(s), None>>}
                        ELSE log
              /\ UNCHANGED <<lock, state>>
      /\ UNCHANGED <<pc, next, ckpt, score, others, kills, started, children, failures, hashed, used, sections, round, shortlist, misread, winner, land, world>>

-----------------------------------------------------------------------------
(* What S05 does next, and how a suite ends *)

\* The points around the best candidates so far
Points(spec) ==
  UNION {{Refinement([i \in DOMAIN centers |-> centers[i].weights], spec[1], {r.weights : r \in rows})} :
         centers \in {RankScreen(rows, Margin, spec[2])}}

\* After the initial points each refinement, after the last the shortlist
Plan(s) ==
  /\ Program[s] = "S05" /\ at[s] = "next" /\ todo[s] = <<>>
  /\ round <= Len(Refinements)
  /\ round' = round + 1
  /\ IF round < Len(Refinements)
     THEN /\ \E points \in Points(Refinements[round + 1]) :
               todo' = [todo EXCEPT ![s] = [i \in DOMAIN points |-> Job("fast", points[i])]]
          /\ UNCHANGED shortlist
     ELSE \E chosen \in {Finalists(rows)} :
            /\ todo' = [todo EXCEPT ![s] = [i \in DOMAIN chosen |-> Job("full", chosen[i].id)]]
            /\ shortlist' = {r.id : r \in ToSet(chosen)}
  /\ UNCHANGED <<vars, at, hashed, used, files, rows, misread, winner, land, world>>

Confirmed == {[r EXCEPT !.metrics = Metrics(land.full, r.weights)] : r \in {r \in rows : r.id \in shortlist}}

\* Mutant: the winner is exported as it is.
ExportAnyway(s) ==
  LET best == SelectBest(Confirmed)
  IN  /\ Program[s] = "S05" /\ at[s] = "next" /\ todo[s] = <<>>
      /\ round > Len(Refinements)
      /\ winner' = IF best = {} THEN None ELSE (CHOOSE r \in best : TRUE).id
      /\ Enter(s, "appended")
      /\ sections' = sections \cup {s}
      /\ UNCHANGED <<vars, todo, state, hashed, used, rows, round, shortlist, misread, land, world>>

\* The best confirmed candidate, if there is one, is exported if its file is
\* still the one that was evaluated; then the section is appended.
Export(s) ==
  LET best == SelectBest(Confirmed)
  IN  /\ Program[s] = "S05" /\ at[s] = "next" /\ todo[s] = <<>>
      /\ round > Len(Refinements)
      /\ IF \E r \in best : r.id \in changed
         THEN Fail(s) /\ UNCHANGED <<sections, winner>>
         ELSE /\ winner' = IF best = {} THEN None ELSE (CHOOSE r \in best : TRUE).id
              /\ Enter(s, "appended")
              /\ sections' = sections \cup {s}
              /\ UNCHANGED <<lock, state>>
      /\ UNCHANGED <<runners, children, failures, todo, hashed, used, rows, round, shortlist, misread, land, world>>

\* S04 appends its section and is then "completed"; S03 the other way round.
AppendSection(s) ==
  /\ Program[s] = "S04" /\ at[s] = "next" /\ todo[s] = <<>>
  /\ Enter(s, "appended")
  /\ sections' = sections \cup {s}
  /\ UNCHANGED <<vars, todo, state, hashed, used, search, world>>

Complete(s) ==
  /\ \/ Program[s] # "S03" /\ at[s] = "appended" /\ Enter(s, "done")
     \/ Program[s] = "S03" /\ at[s] = "next" /\ todo[s] = <<>> /\ Enter(s, "completed")
  /\ Status(s, "completed")
  /\ UNCHANGED <<vars, todo, hashed, used, sections, search, world>>

AppendLast(s) ==
  /\ at[s] = "completed"
  /\ Enter(s, "done")
  /\ sections' = sections \cup {s}
  /\ UNCHANGED <<vars, todo, state, hashed, used, search, world>>

SuiteStep(s) ==
  \/ Check(s) \/ Create(s)
  \/ Request(s) \/ Experimented(s) \/ Acquire(s) \/ Ready(s) \/ Ended(s) \/ Recorded(s)
  \/ Export(s) \/ AppendSection(s) \/ Complete(s) \/ AppendLast(s)
  \/ Experiment(s)

-----------------------------------------------------------------------------
(* What happens to a suite *)

\* A process of a suite or of a runner loads its code and data.
Load(k) ==
  LET s == k.run[1]
      fast == s \in Suite /\ k.what = "command" /\ Program[s] = "S05" /\ Now(s).what = "fast"
      full == s \in Suite /\ k.what = "command" /\ Program[s] = "S05" /\ Now(s).what = "full"
  IN  /\ Allocate(k)
      /\ used' = IF fast \/ (s \in Suite /\ k.what = "train") THEN [used EXCEPT ![s] = @ \cup {source}] ELSE used
      /\ misread' = IF full /\ Now(s).of \in changed THEN misread \cup {Now(s).of} ELSE misread
      /\ UNCHANGED <<at, todo, hashed, files, rows, round, shortlist, winner, land, world>>

\* The suite fails: its process does (S05.py also when it finds an edit), or
\* its result is not what is expected, or an append to S_EXPERIMENTS.md fails.
SuiteFails(s) ==
  /\ at[s] \notin Ends \cup {"start", "checked"}
  /\ \/ Running(s) # {} /\ failures < MaxFailures /\ failures' = failures + 1
     \/ Program[s] = "S05" /\ ~Verified(s) /\ UNCHANGED failures
        /\ \E k \in Running(s) : ~k.memory /\ Now(s).what = "fast"
     \/ at[s] = "ended" /\ failures < MaxFailures /\ failures' = failures + 1
     \/ at[s] \in {"next", "completed"} /\ todo[s] = <<>>
        /\ (Program[s] = "S05" => round > Len(Refinements))
        /\ failures < MaxFailures /\ failures' = failures + 1
  /\ Fail(s)
  /\ children' = children \ Running(s)
  /\ UNCHANGED <<runners, todo, hashed, used, sections, search, world>>

\* The suite alone is killed: its state file stays as it is.
KillSuite(s) ==
  /\ at[s] \notin Ends
  /\ kills < MaxKills /\ kills' = kills + 1
  /\ lock' = IF lock = s THEN None ELSE lock
  /\ Enter(s, "killed")
  /\ UNCHANGED <<pc, next, ckpt, score, log, others, started, children, failures, todo, hashed, used, files, search, world>>

\* A tracked file is edited; the checkpoint of a candidate is changed.
Edit ==
  /\ tampers < MaxTampers /\ tampers' = tampers + 1
  /\ source' = source + 1
  /\ UNCHANGED <<vars, at, todo, hashed, used, files, search, changed>>

Candidates ==
  {r.id : r \in rows} \cup
  {Cardinality(rows) + 1 : s \in {s \in Suite : /\ Program[s] = "S05" /\ at[s] \in {"running", "ended"}
                                              /\ Now(s).what = "fast" /\ Running(s) = {}}}

Change ==
  /\ tampers < MaxTampers /\ tampers' = tampers + 1
  /\ \E id \in Candidates : changed' = changed \cup {id}
  /\ UNCHANGED <<vars, at, todo, hashed, used, files, search, source>>

-----------------------------------------------------------------------------
(* The queue with its suites *)

RunnerStep(r) == r \notin Suite /\ Step(r) /\ UNCHANGED suites
ProcessStep == \E k \in children : Load(k) \/ (Exit(k) /\ UNCHANGED suites)
OtherStep == (OtherStarts \/ OtherEnds) /\ UNCHANGED suites

SuitesFinished ==
  /\ \A r \in Runner : IF r \in Suite THEN at[r] \in Ends ELSE pc[r] \in {"done", "failed"}
  /\ UNCHANGED everything

SuiteNext ==
  \/ \E s \in Suite : SuiteStep(s) \/ Plan(s) \/ SuiteFails(s) \/ KillSuite(s)
  \/ \E r \in Runner : RunnerStep(r)
  \/ \E r \in Runner \ Suite : (ChildFails(r) \/ KillRunner(r)) /\ UNCHANGED suites
  \/ ProcessStep
  \/ OtherStep
  \/ Edit \/ Change
  \/ SuitesFinished

\* A step of Plan, told by the variable that no other step changes
Planning(s) ==
  /\ Program[s] = "S05" /\ at[s] = "next" /\ todo[s] = <<>>
  /\ round <= Len(Refinements)
  /\ round' = round + 1

\* Programs are scheduled, processes end, and other jobs leave the GPU.
SuiteSpec ==
  /\ SuiteInit /\ [][SuiteNext]_everything
  /\ \A r \in Runner : WF_everything(RunnerStep(r))
  /\ \A s \in Suite : WF_everything(SuiteStep(s)) /\ WF_round(Planning(s))
  /\ WF_everything(ProcessStep)
  /\ WF_everything(OtherEnds /\ UNCHANGED suites)

-----------------------------------------------------------------------------
(* Properties *)

\* A suite that has started owns its state file to its end (or until it is killed),
\* whatever is launched besides it, and "completed" of S04 and S05 means that the section
\* is in S_EXPERIMENTS.md (S04_run.py 65-74, 142-144; S05_run.py 82-99, 163-166).
StateFileTellsTruth ==
  \A s \in Suite :
    at[s] \notin {"off", "start", "checked", "refused", "killed"} =>
      /\ state[Program[s]] # None /\ state[Program[s]].by = s
      /\ at[s] = "failed" => state[Program[s]].status = "failed"
      /\ Program[s] # "S03" /\ state[Program[s]].status = "completed" => s \in sections

\* S04 and S05 complete only if all they trained was made from the files that
\* they hashed at their launch, also when a file is edited while they wait for
\* the GPU, and S05 exports only what the full scorer has read as it was
\* evaluated (S04_run.py 80-109; S05.py 122-127; S05_run.py 117-157).
CompletedIsOfItsSources ==
  \A s \in Suite :
    at[s] = "done" /\ Program[s] # "S03" => used[s] \subseteq {hashed[s]} /\ winner \notin misread

\* If the fast evaluation agrees with the full one, the shortlist loses
\* nothing: the export is the best of all candidates that meet the threshold,
\* and there is none only if none does (S05_run.py 39-43, 136-162).
SearchLosesNothing ==
  \A s \in Suite :
    Program[s] = "S05" /\ at[s] = "done" /\ land.fast = land.full =>
      winner = LET best == SelectBest(rows) IN IF best = {} THEN None ELSE (CHOOSE r \in best : TRUE).id

\* A suite fails by a fault only: the search of S05 never meets its own checks
\* of the budget and of repeated candidates (S05_run.py 113-115, 130-135).
OnlyFaultsFail ==
  \A s \in Suite : at[s] = "failed" => failures + tampers > 0

\* Every program comes to its end, whoever waits for the lock or the GPU and
\* whatever fails or is killed (run_exp.py 36-44, 71-76).
EveryoneEnds ==
  \A r \in Runner : <>[](IF r \in Suite THEN at[r] \in Ends ELSE pc[r] \in {"done", "failed"})
=============================================================================

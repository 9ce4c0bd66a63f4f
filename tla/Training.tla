------------------------------- MODULE Training -------------------------------
(***************************************************************************)
(* The unlearning programs of student_docker: unlearn_remap.py, its          *)
(* descendants S06, S08, S09, S11 and S12, the NegGrad baseline S01, and the *)
(* drivers S02, S03 and S04 around their reference loops.  Each is a process *)
(* that sets up loaders, trainable parameters and schedules from a           *)
(* configuration, runs Steps optimizer updates, and saves checkpoints; it    *)
(* may be killed anywhere and launched again.                                *)
(*                                                                         *)
(* Simplifications:                                                        *)
(*  - a parameter group is known by how many optimizer updates and pulls to  *)
(*    its anchor it has had; a checkpoint, by the versions it mixes;         *)
(*  - gradients are small integer vectors, and what clipping scales is not   *)
(*    kept; a learning rate is its progress from the base to the final rate; *)
(*  - a loader is its transform, the random generator it shuffles with, and  *)
(*    the number of the permutation it reads;                                *)
(*  - one iteration of a loop is one step: nothing else sees a program's     *)
(*    memory, and its files change at most once per iteration.               *)
(***************************************************************************)
EXTENDS Integers, Sequences, FiniteSets

CONSTANTS
  Steps,       \* train.steps
  Batches,     \* per split: batches of one epoch
  Gradients,   \* pairs of a retain and a forget gradient a batch may give
  CkaValues,   \* batch CKA values; CkaFloor is the floor, NoCka a NaN
  CkaFloor, NoCka,
  EmaUnit,     \* S11's ema_beta is a number of 1/EmaUnit
  Configs,     \* configurations that are run
  MaxLaunches, \* bound on launches of one configuration
  None

Split == {"retain", "forget"}
Generator == {"g", "global"}

\* front and back are transformer blocks, the last one ends in fc2; B is the
\* low-rank path of FOS-11, which is no part of the state dictionary.
Group == {"rest", "front", "back", "fc2", "norm", "head"}
Param == Group \cup {"B"}
Untouched == [updates |-> 0, pulls |-> 0]

ASSUME StepsAssumption == Steps \in Nat \ {0}
ASSUME BatchesAssumption == Batches \in [Split -> Nat \ {0}]
ASSUME GradientsAssumption == Gradients \subseteq (Int \X Int) \X (Int \X Int)
ASSUME CkaAssumption == CkaValues \subseteq Nat /\ CkaFloor \in Nat
ASSUME NoCkaAssumption == EmaUnit \in Nat \ {0} /\ NoCka \in Nat /\ NoCka > EmaUnit * CkaFloor

Drivers == {"S02", "S03", "S04"}
Scripts == Drivers \cup {"remap", "S01", "S06", "S08", "S09", "S11", "S12"}

\* What a script reads of its configuration; a switch it does not read is off.
\* Only S09 has the cosine tail, only S11 the triggered one, only remap has
\* FOS-11, only S02 selects blocks; S01 combines its two gradients by itself.
\* norm is the square of min_retain_norm, or not positive if that is not.
ASSUME ConfigsAssumption ==
  \A c \in Configs :
    /\ c.script \in Scripts
    /\ c.l2sp \in {"off", "on", "excessive"}
    /\ c.tail \in Int /\ c.blocks \in Int /\ c.norm \in Int
    /\ c.beta \in Int /\ c.off \in Int
    /\ c.trainHead \in BOOLEAN /\ c.ckaLoss \in BOOLEAN
    /\ c.schedule = "cosine_tail" => c.script = "S09"
    /\ c.schedule = "state_tail" => c.script = "S11"
    /\ c.project => c.script # "S01"
    /\ c.l2sp # "off" => c.script \in {"remap", "S09", "S11", "S12"}
    /\ c.ema => c.script \in Scripts \ (Drivers \cup {"S01"})
    /\ c.fos => c.script = "remap"
    /\ c.freeze => c.script \notin {"S03", "S04"}
    /\ c.select # "none" => c.script = "S02"

File == ({"main", "last", "ema"} \X {0}) \cup ({"step"} \X (1..Steps))
Main == <<"main", 0>>

\* A set of versions of every group, as a checkpoint mixes them.
Mixture == [Group -> SUBSET [updates : Nat, pulls : Nat]]
Status == {"preparing", "selected_training_pending", "training", "failed",
           "smoke_completed", "training_completed_evaluation_pending"}
ASSUME NoneAssumption == None \notin Int \cup Status \cup [of : Mixture, finite : BOOLEAN, by : Nat]

VARIABLES
  cfg,    \* the configuration
  launch, \* number of launches so far
  pc,     \* "idle", "setup", "loop", "saving", "ended", "failed", "killed" or "refused"
  mem,    \* what the program has in memory (when it failed: had), or None
  files,  \* checkpoints on disk, by name
  report  \* status in the report of a driver, or None

vars == <<cfg, launch, pc, mem, files, report>>

Completed == {"smoke_completed", "training_completed_evaluation_pending"}

-----------------------------------------------------------------------------
(* Building blocks: each takes and returns the memory of a program *)

Fail(s) == [s EXCEPT !.error = TRUE]

\* set_seed, load_mo and get_loaders: both loaders share the generator g.
Fresh ==
  [step |-> 0, error |-> FALSE, finite |-> TRUE,
   loader |-> [x \in Split |-> [transform |-> IF x = "retain" THEN "train" ELSE "forget", gen |-> "g"]],
   drawn |-> [g \in Generator |-> 0],
   reading |-> [x \in Split |-> [order |-> 0, left |-> 0]],
   params |-> {}, weights |-> [p \in Param |-> Untouched], ema |-> [g \in Group |-> {}],
   lr |-> [num |-> 0, den |-> 1], trigger |-> None, off |-> <<>>, cka |-> None,
   grad |-> [r |-> <<0, 0>>, out |-> <<0, 0>>, scale |-> 1],
   seen |-> 0, tailEma |-> [g \in Group |-> {}], tailCount |-> 0,
   mean |-> [g \in Group |-> {}], meanCount |-> 0, pending |-> None, saved |-> 0]

\* A replaced loader has no generator: it shuffles with the global one.
RetainClean(s) ==
  IF cfg.clean THEN [s EXCEPT !.loader["retain"] = [transform |-> "eval", gen |-> "global"]] ELSE s
RetainAug(s) ==
  IF cfg.aug THEN [s EXCEPT !.loader["retain"] = [transform |-> "strong", gen |-> "global"]] ELSE s
ForgetAug(s) ==
  IF cfg.faug THEN [s EXCEPT !.loader["forget"] = [transform |-> "strong", gen |-> "global"]] ELSE s
BatchRetain(s) ==
  IF cfg.batch
  THEN [s EXCEPT !.loader["retain"] =
         [transform |-> IF cfg.clean THEN "eval" ELSE @.transform, gen |-> "global"]]
  ELSE s

LastBlocks(k) == {g \in {"front"} : k >= 2} \cup {g \in {"back", "fc2"} : k >= 1}

\* set_trainable(model, k, freeze_norm)
Trainable(k, frozen) ==
  IF k < 0 THEN Group ELSE LastBlocks(k) \cup {"head"} \cup {g \in {"norm"} : ~frozen}

\* getattr(torch.optim, ...) after set_trainable
Blocks(s) ==
  IF cfg.optimizer = "unknown" THEN Fail(s) ELSE [s EXCEPT !.params = Trainable(cfg.blocks, cfg.freeze)]
BlocksOrNorm(s) ==
  IF cfg.optimizer = "unknown" THEN Fail(s) ELSE [s EXCEPT !.params = Trainable(cfg.blocks, FALSE)]

\* fos11_basis and attach_fos11: only the low-rank path is trained.
AttachFos(s) == [s EXCEPT !.params = {"B"}]

StateDict(s) == [g \in Group |-> {s.weights[g]}]
Both(x, y) == [g \in Group |-> x[g] \cup y[g]]

\* The average starts from the weights before the first update.
Averaging(s) == IF cfg.ema THEN [s EXCEPT !.ema = StateDict(s)] ELSE s

\* One batch of a split; an exhausted iterator starts a new permutation.
Draw(x, s) ==
  LET g == s.loader[x].gen
  IN  IF s.reading[x].left > 0
      THEN [s EXCEPT !.reading[x].left = @ - 1]
      ELSE [s EXCEPT !.reading[x] = [order |-> s.drawn[g], left |-> Batches[x] - 1],
                     !.drawn[g] = @ + 1]

\* next(retain_it), next(forget_it)
NextBatches(s) == Draw("forget", Draw("retain", s))

Dot(u, v) == u[1] * v[1] + u[2] * v[2]
Times(a, u) == <<a * u[1], a * u[2]>>
Plus(u, v) == <<u[1] + v[1], u[2] + v[2]>>

\* The forget gradient without its component against the retain gradient,
\* plus the retain gradient; multiplied by |r|^2 to stay in the integers.
Projected(r, f) == Plus(Times(Dot(r, r), Plus(r, f)), Times(-Dot(r, f), r))

\* Mutant: the retain gradient loses its component against the forget gradient.
GradientSwapped(s, in) ==
  LET r == in.grads[1]
      f == in.grads[2]
  IN  [s EXCEPT !.grad = IF cfg.project /\ Dot(r, f) < 0
                         THEN [r |-> r, out |-> Projected(f, r), scale |-> Dot(f, f)]
                         ELSE [r |-> r, out |-> Plus(r, f), scale |-> 1]]

\* loss.backward(), or grad_project: both losses backward, then the projection
Gradient(s, in) ==
  LET r == in.grads[1]
      f == in.grads[2]
  IN  [s EXCEPT !.grad = IF cfg.project /\ Dot(r, f) < 0
                         THEN [r |-> r, out |-> Projected(r, f), scale |-> Dot(r, r)]
                         ELSE [r |-> r, out |-> Plus(r, f), scale |-> 1]]

Changed(s, ps, field) == [p \in Param |-> IF p \in ps THEN [s.weights[p] EXCEPT ![field] = @ + 1]
                                                      ELSE s.weights[p]]

\* opt.step(); the weights may leave the finite numbers for good.
OptStep(s, in) ==
  [s EXCEPT !.weights = Changed(s, s.params, "updates"), !.finite = @ /\ ~in.diverges]

\* proximal_l2sp_step: lr * strength is checked when it is first used.
Pull(s) ==
  CASE cfg.l2sp = "off" -> s
    [] cfg.l2sp = "on" -> [s EXCEPT !.weights = Changed(s, s.params, "pulls")]
    [] cfg.l2sp = "excessive" -> Fail(s)

\* S09 adds the pull to the gradient instead, whatever its strength.
GradientPull(s) ==
  IF cfg.l2sp = "off" THEN s ELSE [s EXCEPT !.weights = Changed(s, s.params, "pulls")]

\* ema[k].mul_(decay).add_(v): over the whole state dictionary
Average(s) == IF cfg.ema THEN [s EXCEPT !.ema = Both(@, StateDict(s))] ELSE s

\* cka_target_floor of S06 and S08 refuses a floor out of range and a NaN; it
\* is called if lambda_cka_f is not zero.
CkaFloorGuard(s) == IF cfg.ckaLoss => s.finite /\ cfg.floor # "invalid" THEN s ELSE Fail(s)

Progress(n, m) == [num |-> n, den |-> m]

\* cosine_tail_lr(step, ...): validated before the loop, set at every step
CosineTailCheck(s) ==
  IF \/ cfg.schedule \notin {"constant", "cosine_tail"}
     \/ cfg.schedule = "cosine_tail" /\ ~(Steps >= 2 /\ cfg.tail \in 0..(Steps - 2) /\ cfg.falling)
  THEN Fail(s) ELSE s

\* Mutant: the tail is one update too long.
CosineTailLate(s) ==
  IF cfg.schedule = "cosine_tail" /\ s.step > cfg.tail
  THEN [s EXCEPT !.lr = Progress(s.step - cfg.tail, Steps - cfg.tail)] ELSE s

CosineTail(s) ==
  IF cfg.schedule = "cosine_tail" /\ s.step > cfg.tail
  THEN [s EXCEPT !.lr = Progress(s.step - cfg.tail, Steps - 1 - cfg.tail)] ELSE s

\* StateTriggeredCosineTail.__init__, and the floor it is given
StateTailCheck(s) ==
  IF cfg.schedule = "state_tail" /\
     ~(/\ cfg.floor = "set" /\ Steps >= 2 /\ cfg.tail \in 0..(Steps - 2) /\ cfg.window >= 1 /\ cfg.falling
       /\ cfg.off \in 0..100 /\ cfg.beta \in 0..(EmaUnit - 1))
  THEN Fail(s) ELSE s

Newest(q, n) == IF Len(q) > n THEN Tail(q) ELSE q

\* Values and averages of the batch CKA are whole numbers of 1/EmaUnit^Steps.
Scaled(v) == v * EmaUnit^Steps
\* Without a CKA loss the trigger is fed z_f_u.sum() * 0 instead.
RawCka(s, in) == Scaled(CASE ~s.finite -> NoCka
                          [] s.finite /\ cfg.ckaLoss -> in.cka
                          [] OTHER -> 0)
CkaEma(s, in) ==
  IF s.cka = None THEN RawCka(s, in)
  ELSE (cfg.beta * s.cka + (EmaUnit - cfg.beta) * RawCka(s, in)) \div EmaUnit
OffHistory(s, in) == Newest(Append(s.off, RawCka(s, in) <= Scaled(CkaFloor)), cfg.window)

\* The average is at the floor, or the share of the window that is there (in
\* percent) reaches off_ratio_threshold; not in the last update.
Saturated(s, in) ==
  LET off == OffHistory(s, in)
  IN  /\ s.step >= cfg.tail /\ s.step < Steps - 1
      /\ Len(off) = cfg.window
      /\ \/ CkaEma(s, in) <= Scaled(CkaFloor)
         \/ 100 * Cardinality({i \in DOMAIN off : off[i]}) >= cfg.off * Len(off)

\* The memory after update() with the tail begun at step at, or not begun
Tailing(s, in, at) ==
  [s EXCEPT !.cka = CkaEma(s, in), !.off = OffHistory(s, in), !.trigger = at,
            !.lr = IF at = None THEN Progress(0, 1) ELSE Progress(s.step - at, Steps - 1 - at)]

\* Mutant: the tail begins again whenever its condition holds again.
StateTailAgain(s, in) ==
  IF cfg.schedule # "state_tail" THEN s
  ELSE Tailing(s, in, IF Saturated(s, in) THEN s.step ELSE s.trigger)

\* StateTriggeredCosineTail.update
StateTail(s, in) ==
  IF cfg.schedule # "state_tail" THEN s
  ELSE Tailing(s, in, IF s.trigger = None /\ Saturated(s, in) THEN s.step ELSE s.trigger)

AnchorParams(s) == IF cfg.scope = "trainable" THEN s.params ELSE s.params \ {"norm", "head", "rest", "B"}
FisherFails(s) == cfg.scope = "unknown" \/ AnchorParams(s) = {}

\* estimate_diagonal_fisher starts an epoch of the retain loader; the global
\* generators are saved before it and restored after it, g is not.
Fisher(s) ==
  IF FisherFails(s) THEN Fail(s)
  ELSE IF s.loader["retain"].gen = "global" THEN s ELSE [s EXCEPT !.drawn["g"] = @ + 1]

EndIteration(s) == [s EXCEPT !.step = @ + 1]

-----------------------------------------------------------------------------
(* Hooks of the drivers *)

\* S02, gradient_ratio: the blocks with the largest ratios among those with
\* a reliable signal; the probe uses loaders and generators of its own.
Selections ==
  CASE cfg.select = "gradient_ratio" -> {b \in SUBSET {"front", "back"} : Cardinality(b) = cfg.blocks}
    [] cfg.select = "last" -> {LastBlocks(cfg.blocks) \ {"fc2"}}
    [] cfg.select = "head_only" -> {{}}
    [] OTHER -> {{"front", "back"}}
WithFc2(blocks) == IF "back" \in blocks THEN blocks \cup {"fc2"} ELSE blocks

\* apply_selection; the probe may find too few blocks with a signal.
Selected(s, in) ==
  IF \/ cfg.select = "gradient_ratio" /\ (cfg.blocks < 1 \/ ~in.signal)
     \/ cfg.select = "last" /\ cfg.blocks \notin 1..2
     \/ cfg.select = "head_only" /\ ~(cfg.freeze /\ cfg.trainHead)
     \/ cfg.select \notin {"gradient_ratio", "last", "head_only", "all"}
     \/ cfg.optimizer = "unknown"
  THEN Fail(s)
  ELSE [s EXCEPT !.params = CASE cfg.select = "all" -> Group
                              [] OTHER -> WithFc2(in.blocks) \cup {g \in {"head"} : cfg.trainHead}
                                                              \cup {g \in {"norm"} : ~cfg.freeze}]

\* TrajectoryAverages.__init__
WindowValid ==
  /\ cfg.start \in 1..Steps
  /\ Cardinality(cfg.means) >= 2
  /\ \A n \in cfg.means : n \in cfg.start..Steps
  /\ Steps \in cfg.means

\* TrajectoryAverages.observe, after update number step + 1
Observe(s) ==
  LET n == s.step + 1
      a == IF n < cfg.start THEN s
           ELSE [s EXCEPT !.tailEma = Both(@, StateDict(s)), !.tailCount = @ + 1]
      m == IF n \notin cfg.means THEN a
           ELSE [a EXCEPT !.mean = Both(@, StateDict(s)), !.meanCount = @ + 1]
  IN  IF n # s.seen + 1 \/ (n \in cfg.means /\ ~s.finite) THEN Fail(s) ELSE [m EXCEPT !.seen = n]

\* export: everything it checks before it saves the first output
ExportValid(s) ==
  /\ s.seen = Steps
  /\ s.tailCount = Steps - cfg.start + 1
  /\ s.meanCount = Cardinality(cfg.means)

\* SurgeryStep.__call__ with combine_gradients: a retain gradient below
\* min_retain_norm, which must be positive, is not projected against.
Surgery(s, in) ==
  LET r == in.grads[1]
      f == in.grads[2]
  IN  IF s.pending # None \/ s.step # s.seen \/ ~s.finite \/ cfg.norm <= 0 THEN Fail(s)
      ELSE [s EXCEPT !.pending = s.step + 1,
                     !.grad = IF cfg.project /\ Dot(r, r) >= cfg.norm /\ Dot(r, f) < 0
                              THEN [r |-> r, out |-> Projected(r, f), scale |-> Dot(r, r)]
                              ELSE [r |-> r, out |-> Plus(r, f), scale |-> 1]]

\* SurgeryStep.after_update
AfterUpdate(s) ==
  IF s.pending # s.step + 1 THEN Fail(s) ELSE [s EXCEPT !.pending = None, !.seen = s.step + 1]

-----------------------------------------------------------------------------
(* The programs: what each does before its loop, and in one iteration *)

RemapSetup(s) ==
  LET loaded == BatchRetain(ForgetAug(RetainAug(RetainClean(s))))
  IN  Averaging(IF cfg.fos THEN AttachFos(loaded) ELSE Blocks(loaded))

\* Mutant: the average takes up the weights before the pull.
RemapUpdateLatePull(s, in) == EndIteration(Pull(Average(OptStep(Gradient(NextBatches(s), in), in))))

RemapUpdate(s, in) == EndIteration(Average(Pull(OptStep(Gradient(NextBatches(s), in), in))))

S12Setup(s) == Averaging(Blocks(BatchRetain(ForgetAug(RetainAug(RetainClean(s))))))
S12Update(s, in) == EndIteration(Average(Pull(OptStep(Gradient(NextBatches(s), in), in))))

S11Setup(s) == Averaging(StateTailCheck(Blocks(BatchRetain(RetainAug(RetainClean(s))))))
S11Update(s, in) ==
  EndIteration(Average(Pull(OptStep(Gradient(StateTail(NextBatches(s), in), in), in))))

S09Setup(s) == Averaging(CosineTailCheck(Blocks(BatchRetain(RetainAug(RetainClean(s))))))
S09Update(s, in) ==
  EndIteration(Average(OptStep(GradientPull(Gradient(NextBatches(CosineTail(s)), in)), in)))

S08Setup(s) == Averaging(Fisher(Blocks(BatchRetain(RetainClean(s)))))
S08Update(s, in) == EndIteration(Average(OptStep(Gradient(CkaFloorGuard(NextBatches(s)), in), in)))

S06Setup(s) == Averaging(Blocks(BatchRetain(RetainClean(s))))
S06Update(s, in) == EndIteration(Average(OptStep(Gradient(CkaFloorGuard(NextBatches(s)), in), in)))

\* NegGrad over whole epochs of the forget loader: both iterators start
\* again with each epoch, the retain iterator first.
S01Setup(s) == IF cfg.optimizer # "AdamW" THEN Fail(s) ELSE [s EXCEPT !.params = Group]
S01Update(s, in) ==
  LET epoch == IF s.reading["forget"].left = 0 THEN [s EXCEPT !.reading["retain"].left = 0] ELSE s
      grad == [r |-> in.grads[1], out |-> Plus(in.grads[1], Times(-1, in.grads[2])), scale |-> 1]
  IN  EndIteration(OptStep([NextBatches(epoch) EXCEPT !.grad = grad], in))

S02Setup(s, in) == Selected(s, in)
S02Update(s, in) == EndIteration(OptStep(Gradient(NextBatches(s), in), in))

S03Setup(s) == IF WindowValid THEN BlocksOrNorm(s) ELSE Fail(s)
S03Update(s, in) == EndIteration(Observe(OptStep(Gradient(NextBatches(s), in), in)))

S04Setup(s) == BlocksOrNorm(s)
S04Update(s, in) == EndIteration(AfterUpdate(OptStep(Surgery(NextBatches(s), in), in)))

Setup(in) ==
  CASE cfg.script = "remap" -> RemapSetup(mem) [] cfg.script = "S01" -> S01Setup(mem)
    [] cfg.script = "S02" -> S02Setup(mem, in) [] cfg.script = "S03" -> S03Setup(mem)
    [] cfg.script = "S04" -> S04Setup(mem)     [] cfg.script = "S06" -> S06Setup(mem)
    [] cfg.script = "S08" -> S08Setup(mem)     [] cfg.script = "S09" -> S09Setup(mem)
    [] cfg.script = "S11" -> S11Setup(mem)     [] cfg.script = "S12" -> S12Setup(mem)

Updated(in) ==
  CASE cfg.script = "remap" -> RemapUpdate(mem, in) [] cfg.script = "S01" -> S01Update(mem, in)
    [] cfg.script = "S02" -> S02Update(mem, in)     [] cfg.script = "S03" -> S03Update(mem, in)
    [] cfg.script = "S04" -> S04Update(mem, in)     [] cfg.script = "S06" -> S06Update(mem, in)
    [] cfg.script = "S08" -> S08Update(mem, in)     [] cfg.script = "S09" -> S09Update(mem, in)
    [] cfg.script = "S11" -> S11Update(mem, in)     [] cfg.script = "S12" -> S12Update(mem, in)

-----------------------------------------------------------------------------
(* Files *)

\* What a program saves after its loop, in order.
Outputs == IF cfg.script = "S03" THEN <<Main, <<"last", 0>>, <<"ema", 0>>>> ELSE <<Main>>

Checkpoint(s, of) == [of |-> of, finite |-> s.finite, by |-> launch]

\* A file whose writer stopped half-way: no state dictionary can be read.
Torn == [of |-> [g \in Group |-> {}], finite |-> TRUE, by |-> launch]

\* fold_fos11: fc2 takes up the low-rank path.
Fold(s) == IF cfg.fos THEN [s EXCEPT !.weights["fc2"] = s.weights["B"]] ELSE s

\* The weights saved under the name x: the average, if there is one.
Saved(x, s) ==
  CASE x = <<"ema", 0>> -> s.tailEma
    [] x = Main /\ cfg.script = "S03" -> s.mean
    [] x = Main /\ cfg.script # "S03" /\ cfg.ema -> s.ema
    [] OTHER -> StateDict(Fold(s))

\* A checkpoint taken during training; n updates are complete.
Due(n) == CASE cfg.script = "remap" -> cfg.every > 0 /\ n - 1 >= cfg.from /\ n % cfg.every = 0
            [] cfg.script = "S03" -> n \in cfg.means
            [] OTHER -> FALSE
Snapshot(s) == IF cfg.ema THEN s.ema ELSE StateDict(s)

\* Mutant: weights that are not finite are saved too.
SavableAnyway(x) ==
  /\ cfg.script \in {"S03", "S04"} => files[x] = None
  /\ cfg.script = "S03" /\ mem.saved = 0 => ExportValid(mem)

\* export and save_checkpoint of S03 and S04: finite weights, a new file
Savable(x) ==
  /\ cfg.script \in {"S03", "S04"} => mem.finite /\ files[x] = None
  /\ cfg.script = "S03" /\ mem.saved = 0 => ExportValid(mem)

\* The files that are being written while a program runs.
Writing ==
  CASE pc = "loop" /\ Due(mem.step + 1) -> {<<"step", mem.step + 1>>}
    [] pc = "saving" /\ mem.saved < Len(Outputs) -> {Outputs[mem.saved + 1]}
    [] OTHER -> {}

-----------------------------------------------------------------------------
(* Actions *)

Init ==
  /\ cfg \in Configs
  /\ launch = 0 /\ pc = "idle" /\ mem = None
  /\ files = [x \in File |-> None]
  /\ report = None

Running == pc \in {"setup", "loop", "saving"}

\* A driver refuses to start when any of its artifacts is there.
Preserved == cfg.script \in Drivers /\ (report # None \/ \E x \in File : files[x] # None)

Launch ==
  /\ ~Running /\ launch < MaxLaunches
  /\ launch' = launch + 1
  /\ IF Preserved
     THEN pc' = "refused" /\ mem' = None /\ UNCHANGED report
     ELSE /\ pc' = "setup" /\ mem' = Fresh
          /\ report' = IF cfg.script \in Drivers THEN "preparing" ELSE None
  /\ UNCHANGED <<cfg, files>>

\* An exception: a driver puts it into its report.
Abort(s) ==
  /\ pc' = "failed" /\ mem' = s
  /\ report' = IF cfg.script \in Drivers THEN "failed" ELSE report

Prepare ==
  /\ pc = "setup"
  /\ \E in \in [blocks : Selections, signal : BOOLEAN] :
       LET s == Setup(in)
       IN  IF s.error THEN Abort(s)
           ELSE /\ pc' = "loop" /\ mem' = s
                /\ report' = IF cfg.script = "S02" THEN "selected_training_pending" ELSE report
  /\ UNCHANGED <<cfg, launch, files>>

BatchCka == IF cfg.script = "S11" THEN CkaValues ELSE {CkaFloor}

\* One iteration: batches, gradients, update, averages, checkpoint, report
Update ==
  /\ pc = "loop"
  /\ \E in \in [grads : Gradients, cka : BatchCka, diverges : BOOLEAN] :
       LET s == Updated(in)
       IN  IF s.error THEN Abort(s) /\ UNCHANGED files
           ELSE /\ mem' = s
                /\ pc' = IF s.step = Steps THEN "saving" ELSE "loop"
                /\ files' = IF Due(s.step)
                            THEN [files EXCEPT ![<<"step", s.step>>] = Checkpoint(s, Snapshot(s))]
                            ELSE files
                /\ report' = IF cfg.script \in {"S03", "S04"} THEN "training" ELSE report
  /\ UNCHANGED <<cfg, launch>>

Save ==
  /\ pc = "saving" /\ mem.saved < Len(Outputs)
  /\ LET x == Outputs[mem.saved + 1]
     IN  IF Savable(x)
         THEN /\ files' = [files EXCEPT ![x] = Checkpoint(mem, Saved(x, mem))]
              /\ mem' = [mem EXCEPT !.saved = @ + 1]
              /\ UNCHANGED <<pc, report>>
         ELSE Abort(mem) /\ UNCHANGED files
  /\ UNCHANGED <<cfg, launch>>

Conclude ==
  /\ pc = "saving" /\ mem.saved = Len(Outputs)
  /\ pc' = "ended" /\ mem' = None
  /\ report' = CASE cfg.script \notin Drivers -> None
                 [] cfg.script = "S04" /\ cfg.smoke -> "smoke_completed"
                 [] OTHER -> "training_completed_evaluation_pending"
  /\ UNCHANGED <<cfg, launch, files>>

\* torch.save raises half-way, on a full disk for instance.
SaveFails ==
  /\ Running
  /\ \E x \in Writing : files' = [files EXCEPT ![x] = Torn]
  /\ Abort(mem)
  /\ UNCHANGED <<cfg, launch>>

\* The process is killed, perhaps while it writes a file.
Kill ==
  /\ Running
  /\ pc' = "killed" /\ mem' = None
  /\ UNCHANGED files \/ \E x \in Writing : files' = [files EXCEPT ![x] = Torn]
  /\ UNCHANGED <<cfg, launch, report>>

Finished == ~Running /\ launch = MaxLaunches /\ UNCHANGED vars

Next == Launch \/ Prepare \/ Update \/ Save \/ Conclude \/ SaveFails \/ Kill \/ Finished

Spec == Init /\ [][Next]_vars

-----------------------------------------------------------------------------
(* Properties *)

\* The groups a configuration asks to train.
Declared ==
  IF cfg.fos THEN {"fc2"}
  ELSE IF cfg.select = "head_only" THEN {"head"}
  ELSE IF cfg.script = "S01" \/ cfg.blocks < 0 \/ cfg.select = "all" THEN Group
  ELSE {g \in {"head"} : cfg.select = "none" \/ cfg.trainHead} \cup {g \in {"norm"} : ~cfg.freeze}
       \cup {g \in {"back", "fc2"} : cfg.blocks > 0} \cup {g \in {"front"} : cfg.blocks > 1}

\* A group after n updates, each with its pull where there is an anchor.
After(n) == [updates |-> n, pulls |-> IF cfg.l2sp = "off" THEN 0 ELSE n]

\* The numbers of updates whose weights the file x is to average.
UpTo(n) == IF cfg.ema THEN 0..n ELSE {n}
Window(x) ==
  CASE x = <<"ema", 0>> -> cfg.start..Steps
    [] x = <<"last", 0>> -> {Steps}
    [] x = Main /\ cfg.script = "S03" -> cfg.means
    [] x = Main /\ cfg.script # "S03" -> UpTo(Steps)
    [] OTHER -> UpTo(x[2])

Whole(x) == files[x] # None /\ \A g \in Group : files[x].of[g] # {}

\* Every complete checkpoint mixes exactly the weights its name and its
\* configuration stand for: in the groups to train those after the updates of
\* its window, pulls included, and M_o's in the others (the snapshots, the
\* averages and the trainable parameters of every program, whatever was
\* killed before).  Not so with FOS-11: see FosCandidatesAreTrained; and not
\* claimed of S02's gradient_ratio, whose blocks only the probe knows.
CheckpointIsItsStep ==
  \A x \in File :
    Whole(x) /\ ~(cfg.fos /\ (cfg.ema \/ x # Main)) /\ cfg.select # "gradient_ratio" =>
      \A g \in Group : files[x].of[g] = IF g \in Declared THEN {After(n) : n \in Window(x)} ELSE {Untouched}

\* A periodic checkpoint is a candidate of its training: it holds the weights
\* trained so far (unlearn_remap.py:424-425), also with FOS-11, for which
\* configs/fos11a.yaml:33-35 asks for them.  They are saved before the fold,
\* hence equal to M_o, as configs/fos11b.yaml:2 notes where it turns them off.
FosCandidatesAreTrained ==
  \A x \in File : Whole(x) /\ cfg.fos /\ x # Main => files[x].of["fc2"] = {After(x[2])}

\* With the projection on, no update direction has less of the retain
\* gradient in it than the retain gradient itself: what the forget objective
\* adds never opposes it (grad_project; combine_gradients above its norm).
ForgetNeverOpposesRetain ==
  LET g == mem.grad
  IN  mem # None /\ cfg.project /\ (cfg.script = "S04" => Dot(g.r, g.r) >= cfg.norm) =>
        Dot(g.r, g.out) >= g.scale * Dot(g.r, g.r)

\* The last update of a run whose learning rate has begun to fall uses the
\* final rate exactly (S09's cosine tail, S11's tail from wherever it began).
TailReachesFinal ==
  pc = "saving" /\ (cfg.schedule = "cosine_tail" \/ mem.trigger # None) => mem.lr.num = mem.lr.den

\* Within one training the learning rate never rises again, however the batch
\* CKA goes back over the floor (cosine_tail_lr, StateTriggeredCosineTail).
LearningRateFalls ==
  [][pc = "loop" /\ mem' # None => mem'.lr.num * mem.lr.den >= mem.lr.num * mem'.lr.den]_vars

\* A driver that reports completion has saved every output, complete, finite
\* for S03 and S04, from this run, with every snapshot of its trajectory.
ReportTellsTruth ==
  report \in Completed =>
    \A x \in File :
      x \in {Outputs[i] : i \in DOMAIN Outputs} \/ (cfg.script = "S03" /\ x \in {"step"} \X cfg.means) =>
        Whole(x) /\ files[x].by = 1 /\ (cfg.script # "S02" => files[x].finite)

=============================================================================

---------------------------- MODULE TrainingProofs ----------------------------
(***************************************************************************)
(* For every number of steps, every set of gradients, batch CKAs and         *)
(* configurations, and every number of launches: a projected update never    *)
(* opposes the retain gradient; a learning rate that has begun to fall does  *)
(* not rise again and ends at its final value; every checkpoint mixes the    *)
(* versions of the weights that its name stands for; and a driver reports    *)
(* completion only of outputs that are whole, finite and of its one run.     *)
(***************************************************************************)
EXTENDS Training, TLAPS

Fields ==
  {"step", "error", "finite", "loader", "drawn", "reading", "params", "weights", "ema", "lr", "trigger",
   "off", "cka", "grad", "seen", "tailEma", "tailCount", "mean", "meanCount", "pending", "saved"}

IsMemory(s) == DOMAIN s = Fields

\* What a building block that is about neither gradients nor rates leaves alone
Keeps(s, t) ==
  /\ IsMemory(t)
  /\ t.step = s.step /\ t.grad = s.grad /\ t.lr = s.lr /\ t.trigger = s.trigger

-----------------------------------------------------------------------------
(* Building blocks *)

\* Keeping is transitive: a program is a chain of building blocks.
LEMMA KeepsThrough ==
  ASSUME NEW s, NEW t, NEW u, Keeps(s, t), Keeps(t, u)
  PROVE  Keeps(s, u)
  BY DEF Keeps

\* The loaders and the trainable parameters touch neither gradients nor rates.
LEMMA SetupBlocks ==
  ASSUME NEW s, IsMemory(s)
  PROVE  /\ Keeps(s, s)
         /\ Keeps(s, RetainClean(s)) /\ Keeps(s, RetainAug(s))
         /\ Keeps(s, ForgetAug(s)) /\ Keeps(s, BatchRetain(s))
         /\ Keeps(s, Blocks(s)) /\ Keeps(s, BlocksOrNorm(s)) /\ Keeps(s, AttachFos(s))
         /\ Keeps(s, Averaging(s)) /\ Keeps(s, Fisher(s))
<1>1. Keeps(s, s) /\ Keeps(s, Fail(s))
  BY DEF Keeps, IsMemory, Fields, Fail
<1>2. Keeps(s, RetainClean(s)) /\ Keeps(s, RetainAug(s)) /\ Keeps(s, ForgetAug(s))
  BY DEF Keeps, IsMemory, Fields, RetainClean, RetainAug, ForgetAug
<1>3. Keeps(s, BatchRetain(s))
  BY DEF Keeps, IsMemory, Fields, BatchRetain
<1>4. Keeps(s, Blocks(s)) /\ Keeps(s, BlocksOrNorm(s)) /\ Keeps(s, AttachFos(s))
  BY <1>1 DEF Keeps, IsMemory, Fields, Blocks, BlocksOrNorm, AttachFos
<1>5. Keeps(s, Averaging(s))
  BY DEF Keeps, IsMemory, Fields, Averaging
<1>6. Keeps(s, Fisher(s))
  BY <1>1 DEF Keeps, IsMemory, Fields, Fisher
<1> QED
  BY <1>1, <1>2, <1>3, <1>4, <1>5, <1>6

\* So do the checks of the schedules, and they fail what has no valid tail.
LEMMA ScheduleChecks ==
  ASSUME NEW s, IsMemory(s)
  PROVE  /\ Keeps(s, CosineTailCheck(s)) /\ Keeps(s, StateTailCheck(s))
         /\ ~CosineTailCheck(s).error /\ cfg.schedule = "cosine_tail" => cfg.tail \in 0..(Steps - 2)
         /\ ~StateTailCheck(s).error /\ cfg.schedule = "state_tail" => cfg.tail \in 0..(Steps - 2)
<1>1. Keeps(s, s) /\ Keeps(s, Fail(s)) /\ Fail(s).error
  BY DEF Keeps, IsMemory, Fields, Fail
<1>2. Keeps(s, CosineTailCheck(s)) /\ Keeps(s, StateTailCheck(s))
  BY <1>1 DEF CosineTailCheck, StateTailCheck
<1>3. ~CosineTailCheck(s).error /\ cfg.schedule = "cosine_tail" => cfg.tail \in 0..(Steps - 2)
  BY <1>1 DEF CosineTailCheck
<1>4. ~StateTailCheck(s).error /\ cfg.schedule = "state_tail" => cfg.tail \in 0..(Steps - 2)
  BY <1>1 DEF StateTailCheck
<1> QED
  BY <1>2, <1>3, <1>4

\* So do the blocks of an iteration that draw, update, pull and average.
LEMMA UpdateBlocks ==
  ASSUME NEW s, IsMemory(s), NEW in
  PROVE  /\ Keeps(s, NextBatches(s)) /\ Keeps(s, OptStep(s, in)) /\ Keeps(s, Average(s))
         /\ Keeps(s, GradientPull(s)) /\ Keeps(s, CkaFloorGuard(s))
         /\ Keeps(s, Observe(s)) /\ Keeps(s, AfterUpdate(s))
         /\ cfg.l2sp \in {"off", "on", "excessive"} => Keeps(s, Pull(s))
<1>1. Keeps(s, s) /\ Keeps(s, Fail(s))
  BY DEF Keeps, IsMemory, Fields, Fail
<1>2. ASSUME NEW x, NEW t, IsMemory(t)
      PROVE  Keeps(t, Draw(x, t))
  BY <1>2 DEF Keeps, IsMemory, Fields, Draw
<1>3. Keeps(s, NextBatches(s))
  <2>1. Keeps(s, Draw("retain", s))
    BY <1>2
  <2>2. Keeps(Draw("retain", s), Draw("forget", Draw("retain", s)))
    BY <1>2, <2>1 DEF Keeps
  <2> QED
    BY <2>1, <2>2, KeepsThrough DEF NextBatches
<1>4. Keeps(s, OptStep(s, in)) /\ Keeps(s, Average(s)) /\ Keeps(s, GradientPull(s))
  BY <1>1 DEF Keeps, IsMemory, Fields, OptStep, Average, GradientPull
<1>5. Keeps(s, CkaFloorGuard(s))
  BY <1>1 DEF CkaFloorGuard
<1>6. Keeps(s, Observe(s))
  BY <1>1 DEF Keeps, IsMemory, Fields, Observe
<1>7. Keeps(s, AfterUpdate(s))
  BY <1>1 DEF Keeps, IsMemory, Fields, AfterUpdate
<1>8. cfg.l2sp \in {"off", "on", "excessive"} => Keeps(s, Pull(s))
  BY <1>1 DEF Keeps, IsMemory, Fields, Pull
<1> QED
  BY <1>3, <1>4, <1>5, <1>6, <1>7, <1>8

-----------------------------------------------------------------------------
(* Gradients *)

\* What the property claims of a recorded gradient.
GradientOK(g) ==
  cfg.project /\ (cfg.script = "S04" => Dot(g.r, g.r) >= cfg.norm) => Dot(g.r, g.out) >= g.scale * Dot(g.r, g.r)

\* Everything but the gradient
KeepsRate(s, t) == IsMemory(t) /\ t.step = s.step /\ t.lr = s.lr /\ t.trigger = s.trigger

\* Added as it is, a forget gradient that does not oppose r takes nothing of
\* r away; a projected one adds exactly nothing along r.
LEMMA SumAndProjection ==
  ASSUME NEW r \in Int \X Int, NEW f \in Int \X Int
  PROVE  /\ Dot(r, f) >= 0 => Dot(r, Plus(r, f)) >= Dot(r, r)
         /\ Dot(r, Projected(r, f)) = Dot(r, r) * Dot(r, r)
<1> PICK a \in Int, b \in Int : r = <<a, b>>
  OBVIOUS
<1> PICK c \in Int, d \in Int : f = <<c, d>>
  OBVIOUS
<1>1. Dot(r, r) = a * a + b * b /\ Dot(r, f) = a * c + b * d
  BY DEF Dot
<1>2. Plus(r, f) = <<a + c, b + d>>
  BY DEF Plus
<1>3. Dot(r, Plus(r, f)) = Dot(r, r) + Dot(r, f)
  <2>1. Dot(r, Plus(r, f)) = a * (a + c) + b * (b + d)
    BY <1>2 DEF Dot
  <2> QED
    BY <2>1, <1>1
<1>4. Dot(r, r) \in Int /\ Dot(r, f) \in Int
  BY <1>1
<1>5. Dot(r, Projected(r, f)) = Dot(r, r) * Dot(r, r)
  <2> DEFINE R == a * a + b * b
  <2> DEFINE D == a * c + b * d
  <2>1. Projected(r, f) = <<R * (a + c) + (-D) * a, R * (b + d) + (-D) * b>>
    BY <1>1, <1>2 DEF Projected, Times, Plus
  <2>2. Dot(r, Projected(r, f)) = a * (R * (a + c) + (-D) * a) + b * (R * (b + d) + (-D) * b)
    BY <2>1 DEF Dot
  <2>3. a * (R * (a + c) + (-D) * a) + b * (R * (b + d) + (-D) * b) = R * R
    OBVIOUS
  <2> QED
    BY <1>1, <2>2, <2>3
<1> QED
  BY <1>3, <1>4, <1>5

\* The two combinations of S04 and of all the others keep the rate, and what
\* they record, or fail to record, is as claimed.
LEMMA Combinations ==
  ASSUME NEW s, IsMemory(s), GradientOK(s.grad), NEW in, in.grads \in (Int \X Int) \X (Int \X Int)
  PROVE  /\ KeepsRate(s, Gradient(s, in)) /\ GradientOK(Gradient(s, in).grad)
         /\ KeepsRate(s, Surgery(s, in)) /\ (cfg.script = "S04" => GradientOK(Surgery(s, in).grad))
<1> DEFINE r == in.grads[1]
<1> DEFINE f == in.grads[2]
<1>1. r \in Int \X Int /\ f \in Int \X Int
  OBVIOUS
<1>2. Dot(r, r) \in Int /\ Dot(r, f) \in Int /\ Dot(r, Plus(r, f)) \in Int
  BY <1>1 DEF Dot, Plus
<1>3. /\ Dot(r, f) >= 0 => Dot(r, Plus(r, f)) >= Dot(r, r)
      /\ Dot(r, Projected(r, f)) = Dot(r, r) * Dot(r, r)
  BY <1>1, SumAndProjection
<1> DEFINE projected == [r |-> r, out |-> Projected(r, f), scale |-> Dot(r, r)]
<1> DEFINE sum == [r |-> r, out |-> Plus(r, f), scale |-> 1]
<1>4. GradientOK(projected)
  BY <1>2, <1>3 DEF GradientOK
<1>5. Dot(r, f) >= 0 => GradientOK(sum)
  BY <1>2, <1>3 DEF GradientOK
<1>6. ~cfg.project \/ (cfg.script = "S04" /\ ~(Dot(r, r) >= cfg.norm)) => GradientOK(sum)
  BY DEF GradientOK
<1> HIDE DEF r, f, projected, sum
<1>7. KeepsRate(s, Gradient(s, in)) /\ GradientOK(Gradient(s, in).grad)
  <2>1. Gradient(s, in) = [s EXCEPT !.grad = IF cfg.project /\ Dot(r, f) < 0 THEN projected ELSE sum]
    BY DEF Gradient, r, f, projected, sum
  <2>2. Gradient(s, in).grad = IF cfg.project /\ Dot(r, f) < 0 THEN projected ELSE sum
    BY <2>1 DEF IsMemory, Fields
  <2>3. KeepsRate(s, Gradient(s, in))
    BY <2>1 DEF KeepsRate, IsMemory, Fields
  <2> QED
    BY <1>2, <1>4, <1>5, <1>6, <2>2, <2>3
<1>8. KeepsRate(s, Surgery(s, in)) /\ (cfg.script = "S04" => GradientOK(Surgery(s, in).grad))
  <2> DEFINE g == IF cfg.project /\ Dot(r, r) >= cfg.norm /\ Dot(r, f) < 0 THEN projected ELSE sum
  <2>1. Surgery(s, in) = IF s.pending # None \/ s.step # s.seen \/ ~s.finite \/ cfg.norm <= 0 THEN Fail(s)
                         ELSE [s EXCEPT !.pending = s.step + 1, !.grad = g]
    BY DEF Surgery, r, f, projected, sum
  <2>2. cfg.script = "S04" => GradientOK(g)
    <3>1. CASE Dot(r, f) >= 0
      BY <1>2, <1>5, <3>1
    <3>2. CASE Dot(r, f) < 0 /\ cfg.project /\ Dot(r, r) >= cfg.norm
      BY <1>4, <3>2
    <3>3. CASE ~cfg.project
      BY <1>6, <3>3
    <3>4. CASE cfg.script = "S04" /\ ~(Dot(r, r) >= cfg.norm)
      BY <1>6, <3>4
    <3> QED
      BY <1>2, <3>1, <3>2, <3>3, <3>4
  <2> HIDE DEF g
  <2>3. KeepsRate(s, Fail(s)) /\ GradientOK(Fail(s).grad)
    BY DEF Fail, KeepsRate, IsMemory, Fields
  <2>4. KeepsRate(s, [s EXCEPT !.pending = s.step + 1, !.grad = g]) /\ [s EXCEPT !.pending = s.step + 1, !.grad = g].grad = g
    BY DEF KeepsRate, IsMemory, Fields
  <2> QED
    BY <2>1, <2>2, <2>3, <2>4
<1> QED
  BY <1>7, <1>8

-----------------------------------------------------------------------------
(* Learning rates *)

TailValid == cfg.schedule \in {"cosine_tail", "state_tail"} => cfg.tail \in 0..(Steps - 2)

\* The rate of iteration n, when the triggered tail has begun at t or not yet.
RateOf(n, t) ==
  IF cfg.schedule = "cosine_tail" /\ n > cfg.tail THEN Progress(n - cfg.tail, Steps - 1 - cfg.tail)
  ELSE IF t # None THEN Progress(n - t, Steps - 1 - t)
  ELSE Progress(0, 1)

\* The memory s carries the rate of iteration n.
RateAt(s, n) ==
  /\ s.step \in Nat
  /\ s.trigger # None => cfg.schedule = "state_tail" /\ s.trigger \in 0..(Steps - 2) /\ s.trigger <= n
  /\ s.lr = RateOf(n, s.trigger)

\* t is the memory in the iteration that has begun with s.
Within(s, t) ==
  /\ IsMemory(t) /\ t.step = s.step /\ GradientOK(t.grad)
  /\ RateAt(t, s.step)
  /\ s.trigger # None => t.trigger = s.trigger

\* A program without a schedule begins its iteration with the same rate.
LEMMA RateStays ==
  ASSUME NEW s, IsMemory(s), GradientOK(s.grad), RateAt(s, s.step - 1),
         cfg.schedule \notin {"cosine_tail", "state_tail"}
  PROVE  Within(s, s)
  BY DEF Within, RateAt, RateOf

\* cosine_tail_lr gives every iteration its rate.
LEMMA CosineTailRate ==
  ASSUME NEW s, IsMemory(s), GradientOK(s.grad), RateAt(s, s.step - 1),
         TailValid, cfg.tail \in Int, cfg.schedule # "state_tail"
  PROVE  Within(s, CosineTail(s))
<1> DEFINE new == [s EXCEPT !.lr = Progress(s.step - cfg.tail, Steps - 1 - cfg.tail)]
<1>1. IsMemory(new) /\ new.step = s.step /\ new.grad = s.grad /\ new.trigger = s.trigger
      /\ new.lr = Progress(s.step - cfg.tail, Steps - 1 - cfg.tail)
  BY DEF IsMemory, Fields
<1>2. CosineTail(s) = IF cfg.schedule = "cosine_tail" /\ s.step > cfg.tail THEN new ELSE s
  BY DEF CosineTail
<1> HIDE DEF new
<1>3. CASE cfg.schedule = "cosine_tail" /\ s.step > cfg.tail
  BY <1>1, <1>2, <1>3 DEF Within, RateAt, RateOf
<1>4. CASE ~(cfg.schedule = "cosine_tail" /\ s.step > cfg.tail)
  BY <1>2, <1>4 DEF Within, RateAt, RateOf
<1> QED
  BY <1>3, <1>4

\* StateTriggeredCosineTail.update gives every iteration its rate, and never
\* takes a trigger back.
LEMMA StateTailRate ==
  ASSUME NEW s, IsMemory(s), GradientOK(s.grad), RateAt(s, s.step - 1), NEW in,
         TailValid, cfg.tail \in Int, cfg.schedule # "cosine_tail"
  PROVE  Within(s, StateTail(s, in))
<1>1. CASE cfg.schedule # "state_tail"
  BY <1>1, RateStays DEF StateTail
<1>2. CASE cfg.schedule = "state_tail"
  <2> DEFINE now == s.trigger = None /\ Saturated(s, in)
  <2> DEFINE at == IF now THEN s.step ELSE s.trigger
  <2>1. /\ StateTail(s, in) = Tailing(s, in, at)
        /\ now => s.trigger = None /\ s.step >= cfg.tail /\ s.step < Steps - 1
        /\ (now => at = s.step) /\ (~now => at = s.trigger)
    <3>1. StateTail(s, in) = Tailing(s, in, at)
      BY <1>2, Zenon DEF StateTail
    <3>2. now => s.trigger = None /\ s.step >= cfg.tail /\ s.step < Steps - 1
      BY Zenon DEF Saturated
    <3>3. (now => at = s.step) /\ (~now => at = s.trigger)
      BY Zenon
    <3> QED
      BY <3>1, <3>2, <3>3
  <2> HIDE DEF now, at
  <2>2. /\ IsMemory(StateTail(s, in)) /\ StateTail(s, in).step = s.step /\ StateTail(s, in).grad = s.grad
        /\ StateTail(s, in).trigger = at
        /\ StateTail(s, in).lr = IF at = None THEN Progress(0, 1) ELSE Progress(s.step - at, Steps - 1 - at)
    BY <2>1 DEF Tailing, IsMemory, Fields
  <2>3. at # None => at \in 0..(Steps - 2) /\ at <= s.step
    BY <1>2, <2>1, StepsAssumption DEF RateAt, TailValid
  <2>4. s.trigger # None => at = s.trigger
    BY <2>1
  <2> QED
    BY <1>2, <2>2, <2>3, <2>4 DEF Within, RateAt, RateOf
<1> QED
  BY <1>1, <1>2

\* From one iteration to the next the rate does not rise.
LEMMA RateFalls ==
  ASSUME NEW s, RateAt(s, s.step - 1), NEW t, RateAt(t, s.step), s.trigger # None => t.trigger = s.trigger,
         TailValid, cfg.tail \in Int
  PROVE  t.lr.num * s.lr.den >= s.lr.num * t.lr.den
<1>1. CASE cfg.schedule = "cosine_tail"
  <2>1. s.trigger = None /\ t.trigger = None
    BY <1>1 DEF RateAt
  <2>2. CASE s.step - 1 > cfg.tail
    BY <1>1, <2>1, <2>2, StepsAssumption DEF RateAt, RateOf, Progress, TailValid
  <2>3. CASE ~(s.step - 1 > cfg.tail)
    BY <1>1, <2>1, <2>3, StepsAssumption DEF RateAt, RateOf, Progress, TailValid
  <2> QED
    BY <2>2, <2>3
<1>2. CASE cfg.schedule # "cosine_tail" /\ s.trigger # None
  BY <1>2, StepsAssumption DEF RateAt, RateOf, Progress
<1>3. CASE cfg.schedule # "cosine_tail" /\ s.trigger = None
  BY <1>3, StepsAssumption DEF RateAt, RateOf, Progress
<1> QED
  BY <1>1, <1>2, <1>3

-----------------------------------------------------------------------------
(* One iteration of each program *)

\* A gradient of a batch is a pair of integer vectors.
LEMMA GradientsArePairs ==
  ASSUME NEW in, in.grads \in Gradients
  PROVE  in.grads \in (Int \X Int) \X (Int \X Int)
  BY GradientsAssumption

\* What keeps all that the properties are about stays within the iteration.
LEMMA WithinKept ==
  ASSUME NEW s, NEW t, NEW u, Within(s, t), Keeps(t, u)
  PROVE  Within(s, u)
  BY DEF Within, Keeps, RateAt

\* Every block of an iteration stays within it.
LEMMA WithinBlocks ==
  ASSUME NEW s, NEW t, Within(s, t), NEW in, in.grads \in Gradients, cfg.l2sp \in {"off", "on", "excessive"}
  PROVE  /\ Within(s, NextBatches(t)) /\ Within(s, OptStep(t, in)) /\ Within(s, Average(t))
         /\ Within(s, GradientPull(t)) /\ Within(s, CkaFloorGuard(t)) /\ Within(s, Pull(t))
         /\ Within(s, Observe(t)) /\ Within(s, AfterUpdate(t))
         /\ Within(s, Gradient(t, in))
         /\ cfg.script = "S04" => Within(s, Surgery(t, in))
<1>1. IsMemory(t) /\ GradientOK(t.grad)
  BY DEF Within
<1>2. /\ KeepsRate(t, Gradient(t, in)) /\ GradientOK(Gradient(t, in).grad)
      /\ KeepsRate(t, Surgery(t, in)) /\ (cfg.script = "S04" => GradientOK(Surgery(t, in).grad))
  BY <1>1, GradientsArePairs, Combinations
<1>3. Within(s, Gradient(t, in)) /\ (cfg.script = "S04" => Within(s, Surgery(t, in)))
  BY <1>2 DEF KeepsRate, Within, RateAt
<1> QED
  BY <1>1, <1>3, UpdateBlocks, WithinKept

\* What a program relies on in the configurations it is given
ConfigOK ==
  /\ cfg.script \in Scripts
  /\ cfg.l2sp \in {"off", "on", "excessive"}
  /\ cfg.tail \in Int /\ cfg.blocks \in Int
  /\ cfg.schedule = "cosine_tail" => cfg.script = "S09"
  /\ cfg.schedule = "state_tail" => cfg.script = "S11"
  /\ cfg.project => cfg.script # "S01"
  /\ cfg.l2sp # "off" => cfg.script \in {"remap", "S09", "S11", "S12"}
  /\ cfg.ema => cfg.script \in Scripts \ (Drivers \cup {"S01"})
  /\ cfg.fos => cfg.script = "remap"
  /\ cfg.freeze => cfg.script \notin {"S03", "S04"}
  /\ cfg.select # "none" => cfg.script = "S02"

\* After an iteration of any program: one step more, and the rate of that
\* iteration, which has not risen.
LEMMA Iteration ==
  ASSUME ConfigOK, TailValid, IsMemory(mem), GradientOK(mem.grad), RateAt(mem, mem.step - 1),
         NEW in, in.grads \in Gradients
  PROVE  /\ IsMemory(Updated(in)) /\ GradientOK(Updated(in).grad)
         /\ Updated(in).step = mem.step + 1
         /\ RateAt(Updated(in), mem.step)
         /\ mem.trigger # None => Updated(in).trigger = mem.trigger
<1> DEFINE s == mem
<1>l. cfg.l2sp \in {"off", "on", "excessive"}
  BY DEF ConfigOK
<1>0. cfg.script \notin {"S09", "S11"} => Within(s, s)
  BY RateStays DEF ConfigOK
<1>1. \A t : Within(s, t) =>
        /\ IsMemory(EndIteration(t)) /\ GradientOK(EndIteration(t).grad)
        /\ EndIteration(t).step = s.step + 1
        /\ RateAt(EndIteration(t), s.step)
        /\ s.trigger # None => EndIteration(t).trigger = s.trigger
  <2> TAKE t
  <2> HAVE Within(s, t)
  <2> DEFINE u == EndIteration(t)
  <2>1. IsMemory(u) /\ u.step = t.step + 1 /\ u.grad = t.grad /\ u.lr = t.lr /\ u.trigger = t.trigger
    BY DEF EndIteration, Within, IsMemory, Fields
  <2> HIDE DEF u
  <2> QED
    BY <2>1 DEF Within, RateAt, u
<1>2. ASSUME NEW t, Within(s, t)
      PROVE  /\ Within(s, NextBatches(t)) /\ Within(s, OptStep(t, in)) /\ Within(s, Average(t))
             /\ Within(s, GradientPull(t)) /\ Within(s, CkaFloorGuard(t)) /\ Within(s, Pull(t))
             /\ Within(s, Observe(t)) /\ Within(s, AfterUpdate(t)) /\ Within(s, Gradient(t, in))
             /\ cfg.script = "S04" => Within(s, Surgery(t, in))
  BY <1>l, <1>2, WithinBlocks
<1>3. cfg.script = "remap" => \E t : Within(s, t) /\ Updated(in) = EndIteration(t)
  <2>1. cfg.script = "remap" => Within(s, Average(Pull(OptStep(Gradient(NextBatches(s), in), in))))
    BY <1>0, <1>2
  <2> QED
    BY <2>1 DEF Updated, RemapUpdate
<1>4. cfg.script = "S12" => \E t : Within(s, t) /\ Updated(in) = EndIteration(t)
  <2>1. cfg.script = "S12" => Within(s, Average(Pull(OptStep(Gradient(NextBatches(s), in), in))))
    BY <1>0, <1>2
  <2> QED
    BY <2>1 DEF Updated, S12Update
<1>5. cfg.script \in {"S06", "S08"} => \E t : Within(s, t) /\ Updated(in) = EndIteration(t)
  <2>1. cfg.script \in {"S06", "S08"} => Within(s, Average(OptStep(Gradient(CkaFloorGuard(NextBatches(s)), in), in)))
    BY <1>0, <1>2
  <2> QED
    BY <2>1 DEF Updated, S06Update, S08Update
<1>6. cfg.script = "S02" => \E t : Within(s, t) /\ Updated(in) = EndIteration(t)
  <2>1. cfg.script = "S02" => Within(s, OptStep(Gradient(NextBatches(s), in), in))
    BY <1>0, <1>2
  <2> QED
    BY <2>1 DEF Updated, S02Update
<1>7. cfg.script = "S03" => \E t : Within(s, t) /\ Updated(in) = EndIteration(t)
  <2>1. cfg.script = "S03" => Within(s, Observe(OptStep(Gradient(NextBatches(s), in), in)))
    BY <1>0, <1>2
  <2> QED
    BY <2>1 DEF Updated, S03Update
<1>8. cfg.script = "S04" => \E t : Within(s, t) /\ Updated(in) = EndIteration(t)
  <2>1. cfg.script = "S04" => Within(s, AfterUpdate(OptStep(Surgery(NextBatches(s), in), in)))
    BY <1>0, <1>2
  <2> QED
    BY <2>1 DEF Updated, S04Update
<1>9. cfg.script = "S09" => \E t : Within(s, t) /\ Updated(in) = EndIteration(t)
  <2>1. cfg.script = "S09" => Within(s, CosineTail(s))
    BY CosineTailRate DEF ConfigOK
  <2>2. cfg.script = "S09" => Within(s, Average(OptStep(GradientPull(Gradient(NextBatches(CosineTail(s)), in)), in)))
    BY <1>2, <2>1
  <2> QED
    BY <2>2 DEF Updated, S09Update
<1>10. cfg.script = "S11" => \E t : Within(s, t) /\ Updated(in) = EndIteration(t)
  <2> DEFINE n == NextBatches(s)
  <2>1. Keeps(s, n)
    BY UpdateBlocks
  <2>2. IsMemory(n) /\ GradientOK(n.grad) /\ RateAt(n, n.step - 1)
    BY <2>1 DEF Keeps, RateAt
  <2>3. cfg.script = "S11" => Within(n, StateTail(n, in))
    BY <2>2, StateTailRate DEF ConfigOK
  <2>4. cfg.script = "S11" => Within(s, StateTail(n, in))
    BY <2>1, <2>3 DEF Keeps, Within
  <2>5. cfg.script = "S11" => Within(s, Average(Pull(OptStep(Gradient(StateTail(n, in), in), in))))
    BY <1>2, <2>4
  <2> QED
    BY <2>5 DEF Updated, S11Update
<1>11. cfg.script = "S01" => \E t : Within(s, t) /\ Updated(in) = EndIteration(t)
  <2> SUFFICES ASSUME cfg.script = "S01" PROVE \E t : Within(s, t) /\ Updated(in) = EndIteration(t)
    OBVIOUS
  <2> DEFINE epoch == IF s.reading["forget"].left = 0 THEN [s EXCEPT !.reading["retain"].left = 0] ELSE s
  <2> DEFINE grad == [r |-> in.grads[1], out |-> Plus(in.grads[1], Times(-1, in.grads[2])), scale |-> 1]
  <2> DEFINE n == NextBatches(epoch)
  <2>1. Keeps(s, epoch)
    BY DEF Keeps, IsMemory, Fields
  <2>2. Within(s, n)
    BY <1>0, <1>2, <2>1, WithinKept
  <2>3. Updated(in) = EndIteration(OptStep([n EXCEPT !.grad = grad], in))
    BY DEF Updated, S01Update
  <2>4. ~cfg.project
    BY DEF ConfigOK
  <2> HIDE DEF n, grad
  <2>5. Within(s, [n EXCEPT !.grad = grad])
    BY <2>2, <2>4 DEF Within, RateAt, GradientOK, IsMemory, Fields
  <2> QED
    BY <1>2, <2>3, <2>5
<1> QED
  BY <1>1, <1>3, <1>4, <1>5, <1>6, <1>7, <1>8, <1>9, <1>10, <1>11 DEF ConfigOK, Scripts, Drivers

-----------------------------------------------------------------------------
(* The inductive invariant *)

\* A program between its set-up and its end has a memory, and whatever memory
\* is left after an exception still holds the last gradient.
MemoryInv ==
  mem # None \/ pc \in {"setup", "loop", "saving"} => IsMemory(mem) /\ GradientOK(mem.grad)

\* A rate is due only in a loop that has been entered with a valid tail.
RateInv ==
  /\ pc = "setup" => mem.step = 0 /\ mem.trigger = None /\ mem.lr = Progress(0, 1) /\ mem.error = FALSE
  /\ pc \in {"loop", "saving"} => TailValid /\ RateAt(mem, mem.step - 1)
  /\ pc = "saving" => mem.step = Steps

IInv == ConfigOK /\ MemoryInv /\ RateInv

\* The set-up leaves gradients and rates as they are, and gives up when the
\* tail is not valid.
LEMMA SettingUp ==
  ASSUME ConfigOK, IsMemory(mem), NEW in
  PROVE  /\ Keeps(mem, Setup(in))
         /\ ~Setup(in).error => TailValid
<1>1. ASSUME NEW s, IsMemory(s)
      PROVE  Averaging(s).error = s.error
  BY <1>1 DEF Averaging, IsMemory, Fields
<1>2. ASSUME NEW s, Keeps(mem, s)
      PROVE  /\ Keeps(mem, RetainClean(s)) /\ Keeps(mem, RetainAug(s)) /\ Keeps(mem, ForgetAug(s))
             /\ Keeps(mem, BatchRetain(s)) /\ Keeps(mem, Blocks(s)) /\ Keeps(mem, BlocksOrNorm(s))
             /\ Keeps(mem, AttachFos(s)) /\ Keeps(mem, Averaging(s)) /\ Keeps(mem, Fisher(s))
             /\ Keeps(mem, CosineTailCheck(s)) /\ Keeps(mem, StateTailCheck(s))
  <2>1. IsMemory(s)
    BY <1>2 DEF Keeps
  <2> QED
    BY <1>2, <2>1, SetupBlocks, ScheduleChecks, KeepsThrough
<1>3. Keeps(mem, mem) /\ Keeps(mem, Fail(mem))
  BY DEF Keeps, IsMemory, Fields, Fail
<1>4. CASE cfg.script = "remap"
  <2>1. Keeps(mem, RemapSetup(mem))
    BY <1>2, <1>3 DEF RemapSetup
  <2> QED
    BY <1>4, <2>1 DEF Setup, ConfigOK, TailValid
<1>5. CASE cfg.script \in {"S12", "S08", "S06"}
  <2>1. Keeps(mem, S12Setup(mem)) /\ Keeps(mem, S08Setup(mem)) /\ Keeps(mem, S06Setup(mem))
    BY <1>2, <1>3 DEF S12Setup, S08Setup, S06Setup
  <2> QED
    BY <1>5, <2>1 DEF Setup, ConfigOK, TailValid
<1>6. CASE cfg.script \in {"S01", "S02", "S03", "S04"}
  <2>1. Keeps(mem, S01Setup(mem))
    BY <1>3 DEF S01Setup, Keeps, IsMemory, Fields
  <2>2. Keeps(mem, S02Setup(mem, in))
    BY <1>3 DEF S02Setup, Selected, Keeps, IsMemory, Fields
  <2>3. Keeps(mem, S03Setup(mem)) /\ Keeps(mem, S04Setup(mem))
    BY <1>2, <1>3 DEF S03Setup, S04Setup
  <2> QED
    BY <1>6, <2>1, <2>2, <2>3 DEF Setup, ConfigOK, TailValid
<1>7. CASE cfg.script = "S09"
  <2> DEFINE s == Blocks(BatchRetain(RetainAug(RetainClean(mem))))
  <2>1. Keeps(mem, s) /\ Keeps(mem, CosineTailCheck(s)) /\ Keeps(mem, Averaging(CosineTailCheck(s)))
    BY <1>2, <1>3
  <2>2. IsMemory(s) /\ IsMemory(CosineTailCheck(s))
    BY <2>1 DEF Keeps
  <2>3. ~CosineTailCheck(s).error => TailValid
    BY <1>7, <2>2, ScheduleChecks DEF TailValid, ConfigOK
  <2>4. Setup(in) = Averaging(CosineTailCheck(s))
    BY <1>7 DEF Setup, S09Setup
  <2> QED
    BY <1>1, <2>1, <2>2, <2>3, <2>4
<1>8. CASE cfg.script = "S11"
  <2> DEFINE s == Blocks(BatchRetain(RetainAug(RetainClean(mem))))
  <2>1. Keeps(mem, s) /\ Keeps(mem, StateTailCheck(s)) /\ Keeps(mem, Averaging(StateTailCheck(s)))
    BY <1>2, <1>3
  <2>2. IsMemory(s) /\ IsMemory(StateTailCheck(s))
    BY <2>1 DEF Keeps
  <2>3. ~StateTailCheck(s).error => TailValid
    BY <1>8, <2>2, ScheduleChecks DEF TailValid, ConfigOK
  <2>4. Setup(in) = Averaging(StateTailCheck(s))
    BY <1>8 DEF Setup, S11Setup
  <2> QED
    BY <1>1, <2>1, <2>2, <2>3, <2>4
<1> QED
  BY <1>4, <1>5, <1>6, <1>7, <1>8 DEF ConfigOK, Scripts, Drivers

\* The invariant holds before the first launch.
LEMMA Initially == Init => IInv
  BY ConfigsAssumption DEF Init, IInv, ConfigOK, MemoryInv, RateInv

\* Every step keeps the invariant, and no step makes the rate rise.
LEMMA Inductive ==
  ASSUME IInv, [Next]_vars
  PROVE  /\ IInv'
         /\ pc = "loop" /\ mem' # None => mem'.lr.num * mem.lr.den >= mem.lr.num * mem'.lr.den
<1> DEFINE Falls == pc = "loop" /\ mem' # None => mem'.lr.num * mem.lr.den >= mem.lr.num * mem'.lr.den
<1> USE DEF Running
<1>0. ASSUME RateAt(mem, mem.step - 1), TailValid
      PROVE  mem.lr.num * mem.lr.den >= mem.lr.num * mem.lr.den
  BY <1>0, StepsAssumption DEF RateAt, RateOf, Progress, TailValid
<1>c. ConfigOK'
  <2>1. cfg' = cfg
    BY DEF Next, vars, Launch, Prepare, Update, Save, Conclude, SaveFails, Kill, Finished
  <2> QED
    BY <2>1 DEF IInv, ConfigOK
<1>s. ASSUME UNCHANGED mem
      PROVE  Falls
  BY <1>0, <1>s DEF IInv, RateInv
<1>1. CASE Launch
  <2>1. CASE Preserved
    BY <1>1, <2>1, <1>c DEF Launch, IInv, MemoryInv, RateInv
  <2>2. CASE ~Preserved
    <3>1. pc' = "setup" /\ mem' = Fresh
      BY <1>1, <2>2 DEF Launch
    <3>2. /\ IsMemory(Fresh) /\ Fresh.step = 0 /\ Fresh.trigger = None /\ Fresh.lr = Progress(0, 1)
          /\ Fresh.error = FALSE /\ Fresh.grad = [r |-> <<0, 0>>, out |-> <<0, 0>>, scale |-> 1]
      BY DEF Fresh, IsMemory, Fields, Progress
    <3>3. GradientOK(Fresh.grad)'
      <4>1. Dot(<<0, 0>>, <<0, 0>>) = 0
        BY DEF Dot
      <4> QED
        BY <3>2, <4>1 DEF GradientOK
    <3>4. MemoryInv'
      BY <3>1, <3>2, <3>3 DEF MemoryInv
    <3>5. RateInv'
      BY <3>1, <3>2 DEF RateInv
    <3> QED
      BY <1>1, <1>c, <3>4, <3>5 DEF Launch, IInv
  <2> QED
    BY <2>1, <2>2
<1>2. CASE Prepare
  <2>1. PICK in : /\ Setup(in).error => pc' = "failed" /\ mem' = Setup(in)
                  /\ ~Setup(in).error => pc' = "loop" /\ mem' = Setup(in)
    BY <1>2 DEF Prepare, Abort
  <2>2. mem' = Setup(in) /\ (pc' = "failed" \/ (pc' = "loop" /\ ~Setup(in).error))
    BY <2>1
  <2>3. pc = "setup" /\ cfg' = cfg
    BY <1>2 DEF Prepare
  <2>4. Keeps(mem, mem') /\ (pc' = "loop" => TailValid)
    BY <2>2, <2>3, SettingUp DEF IInv, MemoryInv
  <2>5. MemoryInv'
    BY <2>2, <2>3, <2>4 DEF IInv, MemoryInv, Keeps, GradientOK
  <2>6. RateInv'
    BY <2>2, <2>3, <2>4 DEF IInv, RateInv, Keeps, TailValid, RateAt, RateOf
  <2> QED
    BY <1>c, <2>3, <2>5, <2>6 DEF IInv
<1>3. CASE Update
  <2>1. PICK in \in [grads : Gradients, cka : BatchCka, diverges : BOOLEAN] :
          /\ mem' = Updated(in)
          /\ pc' = IF Updated(in).error THEN "failed" ELSE IF Updated(in).step = Steps THEN "saving" ELSE "loop"
    BY <1>3 DEF Update, Abort
  <2>2. pc = "loop" /\ cfg' = cfg
    BY <1>3 DEF Update
  <2>3. TailValid /\ IsMemory(mem) /\ GradientOK(mem.grad) /\ RateAt(mem, mem.step - 1) /\ ConfigOK
    BY <2>2 DEF IInv, MemoryInv, RateInv
  <2>4. /\ IsMemory(mem') /\ GradientOK(mem'.grad) /\ mem'.step = mem.step + 1
        /\ RateAt(mem', mem.step)
        /\ mem.trigger # None => mem'.trigger = mem.trigger
    BY <2>1, <2>3, Iteration
  <2>5. MemoryInv'
    BY <2>2, <2>4 DEF MemoryInv, GradientOK
  <2>6. RateInv'
    <3>1. mem'.step - 1 = mem.step
      BY <2>3, <2>4 DEF RateAt
    <3>2. RateAt(mem, mem.step - 1)' /\ TailValid'
      BY <2>2, <2>3, <2>4, <3>1 DEF RateAt, RateOf, TailValid
    <3> QED
      BY <2>1, <3>2 DEF RateInv
  <2>7. Falls
    BY <2>3, <2>4, RateFalls DEF ConfigOK
  <2> QED
    BY <1>c, <2>5, <2>6, <2>7 DEF IInv
<1>4. CASE Save
  <2>1. pc = "saving" /\ cfg' = cfg
    BY <1>4 DEF Save
  <2>2. \/ pc' = "saving" /\ mem' = [mem EXCEPT !.saved = @ + 1]
        \/ pc' = "failed" /\ mem' = mem
    BY <1>4 DEF Save, Abort
  <2>3. IsMemory(mem) /\ GradientOK(mem.grad) /\ TailValid /\ RateAt(mem, mem.step - 1) /\ mem.step = Steps
    BY <2>1 DEF IInv, MemoryInv, RateInv
  <2>4. Keeps(mem, mem')
    BY <2>2, <2>3 DEF Keeps, IsMemory, Fields
  <2>5. MemoryInv'
    BY <2>1, <2>3, <2>4 DEF MemoryInv, Keeps, GradientOK
  <2>6. RateInv'
    BY <2>1, <2>2, <2>3, <2>4 DEF RateInv, Keeps, TailValid, RateAt, RateOf
  <2> QED
    BY <1>c, <2>1, <2>5, <2>6 DEF IInv
<1>5. CASE Conclude
  BY <1>5, <1>c DEF Conclude, IInv, MemoryInv, RateInv
<1>6. CASE SaveFails
  <2>1. pc' = "failed" /\ mem' = mem /\ cfg' = cfg /\ pc \in {"setup", "loop", "saving"}
    BY <1>6 DEF SaveFails, Abort
  <2>2. MemoryInv' /\ RateInv'
    BY <2>1 DEF IInv, MemoryInv, RateInv, GradientOK
  <2> QED
    BY <1>c, <1>s, <2>1, <2>2 DEF IInv
<1>7. CASE Kill
  BY <1>7, <1>c DEF Kill, IInv, MemoryInv, RateInv
<1>8. CASE UNCHANGED vars
  BY <1>8, <1>c, <1>s DEF vars, IInv, MemoryInv, RateInv, GradientOK, TailValid, RateAt, RateOf
<1> QED
  BY <1>1, <1>2, <1>3, <1>4, <1>5, <1>6, <1>7, <1>8 DEF Next, Finished

\* The invariant holds throughout.
LEMMA Invariance == Spec => []IInv
<1>1. IInv /\ [Next]_vars => IInv'
  BY Inductive
<1> QED
  BY Initially, <1>1, PTL DEF Spec

-----------------------------------------------------------------------------
(* What the checkpoints are to be *)

\* The version of a group after n updates, where ps is what is trained
Version(ps, g, n) == IF g \in ps THEN After(n) ELSE Untouched

\* The versions a set Q of update numbers mixes
Mixed(ps, Q) == [g \in Group |-> {Version(ps, g, n) : n \in Q}]

\* The parameters of a program are those its configuration asks for.
ParamsOK(ps) ==
  /\ ps \subseteq Param
  /\ cfg.select # "gradient_ratio" => ps = IF cfg.fos THEN {"B"} ELSE Declared

\* The update numbers of a set that are complete after n updates
Past(Q, n) == {k \in Q : k <= n}

\* A memory between two iterations: the weights, and every average kept of
\* them, are those of the updates so far.
Trajectory(s) ==
  /\ ParamsOK(s.params) /\ s.finite \in BOOLEAN
  /\ s.weights = [p \in Param |-> Version(s.params, p, s.step)]
  /\ cfg.ema => s.ema = Mixed(s.params, 0..s.step)
  /\ cfg.script = "S03" =>
       /\ WindowValid
       /\ s.tailEma = Mixed(s.params, Past(cfg.start..Steps, s.step))
       /\ s.mean = Mixed(s.params, Past(cfg.means, s.step))

\* What a set-up starts from
Unchanged(s) ==
  /\ s.step = 0 /\ s.error = FALSE /\ s.finite = TRUE /\ s.params = {} /\ s.saved = 0
  /\ s.weights = [p \in Param |-> Untouched]
  /\ s.tailEma = [g \in Group |-> {}] /\ s.mean = [g \in Group |-> {}]

-----------------------------------------------------------------------------
(* Versions of the parameters *)

\* What a building block that is not about versions leaves alone: an error,
\* once there, stays.
KeepsVersions(s, t) ==
  /\ IsMemory(t)
  /\ t.step = s.step /\ t.params = s.params /\ t.weights = s.weights /\ t.finite = s.finite
  /\ t.ema = s.ema /\ t.tailEma = s.tailEma /\ t.mean = s.mean /\ t.saved = s.saved
  /\ s.error => t.error

\* Keeping the versions is transitive.
LEMMA KeepsVersionsThrough ==
  ASSUME NEW s, NEW t, NEW u, KeepsVersions(s, t), KeepsVersions(t, u)
  PROVE  KeepsVersions(s, u)
  BY DEF KeepsVersions

\* Loaders, schedules, guards and gradients are not about versions.
LEMMA VersionsKept ==
  ASSUME NEW s, IsMemory(s), NEW in
  PROVE  /\ KeepsVersions(s, s)
         /\ KeepsVersions(s, RetainClean(s)) /\ KeepsVersions(s, RetainAug(s))
         /\ KeepsVersions(s, ForgetAug(s)) /\ KeepsVersions(s, BatchRetain(s))
         /\ KeepsVersions(s, CosineTailCheck(s)) /\ KeepsVersions(s, StateTailCheck(s))
         /\ KeepsVersions(s, Fisher(s)) /\ KeepsVersions(s, CkaFloorGuard(s))
         /\ KeepsVersions(s, NextBatches(s)) /\ KeepsVersions(s, Gradient(s, in))
         /\ KeepsVersions(s, CosineTail(s)) /\ KeepsVersions(s, StateTail(s, in))
         /\ KeepsVersions(s, Surgery(s, in)) /\ KeepsVersions(s, AfterUpdate(s))
<1>1. KeepsVersions(s, s) /\ KeepsVersions(s, Fail(s))
  BY DEF KeepsVersions, IsMemory, Fields, Fail
<1>2. KeepsVersions(s, RetainClean(s)) /\ KeepsVersions(s, RetainAug(s))
  BY DEF KeepsVersions, IsMemory, Fields, RetainClean, RetainAug
<1>3. KeepsVersions(s, ForgetAug(s)) /\ KeepsVersions(s, BatchRetain(s))
  BY DEF KeepsVersions, IsMemory, Fields, ForgetAug, BatchRetain
<1>4. /\ KeepsVersions(s, CosineTailCheck(s)) /\ KeepsVersions(s, StateTailCheck(s))
      /\ KeepsVersions(s, CkaFloorGuard(s))
  BY <1>1 DEF CosineTailCheck, StateTailCheck, CkaFloorGuard
<1>5. KeepsVersions(s, Fisher(s))
  BY <1>1 DEF KeepsVersions, IsMemory, Fields, Fisher
<1>6. KeepsVersions(s, NextBatches(s))
  <2>1. ASSUME NEW x, NEW t, IsMemory(t)
        PROVE  KeepsVersions(t, Draw(x, t))
    BY <2>1 DEF KeepsVersions, IsMemory, Fields, Draw
  <2>2. KeepsVersions(s, Draw("retain", s))
    BY <2>1
  <2>3. KeepsVersions(Draw("retain", s), Draw("forget", Draw("retain", s)))
    BY <2>1, <2>2 DEF KeepsVersions
  <2> QED
    BY <2>2, <2>3, KeepsVersionsThrough DEF NextBatches
<1>7. ASSUME NEW g
      PROVE  KeepsVersions(s, [s EXCEPT !.grad = g])
  BY DEF KeepsVersions, IsMemory, Fields
<1>8. KeepsVersions(s, Gradient(s, in))
  BY <1>7 DEF Gradient
<1>9. ASSUME NEW l
      PROVE  KeepsVersions(s, [s EXCEPT !.lr = l])
  BY DEF KeepsVersions, IsMemory, Fields
<1>10. KeepsVersions(s, CosineTail(s))
  BY <1>1, <1>9 DEF CosineTail
<1>11. ASSUME NEW c, NEW o, NEW t, NEW l
       PROVE  KeepsVersions(s, [s EXCEPT !.cka = c, !.off = o, !.trigger = t, !.lr = l])
  BY DEF KeepsVersions, IsMemory, Fields
<1>12. KeepsVersions(s, StateTail(s, in))
  BY <1>1, <1>11 DEF StateTail, Tailing
<1>13. ASSUME NEW p, NEW g
       PROVE  KeepsVersions(s, [s EXCEPT !.pending = p, !.grad = g])
  BY DEF KeepsVersions, IsMemory, Fields
<1>14. KeepsVersions(s, Surgery(s, in))
  BY <1>1, <1>13 DEF Surgery
<1>15. KeepsVersions(s, AfterUpdate(s))
  BY <1>1 DEF KeepsVersions, IsMemory, Fields, AfterUpdate
<1> QED
  BY <1>1, <1>2, <1>3, <1>4, <1>5, <1>6, <1>8, <1>10, <1>12, <1>14, <1>15

\* The weights after u updates and v pulls
Trained(ps, u, v) == [p \in Param |-> IF p \in ps THEN [updates |-> u, pulls |-> v] ELSE Untouched]

\* t is a memory within the iteration that has begun with s, with u updates
\* and v pulls; or the iteration has failed.
Moved(s, t, u, v) ==
  /\ IsMemory(t)
  /\ t.step = s.step /\ t.params = s.params /\ t.saved = s.saved
  /\ t.ema = s.ema /\ t.tailEma = s.tailEma /\ t.mean = s.mean
  /\ t.finite \in BOOLEAN
  /\ t.error \/ t.weights = Trained(s.params, u, v)

\* What keeps the versions leaves an iteration where it is.
LEMMA MovedKept ==
  ASSUME NEW s, NEW t, NEW w, NEW u, NEW v, Moved(s, t, u, v), KeepsVersions(t, w)
  PROVE  Moved(s, w, u, v)
  BY DEF Moved, KeepsVersions

\* An update makes one update of it, and a pull one pull, in what is trained.
LEMMA MovedOn ==
  ASSUME NEW s, NEW t, NEW u \in Nat, NEW v \in Nat, Moved(s, t, u, v), NEW in,
         cfg.l2sp \in {"off", "on", "excessive"}
  PROVE  /\ Moved(s, OptStep(t, in), u + 1, v)
         /\ Moved(s, Pull(t), u, IF cfg.l2sp = "off" THEN v ELSE v + 1)
         /\ Moved(s, GradientPull(t), u, IF cfg.l2sp = "off" THEN v ELSE v + 1)
<1>0. IsMemory(t) /\ t.params = s.params
  BY DEF Moved
<1>1. ASSUME t.weights = Trained(s.params, u, v)
      PROVE  /\ Changed(t, t.params, "updates") = Trained(s.params, u + 1, v)
             /\ Changed(t, t.params, "pulls") = Trained(s.params, u, v + 1)
  <2>1. ASSUME NEW p \in Param, p \in s.params
        PROVE  /\ [t.weights[p] EXCEPT !["updates"] = @ + 1] = [updates |-> u + 1, pulls |-> v]
               /\ [t.weights[p] EXCEPT !["pulls"] = @ + 1] = [updates |-> u, pulls |-> v + 1]
    <3>1. t.weights[p] = [updates |-> u, pulls |-> v]
      BY <1>1, <2>1 DEF Trained
    <3>2. /\ [[updates |-> u, pulls |-> v] EXCEPT !.updates = @ + 1] = [updates |-> u + 1, pulls |-> v]
          /\ [[updates |-> u, pulls |-> v] EXCEPT !.pulls = @ + 1] = [updates |-> u, pulls |-> v + 1]
      OBVIOUS
    <3> QED
      BY <3>1, <3>2
  <2>2. ASSUME NEW p \in Param, p \notin s.params
        PROVE  t.weights[p] = Untouched
    BY <1>1, <2>2 DEF Trained
  <2> QED
    BY <1>0, <2>1, <2>2 DEF Changed, Trained
<1>2. Moved(s, OptStep(t, in), u + 1, v)
  <2> DEFINE w == Changed(t, t.params, "updates")
  <2>1. OptStep(t, in) = [t EXCEPT !.weights = w, !.finite = @ /\ ~in.diverges]
    BY DEF OptStep
  <2> HIDE DEF w
  <2>2. /\ IsMemory(OptStep(t, in)) /\ OptStep(t, in).weights = w
        /\ OptStep(t, in).step = t.step /\ OptStep(t, in).params = t.params /\ OptStep(t, in).saved = t.saved
        /\ OptStep(t, in).ema = t.ema /\ OptStep(t, in).tailEma = t.tailEma /\ OptStep(t, in).mean = t.mean
        /\ OptStep(t, in).error = t.error /\ OptStep(t, in).finite \in BOOLEAN
    BY <1>0, <2>1 DEF IsMemory, Fields
  <2> QED
    BY <1>1, <2>2 DEF Moved, w
<1>3. Moved(s, [t EXCEPT !.weights = Changed(t, t.params, "pulls")], u, v + 1)
  <2> DEFINE w == Changed(t, t.params, "pulls")
  <2> DEFINE x == [t EXCEPT !.weights = w]
  <2> HIDE DEF w
  <2>2. /\ IsMemory(x) /\ x.weights = w
        /\ x.step = t.step /\ x.params = t.params /\ x.saved = t.saved
        /\ x.ema = t.ema /\ x.tailEma = t.tailEma /\ x.mean = t.mean /\ x.error = t.error
        /\ x.finite = t.finite
    BY <1>0 DEF IsMemory, Fields
  <2> HIDE DEF x
  <2>3. Moved(s, x, u, v + 1)
    BY <1>1, <2>2 DEF Moved, w
  <2> QED
    BY <2>3 DEF x, w
<1>4. Moved(s, Fail(t), u, v + 1)
  <2>1. /\ IsMemory(Fail(t)) /\ Fail(t).error
        /\ Fail(t).step = t.step /\ Fail(t).params = t.params /\ Fail(t).saved = t.saved
        /\ Fail(t).ema = t.ema /\ Fail(t).tailEma = t.tailEma /\ Fail(t).mean = t.mean
        /\ Fail(t).finite = t.finite
    BY <1>0 DEF IsMemory, Fields, Fail
  <2> QED
    BY <2>1 DEF Moved
<1>5. Moved(s, Pull(t), u, IF cfg.l2sp = "off" THEN v ELSE v + 1)
  <2>1. CASE cfg.l2sp = "off"
    BY <2>1 DEF Pull
  <2>2. CASE cfg.l2sp = "on"
    BY <1>3, <2>2 DEF Pull
  <2>3. CASE cfg.l2sp = "excessive"
    BY <1>4, <2>3 DEF Pull
  <2> QED
    BY <2>1, <2>2, <2>3
<1>6. Moved(s, GradientPull(t), u, IF cfg.l2sp = "off" THEN v ELSE v + 1)
  BY <1>3 DEF GradientPull
<1> QED
  BY <1>2, <1>5, <1>6

-----------------------------------------------------------------------------
(* Averages *)

\* The state dictionary after n updates mixes the versions of n alone, and
\* adding one mixture to another unites what they mix.
LEMMA Mixing ==
  /\ \A s, ps, n : s.weights = [p \in Param |-> Version(ps, p, n)] => StateDict(s) = Mixed(ps, {n})
  /\ \A ps, Q, R : Both(Mixed(ps, Q), Mixed(ps, R)) = Mixed(ps, Q \cup R)
<1>1. ASSUME NEW s, NEW ps, NEW n, s.weights = [p \in Param |-> Version(ps, p, n)]
      PROVE  StateDict(s) = Mixed(ps, {n})
  <2>1. ASSUME NEW g \in Group
        PROVE  s.weights[g] = Version(ps, g, n)
    BY <1>1 DEF Param
  <2>2. ASSUME NEW g \in Group
        PROVE  {s.weights[g]} = {Version(ps, g, k) : k \in {n}}
    BY <2>1
  <2> QED
    BY <2>2 DEF StateDict, Mixed
<1>2. ASSUME NEW ps, NEW Q, NEW R
      PROVE  Both(Mixed(ps, Q), Mixed(ps, R)) = Mixed(ps, Q \cup R)
  <2>1. ASSUME NEW g \in Group
        PROVE  Mixed(ps, Q)[g] \cup Mixed(ps, R)[g] = {Version(ps, g, n) : n \in Q \cup R}
    BY DEF Mixed
  <2> QED
    BY <2>1 DEF Both, Mixed
<1> QED
  BY <1>1, <1>2

\* One number more
LEMMA OneMore ==
  ASSUME NEW n \in Nat
  PROVE  /\ 0..(n + 1) = (0..n) \cup {n + 1}
         /\ \A Q \in SUBSET Int : n + 1 \in Q => Past(Q, n + 1) = Past(Q, n) \cup {n + 1}
         /\ \A Q \in SUBSET Int : n + 1 \notin Q => Past(Q, n + 1) = Past(Q, n)
<1>1. 0..(n + 1) = (0..n) \cup {n + 1}
  OBVIOUS
<1>2. ASSUME NEW Q \in SUBSET Int, NEW k \in Q
      PROVE  k <= n + 1 <=> k <= n \/ k = n + 1
  OBVIOUS
<1> QED
  BY <1>1, <1>2 DEF Past

\* An iteration that has updated and pulled once more is one step further
\* once its averages have taken the new weights up.
LEMMA Further ==
  ASSUME NEW s, Trajectory(s), s.step \in Nat, s.step < Steps,
         NEW t, Moved(s, t, s.step + 1, After(s.step + 1).pulls)
  PROVE  /\ cfg.script # "S03" /\ ~Average(t).error => Trajectory(EndIteration(Average(t)))
         /\ cfg.script # "S03" /\ ~cfg.ema /\ ~t.error => Trajectory(EndIteration(t))
         /\ cfg.script = "S03" /\ ~cfg.ema /\ ~Observe(t).error => Trajectory(EndIteration(Observe(t)))
<1> DEFINE n == s.step
<1> DEFINE ps == s.params
<1>0. /\ IsMemory(t) /\ t.step = n /\ t.params = ps /\ t.ema = s.ema /\ t.tailEma = s.tailEma /\ t.mean = s.mean
      /\ ParamsOK(ps) /\ t.finite \in BOOLEAN
  BY DEF Moved, Trajectory
<1>1. ~t.error => t.weights = [p \in Param |-> Version(ps, p, n + 1)]
  <2>1. After(n + 1) = [updates |-> n + 1, pulls |-> After(n + 1).pulls]
    BY DEF After
  <2> QED
    BY <2>1 DEF Moved, Trained, Version
<1>2. ~t.error => StateDict(t) = Mixed(ps, {n + 1})
  BY <1>1, Mixing
<1>3. ASSUME cfg.script # "S03", ~Average(t).error
      PROVE  Trajectory(EndIteration(Average(t)))
  <2> DEFINE a == Average(t)
  <2> DEFINE e == EndIteration(a)
  <2>1. /\ IsMemory(a) /\ a.step = n /\ a.params = ps /\ a.weights = t.weights /\ a.error = t.error /\ a.finite = t.finite
        /\ cfg.ema => a.ema = Both(s.ema, StateDict(t))
    <3>1. CASE cfg.ema
      <4>1. a = [t EXCEPT !.ema = Both(t.ema, StateDict(t))]
        BY <3>1 DEF Average
      <4> HIDE DEF a
      <4> QED
        BY <1>0, <4>1 DEF IsMemory, Fields
    <3>2. CASE ~cfg.ema
      BY <1>0, <3>2 DEF Average
    <3> QED
      BY <3>1, <3>2
  <2> HIDE DEF a
  <2>2. e.step = n + 1 /\ e.params = ps /\ e.weights = t.weights /\ e.ema = a.ema /\ e.finite = t.finite
    BY <2>1 DEF EndIteration, IsMemory, Fields
  <2> HIDE DEF e
  <2>3. ~t.error
    BY <1>3, <2>1 DEF a
  <2>4. cfg.ema => e.ema = Mixed(ps, 0..(n + 1))
    <3>1. cfg.ema => s.ema = Mixed(ps, 0..n)
      BY DEF Trajectory
    <3> QED
      BY <1>2, <2>1, <2>2, <2>3, <3>1, Mixing, OneMore
  <2>5. Trajectory(e)
    BY <1>0, <1>1, <1>3, <2>2, <2>3, <2>4 DEF Trajectory
  <2> QED
    BY <2>5 DEF e, a
<1>4. ASSUME cfg.script # "S03", ~cfg.ema, ~t.error
      PROVE  Trajectory(EndIteration(t))
  <2> DEFINE e == EndIteration(t)
  <2>1. e.step = n + 1 /\ e.params = ps /\ e.weights = t.weights /\ e.finite = t.finite
    BY <1>0 DEF EndIteration, IsMemory, Fields
  <2> HIDE DEF e
  <2>2. Trajectory(e)
    BY <1>0, <1>1, <1>4, <2>1 DEF Trajectory
  <2> QED
    BY <2>2 DEF e
<1>5. ASSUME cfg.script = "S03", ~cfg.ema, ~Observe(t).error
      PROVE  Trajectory(EndIteration(Observe(t)))
  <2> DEFINE o == Observe(t)
  <2> DEFINE e == EndIteration(o)
  <2> DEFINE a == IF n + 1 < cfg.start THEN t
                  ELSE [t EXCEPT !.tailEma = Both(@, StateDict(t)), !.tailCount = @ + 1]
  <2> DEFINE m == IF n + 1 \notin cfg.means THEN a
                  ELSE [a EXCEPT !.mean = Both(@, StateDict(t)), !.meanCount = @ + 1]
  <2>1. WindowValid /\ s.tailEma = Mixed(ps, Past(cfg.start..Steps, n)) /\ s.mean = Mixed(ps, Past(cfg.means, n))
    BY <1>5 DEF Trajectory
  <2>2. /\ IsMemory(a) /\ a.step = n /\ a.params = ps /\ a.weights = t.weights /\ a.mean = s.mean /\ a.error = t.error /\ a.finite = t.finite
        /\ a.tailEma = IF n + 1 < cfg.start THEN s.tailEma ELSE Both(s.tailEma, StateDict(t))
    <3>1. CASE n + 1 < cfg.start
      BY <1>0, <3>1
    <3>2. CASE ~(n + 1 < cfg.start)
      <4>1. a = [t EXCEPT !.tailEma = Both(t.tailEma, StateDict(t)), !.tailCount = @ + 1]
        BY <3>2
      <4> HIDE DEF a
      <4> QED
        BY <1>0, <3>2, <4>1 DEF IsMemory, Fields
    <3> QED
      BY <3>1, <3>2
  <2>3. m = IF n + 1 \notin cfg.means THEN a
            ELSE [a EXCEPT !.mean = Both(@, StateDict(t)), !.meanCount = @ + 1]
    OBVIOUS
  <2> HIDE DEF a
  <2>4. /\ IsMemory(m) /\ m.step = n /\ m.params = ps /\ m.weights = t.weights /\ m.tailEma = a.tailEma /\ m.error = t.error /\ m.finite = t.finite
        /\ m.mean = IF n + 1 \notin cfg.means THEN s.mean ELSE Both(s.mean, StateDict(t))
    <3>1. CASE n + 1 \notin cfg.means
      BY <2>2, <3>1
    <3>2. CASE n + 1 \in cfg.means
      <4>1. m = [a EXCEPT !.mean = Both(a.mean, StateDict(t)), !.meanCount = @ + 1]
        BY <3>2
      <4> HIDE DEF m
      <4> QED
        BY <2>2, <3>2, <4>1 DEF IsMemory, Fields
    <3> QED
      BY <3>1, <3>2
  <2> HIDE DEF m
  <2>5. Observe(t) = IF n + 1 # t.seen + 1 \/ (n + 1 \in cfg.means /\ ~t.finite) THEN Fail(t)
                     ELSE [m EXCEPT !.seen = n + 1]
    BY <1>0 DEF Observe, a, m
  <2>6. Fail(t).error
    BY <1>0 DEF Fail, IsMemory, Fields
  <2>7. o = [m EXCEPT !.seen = n + 1]
    BY <1>5, <2>5, <2>6
  <2> HIDE DEF o
  <2>8. /\ IsMemory(o) /\ o.step = n /\ o.params = ps /\ o.weights = t.weights /\ o.error = t.error /\ o.finite = t.finite
        /\ o.tailEma = m.tailEma /\ o.mean = m.mean
    BY <2>4, <2>7 DEF IsMemory, Fields
  <2>9. ~t.error
    BY <1>5, <2>8 DEF o
  <2>10. e.step = n + 1 /\ e.params = ps /\ e.weights = t.weights /\ e.tailEma = m.tailEma /\ e.mean = m.mean /\ e.finite = t.finite
    BY <2>8 DEF EndIteration, IsMemory, Fields
  <2> HIDE DEF e
  <2>11. e.tailEma = Mixed(ps, Past(cfg.start..Steps, n + 1))
    <3>1. n + 1 \in cfg.start..Steps <=> ~(n + 1 < cfg.start)
      BY <2>1, StepsAssumption DEF WindowValid
    <3>2. cfg.start..Steps \in SUBSET Int
      BY StepsAssumption
    <3>3. CASE n + 1 < cfg.start
      BY <2>1, <2>2, <2>4, <2>10, <3>1, <3>2, <3>3, OneMore
    <3>4. CASE ~(n + 1 < cfg.start)
      <4>1. e.tailEma = Both(Mixed(ps, Past(cfg.start..Steps, n)), Mixed(ps, {n + 1}))
        BY <1>2, <2>1, <2>2, <2>4, <2>9, <2>10, <3>4
      <4>2. Past(cfg.start..Steps, n + 1) = Past(cfg.start..Steps, n) \cup {n + 1}
        BY <3>1, <3>2, <3>4, OneMore
      <4> QED
        BY <4>1, <4>2, Mixing
    <3> QED
      BY <3>3, <3>4
  <2>12. e.mean = Mixed(ps, Past(cfg.means, n + 1))
    <3>1. cfg.means \in SUBSET Int
      BY <2>1, StepsAssumption DEF WindowValid
    <3>2. CASE n + 1 \notin cfg.means
      BY <2>1, <2>4, <2>10, <3>1, <3>2, OneMore
    <3>3. CASE n + 1 \in cfg.means
      <4>1. e.mean = Both(Mixed(ps, Past(cfg.means, n)), Mixed(ps, {n + 1}))
        BY <1>2, <2>1, <2>4, <2>9, <2>10, <3>3
      <4>2. Past(cfg.means, n + 1) = Past(cfg.means, n) \cup {n + 1}
        BY <3>1, <3>3, OneMore
      <4> QED
        BY <4>1, <4>2, Mixing
    <3> QED
      BY <3>2, <3>3
  <2>13. Trajectory(e)
    BY <1>0, <1>1, <1>5, <2>1, <2>9, <2>10, <2>11, <2>12 DEF Trajectory
  <2> QED
    BY <2>13 DEF e, o
<1> QED
  BY <1>3, <1>4, <1>5

\* The weights a window of S03 has seen are finite where a mean takes them up.
LEMMA MeansAreFinite ==
  ASSUME NEW t, IsMemory(t), ~Observe(t).error, t.step + 1 \in cfg.means
  PROVE  EndIteration(Observe(t)).finite
<1>1. Fail(t).error
  BY DEF Fail, IsMemory, Fields
<1>2. t.finite
  BY <1>1 DEF Observe
<1>3. Observe(t).finite = t.finite /\ IsMemory(Observe(t))
  BY DEF Observe, Fail, IsMemory, Fields
<1> QED
  BY <1>2, <1>3 DEF EndIteration, IsMemory, Fields

\* An iteration of any program that does not fail takes its trajectory one
\* step further.
LEMMA TrajectoryGoesOn ==
  ASSUME ConfigOK, IsMemory(mem), Trajectory(mem), mem.step \in Nat, mem.step < Steps, NEW in,
         ~Updated(in).error
  PROVE  Trajectory(Updated(in)) /\ Updated(in).step = mem.step + 1 /\ Updated(in).saved = mem.saved
<1> DEFINE s == mem
<1> DEFINE n == mem.step
<1> DEFINE v == After(n).pulls
<1>0. /\ v \in Nat /\ After(n + 1).pulls \in Nat
      /\ cfg.l2sp = "off" => After(n + 1).pulls = v
      /\ cfg.l2sp # "off" => After(n + 1).pulls = v + 1
      /\ (IF cfg.l2sp = "off" THEN v ELSE v + 1) = After(n + 1).pulls
  BY DEF After
<1>l. cfg.l2sp \in {"off", "on", "excessive"}
  BY DEF ConfigOK
<1>1. Moved(s, s, n, v)
  <2>1. s.weights = Trained(s.params, n, v)
    BY DEF Trajectory, Version, Trained, After
  <2> QED
    BY <2>1 DEF Moved, Trajectory
<1> HIDE DEF v
<1>2. ASSUME NEW t, NEW i, NEW j, Moved(s, t, i, j)
      PROVE  /\ Moved(s, NextBatches(t), i, j) /\ Moved(s, Gradient(t, in), i, j)
             /\ Moved(s, CosineTail(t), i, j) /\ Moved(s, StateTail(t, in), i, j)
             /\ Moved(s, CkaFloorGuard(t), i, j) /\ Moved(s, Surgery(t, in), i, j)
             /\ Moved(s, AfterUpdate(t), i, j)
  <2>1. IsMemory(t)
    BY <1>2 DEF Moved
  <2> QED
    BY <1>2, <2>1, VersionsKept, MovedKept
<1>3. ASSUME NEW t, Moved(s, t, n, v)
      PROVE  Moved(s, OptStep(t, in), n + 1, v)
  BY <1>0, <1>l, <1>3, MovedOn
<1>4. ASSUME NEW t, Moved(s, t, n + 1, v)
      PROVE  Moved(s, Pull(t), n + 1, After(n + 1).pulls)
  BY <1>0, <1>l, <1>4, MovedOn
<1>5. ASSUME NEW t, Moved(s, t, n, v)
      PROVE  Moved(s, GradientPull(t), n, After(n + 1).pulls)
  BY <1>0, <1>l, <1>5, MovedOn
<1>6. ASSUME NEW t, Moved(s, t, n, After(n + 1).pulls)
      PROVE  Moved(s, OptStep(t, in), n + 1, After(n + 1).pulls)
  BY <1>0, <1>l, <1>6, MovedOn
<1>e. ASSUME NEW t, NEW i, NEW j, Moved(s, t, i, j)
      PROVE  /\ IsMemory(Average(t)) /\ Average(t).step = n /\ Average(t).saved = s.saved
             /\ IsMemory(Observe(t)) /\ Observe(t).step = n /\ Observe(t).saved = s.saved
             /\ IsMemory(t) /\ t.step = n /\ t.saved = s.saved
  BY <1>e DEF Moved, Average, Observe, Fail, IsMemory, Fields
<1>f. ASSUME NEW t, IsMemory(t), t.step = n, t.saved = s.saved
      PROVE  EndIteration(t).error = t.error /\ EndIteration(t).step = n + 1 /\ EndIteration(t).saved = s.saved
  BY <1>f DEF EndIteration, IsMemory, Fields
\* The three ways in which an iteration ends
<1>7. ASSUME NEW t, Moved(s, t, n + 1, After(n + 1).pulls), cfg.script # "S03",
             Updated(in) = EndIteration(Average(t))
      PROVE  Trajectory(Updated(in)) /\ Updated(in).step = n + 1 /\ Updated(in).saved = s.saved
  BY <1>7, <1>e, <1>f, Further
<1>8. ASSUME NEW t, Moved(s, t, n + 1, After(n + 1).pulls), cfg.script # "S03", ~cfg.ema,
             Updated(in) = EndIteration(t)
      PROVE  Trajectory(Updated(in)) /\ Updated(in).step = n + 1 /\ Updated(in).saved = s.saved
  BY <1>8, <1>e, <1>f, Further
<1>9. ASSUME NEW t, Moved(s, t, n + 1, After(n + 1).pulls), cfg.script = "S03", ~cfg.ema,
             Updated(in) = EndIteration(Observe(t))
      PROVE  Trajectory(Updated(in)) /\ Updated(in).step = n + 1 /\ Updated(in).saved = s.saved
  BY <1>9, <1>e, <1>f, Further
<1>10. CASE cfg.script \in {"remap", "S12"}
  <2> DEFINE g == Gradient(NextBatches(s), in)
  <2> DEFINE t == Pull(OptStep(g, in))
  <2>1. Moved(s, g, n, v)
    BY <1>1, <1>2
  <2>2. Moved(s, t, n + 1, After(n + 1).pulls)
    BY <1>3, <1>4, <2>1
  <2>3. Updated(in) = EndIteration(Average(t))
    BY <1>10 DEF Updated, RemapUpdate, S12Update
  <2> HIDE DEF t
  <2> QED
    BY <1>7, <1>10, <2>2, <2>3
<1>11. CASE cfg.script = "S11"
  <2> DEFINE g == Gradient(StateTail(NextBatches(s), in), in)
  <2> DEFINE t == Pull(OptStep(g, in))
  <2>1. Moved(s, g, n, v)
    BY <1>1, <1>2
  <2>2. Moved(s, t, n + 1, After(n + 1).pulls)
    BY <1>3, <1>4, <2>1
  <2>3. Updated(in) = EndIteration(Average(t))
    BY <1>11 DEF Updated, S11Update
  <2> HIDE DEF t
  <2> QED
    BY <1>7, <1>11, <2>2, <2>3
<1>12. CASE cfg.script = "S09"
  <2> DEFINE g == Gradient(NextBatches(CosineTail(s)), in)
  <2> DEFINE t == OptStep(GradientPull(g), in)
  <2>1. Moved(s, g, n, v)
    BY <1>1, <1>2
  <2>2. Moved(s, t, n + 1, After(n + 1).pulls)
    BY <1>5, <1>6, <2>1
  <2>3. Updated(in) = EndIteration(Average(t))
    BY <1>12 DEF Updated, S09Update
  <2> HIDE DEF t
  <2> QED
    BY <1>7, <1>12, <2>2, <2>3
\* The others have no pull.
<1>13. ASSUME cfg.script \notin {"remap", "S09", "S11", "S12"}
       PROVE  v = After(n + 1).pulls
  BY <1>0, <1>13 DEF ConfigOK
<1>14. CASE cfg.script \in {"S06", "S08"}
  <2> DEFINE g == Gradient(CkaFloorGuard(NextBatches(s)), in)
  <2> DEFINE t == OptStep(g, in)
  <2>1. Moved(s, g, n, v)
    BY <1>1, <1>2
  <2>2. Moved(s, t, n + 1, After(n + 1).pulls)
    BY <1>3, <1>13, <1>14, <2>1
  <2>3. Updated(in) = EndIteration(Average(t))
    BY <1>14 DEF Updated, S06Update, S08Update
  <2> HIDE DEF t
  <2> QED
    BY <1>7, <1>14, <2>2, <2>3
<1>15. ASSUME cfg.script \in {"S01", "S02", "S03", "S04"}
       PROVE  ~cfg.ema
  BY <1>15 DEF ConfigOK, Drivers
<1>16. CASE cfg.script = "S02"
  <2> DEFINE t == OptStep(Gradient(NextBatches(s), in), in)
  <2>1. Moved(s, t, n + 1, After(n + 1).pulls)
    BY <1>1, <1>2, <1>3, <1>13, <1>16
  <2>2. Updated(in) = EndIteration(t)
    BY <1>16 DEF Updated, S02Update
  <2> HIDE DEF t
  <2> QED
    BY <1>8, <1>15, <1>16, <2>1, <2>2
<1>17. CASE cfg.script = "S03"
  <2> DEFINE t == OptStep(Gradient(NextBatches(s), in), in)
  <2>1. Moved(s, t, n + 1, After(n + 1).pulls)
    BY <1>1, <1>2, <1>3, <1>13, <1>17
  <2>2. Updated(in) = EndIteration(Observe(t))
    BY <1>17 DEF Updated, S03Update
  <2> HIDE DEF t
  <2> QED
    BY <1>9, <1>15, <1>17, <2>1, <2>2
<1>18. CASE cfg.script = "S04"
  <2> DEFINE t == AfterUpdate(OptStep(Surgery(NextBatches(s), in), in))
  <2>1. Moved(s, t, n + 1, After(n + 1).pulls)
    BY <1>1, <1>2, <1>3, <1>13, <1>18
  <2>2. Updated(in) = EndIteration(t)
    BY <1>18 DEF Updated, S04Update
  <2> HIDE DEF t
  <2> QED
    BY <1>8, <1>15, <1>18, <2>1, <2>2
<1>19. CASE cfg.script = "S01"
  <2> DEFINE epoch == IF s.reading["forget"].left = 0 THEN [s EXCEPT !.reading["retain"].left = 0] ELSE s
  <2> DEFINE grad == [r |-> in.grads[1], out |-> Plus(in.grads[1], Times(-1, in.grads[2])), scale |-> 1]
  <2> DEFINE b == NextBatches(epoch)
  <2> DEFINE t == OptStep([b EXCEPT !.grad = grad], in)
  <2>1. KeepsVersions(s, epoch)
    BY DEF KeepsVersions, IsMemory, Fields
  <2>2. Moved(s, b, n, v)
    BY <1>1, <1>2, <2>1, MovedKept
  <2>3. Updated(in) = EndIteration(t)
    BY <1>19 DEF Updated, S01Update
  <2> HIDE DEF b, grad
  <2>4. KeepsVersions(b, [b EXCEPT !.grad = grad])
    BY <2>2 DEF Moved, KeepsVersions, IsMemory, Fields
  <2>5. Moved(s, t, n + 1, After(n + 1).pulls)
    BY <1>3, <1>13, <1>19, <2>2, <2>4, MovedKept
  <2> HIDE DEF t
  <2> QED
    BY <1>8, <1>15, <1>19, <2>3, <2>5
<1> QED
  BY <1>10, <1>11, <1>12, <1>14, <1>16, <1>17, <1>18, <1>19 DEF ConfigOK, Scripts, Drivers

\* A memory during the set-up, with the parameters ps
SettingOut(s, ps) ==
  /\ IsMemory(s)
  /\ s.step = 0 /\ s.params = ps /\ s.saved = 0 /\ s.finite \in BOOLEAN
  /\ s.weights = [p \in Param |-> Untouched]
  /\ s.tailEma = [g \in Group |-> {}] /\ s.mean = [g \in Group |-> {}]

\* The blocks a program trains are those its configuration declares.
LEMMA TrainableIsDeclared ==
  ASSUME ConfigOK
  PROVE  /\ Declared \subseteq Group /\ Group \subseteq Param
         /\ \A k, f : Trainable(k, f) \subseteq Group
         /\ cfg.script \notin {"S01", "S02", "S03", "S04"} /\ ~cfg.fos => Trainable(cfg.blocks, cfg.freeze) = Declared
         /\ cfg.script \in {"S03", "S04"} => Trainable(cfg.blocks, FALSE) = Declared
         /\ cfg.script = "S01" => Group = Declared
<1>1. Group \subseteq Param /\ Declared \subseteq Group
  BY DEF Param, Group, Declared
<1>2. \A k, f : Trainable(k, f) \subseteq Group
  BY DEF Trainable, Group, LastBlocks
<1>3. cfg.select = "none" /\ cfg.script # "S01" /\ ~cfg.fos => Trainable(cfg.blocks, cfg.freeze) = Declared
  BY DEF Trainable, Declared, LastBlocks, ConfigOK
<1>4. cfg.script \in {"S03", "S04"} => ~cfg.freeze /\ ~cfg.fos /\ cfg.select = "none"
  BY DEF ConfigOK
<1>5. cfg.select = "none" /\ cfg.script # "S01" /\ ~cfg.fos /\ ~cfg.freeze => Trainable(cfg.blocks, FALSE) = Declared
  BY DEF Trainable, Declared, LastBlocks, ConfigOK
<1>6. cfg.script = "S01" => Group = Declared
  BY DEF Declared, ConfigOK
<1> QED
  BY <1>1, <1>2, <1>3, <1>4, <1>5, <1>6 DEF ConfigOK

\* The blocks S02 selects, too.
LEMMA SelectedIsDeclared ==
  ASSUME ConfigOK, cfg.script = "S02", IsMemory(mem), NEW in, in.blocks \in Selections, ~Selected(mem, in).error
  PROVE  \E ps : ParamsOK(ps) /\ Selected(mem, in) = [mem EXCEPT !.params = ps]
<1> DEFINE ps == CASE cfg.select = "all" -> Group
                   [] OTHER -> WithFc2(in.blocks) \cup {g \in {"head"} : cfg.trainHead} \cup {g \in {"norm"} : ~cfg.freeze}
<1>1. Fail(mem).error
  BY DEF Fail, IsMemory, Fields
<1>2. /\ ~(cfg.select = "last" /\ cfg.blocks \notin 1..2)
      /\ ~(cfg.select = "head_only" /\ ~(cfg.freeze /\ cfg.trainHead))
      /\ cfg.select \in {"gradient_ratio", "last", "head_only", "all"}
      /\ Selected(mem, in) = [mem EXCEPT !.params = ps]
  BY <1>1 DEF Selected
<1>3. ~cfg.fos
  BY DEF ConfigOK
<1>4. CASE cfg.select = "all"
  BY <1>2, <1>3, <1>4, TrainableIsDeclared DEF ParamsOK, Declared
<1>5. CASE cfg.select = "gradient_ratio"
  <2>1. in.blocks \subseteq {"front", "back"}
    BY <1>5 DEF Selections
  <2>2. ps \subseteq Param
    BY <1>5, <2>1 DEF WithFc2, Param, Group
  <2> QED
    BY <1>2, <1>5, <2>2 DEF ParamsOK
<1>6. CASE cfg.select = "head_only"
  <2>1. in.blocks = {}
    BY <1>6 DEF Selections
  <2>2. ps = {"head"}
    BY <1>2, <1>6, <2>1 DEF WithFc2
  <2>3. Declared = {"head"}
    BY <1>3, <1>6 DEF Declared
  <2> QED
    BY <1>2, <1>3, <1>6, <2>2, <2>3, TrainableIsDeclared DEF ParamsOK
<1>7. CASE cfg.select = "last"
  <2>1. in.blocks = LastBlocks(cfg.blocks) \ {"fc2"}
    BY <1>7 DEF Selections
  <2>2. WithFc2(in.blocks) = LastBlocks(cfg.blocks)
    BY <1>2, <1>7, <2>1 DEF WithFc2, LastBlocks
  <2>3. Declared = ps
    BY <1>2, <1>3, <1>7, <2>2 DEF Declared, LastBlocks
  <2> QED
    BY <1>2, <1>3, <1>7, <2>3, TrainableIsDeclared DEF ParamsOK
<1> QED
  BY <1>2, <1>4, <1>5, <1>6, <1>7

\* A set-up that does not fail leaves a program at the start of its
\* trajectory, trained as declared.
LEMMA TrajectoryStarts ==
  ASSUME ConfigOK, IsMemory(mem), Unchanged(mem), NEW in, in.blocks \in Selections, ~Setup(in).error
  PROVE  Trajectory(Setup(in)) /\ Setup(in).step = 0 /\ Setup(in).saved = 0
<1>f. ASSUME NEW s, IsMemory(s)
      PROVE  Fail(s).error
  BY <1>f DEF Fail, IsMemory, Fields
<1>1. SettingOut(mem, {})
  BY DEF SettingOut, Unchanged
<1>2. ASSUME NEW s, NEW ps, SettingOut(s, ps)
      PROVE  /\ SettingOut(RetainClean(s), ps) /\ SettingOut(RetainAug(s), ps) /\ SettingOut(ForgetAug(s), ps)
             /\ SettingOut(BatchRetain(s), ps) /\ SettingOut(CosineTailCheck(s), ps)
             /\ SettingOut(StateTailCheck(s), ps) /\ SettingOut(Fisher(s), ps)
             /\ s.error => StateTailCheck(s).error /\ CosineTailCheck(s).error /\ Fisher(s).error
  <2>1. IsMemory(s)
    BY <1>2 DEF SettingOut
  <2> QED
    BY <1>2, <2>1, VersionsKept DEF SettingOut, KeepsVersions
<1>3. ASSUME NEW s, NEW qs, SettingOut(s, qs), NEW ps
      PROVE  SettingOut([s EXCEPT !.params = ps], ps)
  BY <1>3 DEF SettingOut, IsMemory, Fields
<1>4. ASSUME NEW s, SettingOut(s, {})
      PROVE  /\ Blocks(s).error \/ SettingOut(Blocks(s), Trainable(cfg.blocks, cfg.freeze))
             /\ BlocksOrNorm(s).error \/ SettingOut(BlocksOrNorm(s), Trainable(cfg.blocks, FALSE))
             /\ SettingOut(AttachFos(s), {"B"})
             /\ IsMemory(Blocks(s))
  BY <1>3, <1>4, <1>f DEF Blocks, BlocksOrNorm, AttachFos, SettingOut, Fail, IsMemory, Fields
\* Where the weights are untouched, every version is the untouched one.
<1>5. ASSUME NEW s, NEW ps, SettingOut(s, ps), ParamsOK(ps), cfg.script # "S03"
      PROVE  /\ Trajectory(Averaging(s)) /\ Averaging(s).step = 0 /\ Averaging(s).saved = 0
             /\ ~cfg.ema => Trajectory(s)
  <2>1. \A p : Version(ps, p, 0) = Untouched
    BY DEF Version, After, Untouched
  <2>2. s.weights = [p \in Param |-> Version(ps, p, 0)]
    BY <1>5, <2>1 DEF SettingOut
  <2>3. StateDict(s) = Mixed(ps, 0..0)
    <3>1. 0..0 = {0}
      OBVIOUS
    <3> QED
      BY <2>2, <3>1, Mixing
  <2>4. CASE cfg.ema
    <3>1. Averaging(s) = [s EXCEPT !.ema = StateDict(s)]
      BY <2>4 DEF Averaging
    <3>2. /\ Averaging(s).step = 0 /\ Averaging(s).saved = 0 /\ Averaging(s).params = ps
          /\ Averaging(s).weights = s.weights /\ Averaging(s).ema = StateDict(s)
          /\ Averaging(s).finite \in BOOLEAN
      BY <1>5, <3>1 DEF SettingOut, IsMemory, Fields
    <3> QED
      BY <1>5, <2>2, <2>3, <2>4, <3>2 DEF Trajectory
  <2>5. CASE ~cfg.ema
    <3>1. Averaging(s) = s
      BY <2>5 DEF Averaging
    <3> QED
      BY <1>5, <2>2, <2>5, <3>1 DEF Trajectory, SettingOut
  <2> QED
    BY <2>4, <2>5
<1>e. ASSUME NEW s, IsMemory(s)
      PROVE  Averaging(s).error = s.error
  BY <1>e DEF Averaging, IsMemory, Fields
\* A program that looks for its blocks with set_trainable, and then averages
<1>6. ASSUME NEW s, SettingOut(s, Declared), cfg.script # "S03", ~cfg.fos
      PROVE  /\ Trajectory(Averaging(s)) /\ Averaging(s).step = 0 /\ Averaging(s).saved = 0
             /\ ~cfg.ema => Trajectory(s) /\ s.step = 0 /\ s.saved = 0
  <2>1. ParamsOK(Declared)
    BY <1>6, TrainableIsDeclared DEF ParamsOK
  <2> QED
    BY <1>5, <1>6, <2>1 DEF SettingOut
<1>7. CASE cfg.script = "remap"
  <2> DEFINE s == BatchRetain(ForgetAug(RetainAug(RetainClean(mem))))
  <2>1. SettingOut(s, {})
    BY <1>1, <1>2
  <2> HIDE DEF s
  <2>2. CASE cfg.fos
    <3>1. SettingOut(AttachFos(s), {"B"}) /\ ParamsOK({"B"})
      BY <1>4, <2>1, <2>2 DEF ParamsOK, Param
    <3>2. Setup(in) = Averaging(AttachFos(s))
      BY <1>7, <2>2 DEF Setup, RemapSetup, s
    <3> QED
      BY <1>5, <1>7, <3>1, <3>2
  <2>3. CASE ~cfg.fos
    <3>1. Setup(in) = Averaging(Blocks(s))
      BY <1>7, <2>3 DEF Setup, RemapSetup, s
    <3>2. ~Blocks(s).error
      BY <1>4, <1>e, <2>1, <3>1
    <3>3. SettingOut(Blocks(s), Declared)
      BY <1>4, <1>7, <2>1, <2>3, <3>2, TrainableIsDeclared
    <3> QED
      BY <1>6, <1>7, <2>3, <3>1, <3>3
  <2> QED
    BY <2>2, <2>3
<1>8. ASSUME NEW s, SettingOut(s, {}), ~Blocks(s).error, cfg.script \in {"S06", "S08", "S09", "S11", "S12"}
      PROVE  SettingOut(Blocks(s), Declared) /\ ~cfg.fos
  BY <1>4, <1>8, TrainableIsDeclared DEF ConfigOK
<1>9. CASE cfg.script = "S12"
  <2> DEFINE s == BatchRetain(ForgetAug(RetainAug(RetainClean(mem))))
  <2>1. SettingOut(s, {})
    BY <1>1, <1>2
  <2> HIDE DEF s
  <2>2. Setup(in) = Averaging(Blocks(s))
    BY <1>9 DEF Setup, S12Setup, s
  <2>3. ~Blocks(s).error
    BY <1>4, <1>e, <2>1, <2>2
  <2> QED
    BY <1>6, <1>8, <1>9, <2>1, <2>2, <2>3
<1>10. CASE cfg.script = "S06"
  <2> DEFINE s == BatchRetain(RetainClean(mem))
  <2>1. SettingOut(s, {})
    BY <1>1, <1>2
  <2> HIDE DEF s
  <2>2. Setup(in) = Averaging(Blocks(s))
    BY <1>10 DEF Setup, S06Setup, s
  <2>3. ~Blocks(s).error
    BY <1>4, <1>e, <2>1, <2>2
  <2> QED
    BY <1>6, <1>8, <1>10, <2>1, <2>2, <2>3
\* A check after the blocks have been found
<1>11. ASSUME NEW s, SettingOut(s, {}), cfg.script \in {"S08", "S09", "S11"},
              NEW t, t \in {Fisher(Blocks(s)), CosineTailCheck(Blocks(s)), StateTailCheck(Blocks(s))},
              Setup(in) = Averaging(t)
       PROVE  Trajectory(Setup(in)) /\ Setup(in).step = 0 /\ Setup(in).saved = 0
  <2>1. IsMemory(Blocks(s))
    BY <1>4, <1>11
  <2>2. IsMemory(t) /\ (Blocks(s).error => t.error)
    BY <1>11, <2>1, VersionsKept DEF KeepsVersions
  <2>3. ~Blocks(s).error
    BY <1>e, <1>11, <2>2
  <2>4. SettingOut(Blocks(s), Declared) /\ ~cfg.fos
    BY <1>8, <1>11, <2>3
  <2>5. SettingOut(t, Declared)
    BY <1>2, <1>11, <2>4
  <2> QED
    BY <1>6, <1>11, <2>4, <2>5
<1>12. CASE cfg.script = "S08"
  <2> DEFINE s == BatchRetain(RetainClean(mem))
  <2>1. SettingOut(s, {})
    BY <1>1, <1>2
  <2>2. Setup(in) = Averaging(Fisher(Blocks(s)))
    BY <1>12 DEF Setup, S08Setup
  <2> HIDE DEF s
  <2> QED
    BY <1>11, <1>12, <2>1, <2>2
<1>13. CASE cfg.script = "S09"
  <2> DEFINE s == BatchRetain(RetainAug(RetainClean(mem)))
  <2>1. SettingOut(s, {})
    BY <1>1, <1>2
  <2>2. Setup(in) = Averaging(CosineTailCheck(Blocks(s)))
    BY <1>13 DEF Setup, S09Setup
  <2> HIDE DEF s
  <2> QED
    BY <1>11, <1>13, <2>1, <2>2
<1>14. CASE cfg.script = "S11"
  <2> DEFINE s == BatchRetain(RetainAug(RetainClean(mem)))
  <2>1. SettingOut(s, {})
    BY <1>1, <1>2
  <2>2. Setup(in) = Averaging(StateTailCheck(Blocks(s)))
    BY <1>14 DEF Setup, S11Setup
  <2> HIDE DEF s
  <2> QED
    BY <1>11, <1>14, <2>1, <2>2
<1>15. ASSUME cfg.script \in {"S01", "S02", "S03", "S04"}
       PROVE  ~cfg.ema /\ ~cfg.fos
  BY <1>15 DEF ConfigOK, Drivers
<1>16. CASE cfg.script = "S01"
  <2>1. Setup(in) = [mem EXCEPT !.params = Group]
    BY <1>16, <1>f DEF Setup, S01Setup
  <2>2. SettingOut(Setup(in), Declared)
    BY <1>1, <1>3, <1>16, <2>1, TrainableIsDeclared
  <2> QED
    BY <1>6, <1>15, <1>16, <2>2
<1>17. CASE cfg.script = "S04"
  <2>1. Setup(in) = BlocksOrNorm(mem)
    BY <1>17 DEF Setup, S04Setup
  <2>2. SettingOut(Setup(in), Declared)
    BY <1>1, <1>4, <1>17, <2>1, TrainableIsDeclared
  <2> QED
    BY <1>6, <1>15, <1>17, <2>2
<1>18. CASE cfg.script = "S02"
  <2>1. Setup(in) = Selected(mem, in)
    BY <1>18 DEF Setup, S02Setup
  <2>2. PICK ps : ParamsOK(ps) /\ Setup(in) = [mem EXCEPT !.params = ps]
    BY <1>18, <2>1, SelectedIsDeclared
  <2>3. SettingOut(Setup(in), ps)
    BY <1>1, <1>3, <2>2
  <2> QED
    BY <1>5, <1>15, <1>18, <2>2, <2>3 DEF SettingOut
<1>19. CASE cfg.script = "S03"
  <2>1. WindowValid /\ Setup(in) = BlocksOrNorm(mem)
    BY <1>19, <1>f DEF Setup, S03Setup
  <2>2. SettingOut(Setup(in), Declared)
    BY <1>1, <1>4, <1>19, <2>1, TrainableIsDeclared
  <2>3. ParamsOK(Declared)
    BY <1>15, <1>19, TrainableIsDeclared DEF ParamsOK
  <2>4. \A p : Version(Declared, p, 0) = Untouched
    BY DEF Version, After, Untouched
  <2>5. Past(cfg.start..Steps, 0) = {} /\ Past(cfg.means, 0) = {}
    BY <2>1, StepsAssumption DEF WindowValid, Past
  <2>6. Mixed(Declared, {}) = [g \in Group |-> {}]
    BY DEF Mixed
  <2>7. Setup(in).weights = [p \in Param |-> Version(Declared, p, 0)]
    BY <2>2, <2>4 DEF SettingOut
  <2> QED
    BY <1>15, <1>19, <2>1, <2>2, <2>3, <2>5, <2>6, <2>7 DEF Trajectory, SettingOut
<1> QED
  BY <1>7, <1>9, <1>10, <1>12, <1>13, <1>14, <1>16, <1>17, <1>18, <1>19 DEF ConfigOK, Scripts, Drivers

-----------------------------------------------------------------------------
(* Checkpoints *)

\* The configurations the property says nothing of
Exempt(x) == (cfg.fos /\ (cfg.ema \/ x # Main)) \/ cfg.select = "gradient_ratio"

\* What a checkpoint mixes is what its name stands for.
AsNamed(x, of) ==
  \A g \in Group : of[g] = IF g \in Declared THEN {After(n) : n \in Window(x)} ELSE {Untouched}

\* A file is a pair of a kind and a number of updates, and the outputs of a
\* program are files that no iteration writes.
LEMMA FileNames ==
  ASSUME ConfigOK
  PROVE  /\ Main \in File /\ <<"last", 0>> \in File /\ <<"ema", 0>> \in File
         /\ \A n \in 1..Steps : <<"step", n>> \in File
         /\ \A n : <<"step", n>> \notin {Main, <<"last", 0>>, <<"ema", 0>>}
         /\ Main # <<"last", 0>> /\ Main # <<"ema", 0>> /\ <<"last", 0>> # <<"ema", 0>>
         /\ cfg.script = "S03" => /\ Outputs = <<Main, <<"last", 0>>, <<"ema", 0>>>> /\ Len(Outputs) = 3
                                  /\ Outputs[1] = Main /\ Outputs[2] = <<"last", 0>> /\ Outputs[3] = <<"ema", 0>>
         /\ cfg.script # "S03" => Outputs = <<Main>> /\ Len(Outputs) = 1 /\ Outputs[1] = Main
  BY DEF File, Main, Outputs

\* A mixture of some updates is a mixture, and has versions of every group.
LEMMA MixedIs ==
  ASSUME NEW ps, NEW Q \in SUBSET Nat, Q # {}
  PROVE  /\ Mixed(ps, Q) \in Mixture
         /\ \A g \in Group : Mixed(ps, Q)[g] # {}
         /\ \A g \in Group : Mixed(ps, Q)[g] = IF g \in ps THEN {After(n) : n \in Q} ELSE {Untouched}
<1>1. ASSUME NEW g \in Group
      PROVE  {Version(ps, g, n) : n \in Q} = IF g \in ps THEN {After(n) : n \in Q} ELSE {Untouched}
  <2>1. CASE g \in ps
    BY <2>1 DEF Version
  <2>2. CASE g \notin ps
    BY <2>2 DEF Version
  <2> QED
    BY <2>1, <2>2
<1>2. \A n \in Nat : After(n) \in [updates : Nat, pulls : Nat]
  BY DEF After
<1>3. Untouched \in [updates : Nat, pulls : Nat]
  BY DEF Untouched
<1>4. \A g, n : Version(ps, g, n) = After(n) \/ Version(ps, g, n) = Untouched
  BY DEF Version
<1>5. ASSUME NEW g \in Group
      PROVE  {Version(ps, g, n) : n \in Q} \in SUBSET [updates : Nat, pulls : Nat]
  BY <1>2, <1>3, <1>4
<1>6. \A g \in Group : {Version(ps, g, n) : n \in Q} # {}
  OBVIOUS
<1> QED
  BY <1>1, <1>5, <1>6 DEF Mixed, Mixture

\* What is mixed of the declared parameters is as named.
LEMMA MixedAsNamed ==
  ASSUME ConfigOK, NEW ps, ParamsOK(ps), NEW x, ~Exempt(x), ~cfg.fos, Window(x) \in SUBSET Nat, Window(x) # {}
  PROVE  AsNamed(x, Mixed(ps, Window(x)))
<1>1. ps = Declared
  BY DEF ParamsOK, Exempt
<1> QED
  BY <1>1, MixedIs DEF AsNamed

\* The outputs: what Save writes mixes the weights of its window, and with
\* FOS-11 the path that has been trained goes into fc2.
LEMMA OutputsAsNamed ==
  ASSUME ConfigOK, Trajectory(mem), IsMemory(mem), mem.step = Steps, NEW i \in 1..Len(Outputs)
  PROVE  /\ Outputs[i] \in File
         /\ Saved(Outputs[i], mem) \in Mixture
         /\ \A g \in Group : Saved(Outputs[i], mem)[g] # {}
         /\ ~Exempt(Outputs[i]) => AsNamed(Outputs[i], Saved(Outputs[i], mem))
<1> DEFINE x == Outputs[i]
<1> DEFINE of == Saved(x, mem)
<1> DEFINE ps == mem.params
<1>0. ParamsOK(ps) /\ Steps \in Nat /\ Steps \in 0..Steps /\ (0..Steps) \in SUBSET Nat
  BY StepsAssumption DEF Trajectory
<1>1. StateDict(mem) = Mixed(ps, {Steps}) /\ {Steps} \in SUBSET Nat /\ {Steps} # {}
  <2>1. mem.weights = [p \in Param |-> Version(ps, p, Steps)]
    BY DEF Trajectory
  <2>2. StateDict(mem) = Mixed(ps, {Steps})
    <3> HIDE DEF ps
    <3> QED
      BY ONLY <2>1, Mixing
  <2>3. {Steps} \in SUBSET Nat /\ {Steps} # {}
    BY <1>0
  <2> QED
    BY <2>2, <2>3
<1>2. CASE cfg.script = "S03"
  <2>1. WindowValid /\ mem.tailEma = Mixed(ps, Past(cfg.start..Steps, Steps)) /\ mem.mean = Mixed(ps, Past(cfg.means, Steps))
    BY <1>2 DEF Trajectory
  <2>2. Past(cfg.start..Steps, Steps) = cfg.start..Steps /\ Past(cfg.means, Steps) = cfg.means
    BY <2>1, StepsAssumption DEF WindowValid, Past
  <2>3. /\ (cfg.start..Steps) \in SUBSET Nat /\ (cfg.start..Steps) # {}
        /\ cfg.means \in SUBSET Nat /\ cfg.means # {}
    BY <2>1, StepsAssumption DEF WindowValid
  <2>4. x = Main \/ x = <<"last", 0>> \/ x = <<"ema", 0>>
    <3>1. Len(Outputs) = 3
      BY <1>2, FileNames
    <3>2. i = 1 \/ i = 2 \/ i = 3
      BY <3>1
    <3> QED
      BY <1>2, <3>2, FileNames
  <2>5. ~cfg.fos /\ ~cfg.ema
    BY <1>2 DEF ConfigOK, Drivers
  <2>6. Fold(mem) = mem
    BY <2>5 DEF Fold
  <2>7. Window(x) \in SUBSET Nat /\ Window(x) # {} /\ of = Mixed(ps, Window(x))
    <3>1. CASE x = Main
      BY <1>2, <2>1, <2>2, <2>3, <3>1, FileNames DEF Window, Saved
    <3>2. CASE x = <<"last", 0>>
      <4>1. Window(x) = {Steps}
        BY <3>2, FileNames DEF Window
      <4>2. of = StateDict(mem)
        BY <2>6, <3>2, FileNames DEF Saved
      <4> QED
        BY <1>0, <1>1, <4>1, <4>2
    <3>3. CASE x = <<"ema", 0>>
      BY <2>1, <2>2, <2>3, <3>3, FileNames DEF Window, Saved
    <3> QED
      BY <2>4, <3>1, <3>2, <3>3
  <2> HIDE DEF x, of
  <2>8. x \in File
    BY <2>4, FileNames
  <2>9. ~Exempt(x) => AsNamed(x, of)
    BY <1>0, <2>5, <2>7, MixedAsNamed
  <2>10. of \in Mixture /\ \A g \in Group : of[g] # {}
    BY <2>7, MixedIs
  <2> QED
    BY <2>8, <2>9, <2>10 DEF x, of
<1>3. CASE cfg.script # "S03"
  <2>1. x = Main
    BY <1>3, FileNames
  <2>2. Window(x) = UpTo(Steps)
    BY <1>3, <2>1, FileNames DEF Window
  <2>3. CASE cfg.ema
    <3>1. of = Mixed(ps, 0..Steps)
      BY <1>3, <2>1, <2>3, FileNames DEF Saved, Trajectory
    <3>2. Window(x) = 0..Steps
      BY <2>2, <2>3 DEF UpTo
    <3> HIDE DEF x, of
    <3>3. (0..Steps) # {}
      BY <1>0
    <3>4. of \in Mixture /\ \A g \in Group : of[g] # {}
      BY <1>0, <3>1, <3>3, MixedIs
    <3>5. ~Exempt(x) => ~cfg.fos
      BY <2>3 DEF Exempt
    <3>6. ~Exempt(x) => AsNamed(x, of)
      BY <1>0, <3>1, <3>2, <3>3, <3>5, MixedAsNamed
    <3>7. x \in File
      BY <2>1, FileNames
    <3> QED
      BY <3>4, <3>6, <3>7 DEF x, of
  <2>4. CASE ~cfg.ema /\ ~cfg.fos
    <3>1. Fold(mem) = mem
      BY <2>4 DEF Fold
    <3>2. of = StateDict(mem)
      BY <1>3, <2>1, <2>4, <3>1, FileNames DEF Saved
    <3>3. Window(x) = {Steps}
      BY <2>2, <2>4 DEF UpTo
    <3> HIDE DEF x, of
    <3>4. of \in Mixture /\ \A g \in Group : of[g] # {}
      <4> DEFINE Q == {Steps}
      <4>1. Q \in SUBSET Nat /\ Q # {} /\ of = Mixed(ps, Q)
        BY <1>1, <3>2
      <4> HIDE DEF Q, ps
      <4> QED
        BY <4>1, MixedIs
    <3>5. ~Exempt(x) => AsNamed(x, of)
      BY <1>0, <1>1, <2>4, <3>2, <3>3, MixedAsNamed
    <3>6. x \in File
      BY <2>1, FileNames
    <3> QED
      BY <3>4, <3>5, <3>6 DEF x, of
  <2>5. CASE ~cfg.ema /\ cfg.fos
    <3> DEFINE f == Fold(mem)
    <3>1. of = StateDict(f)
      BY <1>3, <2>1, <2>5, FileNames DEF Saved
    <3>2. Window(x) = {Steps} /\ Declared = {"fc2"} /\ cfg.select = "none"
      BY <2>2, <2>5 DEF UpTo, Declared, ConfigOK
    <3>3. ps = {"B"}
      BY <1>0, <2>5, <3>2 DEF ParamsOK
    <3>4. f.weights = [mem.weights EXCEPT !["fc2"] = mem.weights["B"]]
      BY <2>5 DEF Fold, IsMemory, Fields
    <3>5. mem.weights = [p \in Param |-> Version({"B"}, p, Steps)]
      BY <3>3 DEF Trajectory
    <3>6. mem.weights["B"] = After(Steps)
      BY <3>5 DEF Version, Param
    <3>7. \A g \in Group \ {"fc2"} : mem.weights[g] = Untouched
      BY <3>5 DEF Version, Param, Group
    <3> HIDE DEF f
    <3>8. \A g \in Group : f.weights[g] = IF g = "fc2" THEN After(Steps) ELSE Untouched
      BY <3>4, <3>5, <3>6, <3>7 DEF Param, Group
    <3>9. of = Mixed({"fc2"}, {Steps})
      BY <3>1, <3>8 DEF StateDict, Mixed, Version
    <3> DEFINE Q == {Steps}
    <3> DEFINE fc2 == {"fc2"}
    <3>10. Q \in SUBSET Nat /\ Q # {} /\ of = Mixed(fc2, Q)
      BY <1>1, <3>9
    <3> HIDE DEF x, of, Q, fc2
    <3>11. of \in Mixture /\ \A g \in Group : of[g] # {}
      BY <3>10, MixedIs
    <3>14. \A g \in Group : of[g] = IF g \in fc2 THEN {After(n) : n \in Q} ELSE {Untouched}
      <4>1. \A g \in Group : Mixed(fc2, Q)[g] = IF g \in fc2 THEN {After(n) : n \in Q} ELSE {Untouched}
        BY <3>10, MixedIs, Zenon
      <4> QED
        BY <3>10, <4>1, Zenon
    <3>12. AsNamed(x, of)
      BY <3>2, <3>14 DEF AsNamed, Q, fc2
    <3>13. x \in File
      BY <2>1, FileNames
    <3> QED
      BY <3>11, <3>12, <3>13 DEF x, of
  <2> QED
    BY <2>3, <2>4, <2>5
<1> QED
  BY <1>2, <1>3

\* The snapshots: what an iteration writes under its number of updates
LEMMA SnapshotsAsNamed ==
  ASSUME ConfigOK, NEW s, Trajectory(s), s.step \in 1..Steps
  PROVE  /\ Snapshot(s) \in Mixture
         /\ \A g \in Group : Snapshot(s)[g] # {}
         /\ ~Exempt(<<"step", s.step>>) => AsNamed(<<"step", s.step>>, Snapshot(s))
<1> DEFINE x == <<"step", s.step>>
<1> DEFINE ps == s.params
<1>0. ParamsOK(ps) /\ (cfg.ema => s.ema = Mixed(ps, 0..s.step)) /\ s.weights = [p \in Param |-> Version(ps, p, s.step)]
  BY DEF Trajectory
<1>1. ParamsOK(ps) /\ StateDict(s) = Mixed(ps, {s.step}) /\ (cfg.ema => s.ema = Mixed(ps, 0..s.step))
  BY <1>0, Mixing
<1>2. Snapshot(s) = Mixed(ps, UpTo(s.step))
  BY <1>1 DEF Snapshot, UpTo
<1>3. UpTo(s.step) \in SUBSET Nat /\ UpTo(s.step) # {}
  <2>1. s.step \in Nat /\ s.step \in UpTo(s.step)
    BY StepsAssumption DEF UpTo
  <2> QED
    BY <2>1 DEF UpTo
<1>4. Window(x) = UpTo(s.step)
  <2>1. x # <<"ema", 0>> /\ x # <<"last", 0>> /\ x # Main
    BY FileNames
  <2> QED
    BY <2>1 DEF Window
<1>5. ~Exempt(x) => ~cfg.fos
  <2>1. x # Main
    BY FileNames
  <2> QED
    BY <2>1 DEF Exempt
<1> HIDE DEF x
<1>6. ~Exempt(x) => AsNamed(x, Snapshot(s))
  BY <1>1, <1>2, <1>3, <1>4, <1>5, MixedAsNamed
<1> QED
  BY <1>2, <1>3, <1>6, MixedIs DEF x

-----------------------------------------------------------------------------
(* The checkpoints of a program, by induction over its steps *)

\* What the steps from the set-up on rely on: a trajectory between two
\* iterations, and as many outputs as have been saved.
TrajectoryInv ==
  /\ pc = "setup" => Unchanged(mem)
  /\ pc \in {"loop", "saving"} => Trajectory(mem) /\ mem.step \in 0..Steps
  /\ pc = "loop" => mem.step < Steps /\ mem.saved = 0
  /\ pc = "saving" => mem.saved \in 0..Len(Outputs)

FilesInv == DOMAIN files = File /\ launch \in Nat /\ CheckpointIsItsStep

\* The memory s is saved under the name x, as the mixture of.
Writes(x, s, of) == files' = [files EXCEPT ![x] = Checkpoint(s, of)]

\* A checkpoint that is written is there, with what it was given.
LEMMA Written ==
  ASSUME DOMAIN files = File, launch \in Nat, NEW x \in File, NEW s, s.finite \in BOOLEAN, NEW of \in Mixture, Writes(x, s, of)
  PROVE  /\ DOMAIN files' = File
         /\ files'[x] # None /\ files'[x].of = of /\ files'[x].finite = s.finite /\ files'[x].by = launch
         /\ \A y \in File : y # x => files'[y] = files[y]
<1>1. Checkpoint(s, of) \in [of : Mixture, finite : BOOLEAN, by : Nat]
  BY DEF Checkpoint
<1>2. Checkpoint(s, of) # None
  BY <1>1, NoneAssumption
<1>3. Checkpoint(s, of).of = of /\ Checkpoint(s, of).finite = s.finite /\ Checkpoint(s, of).by = launch
  BY DEF Checkpoint
<1> HIDE DEF Checkpoint
<1> QED
  BY <1>2, <1>3 DEF Writes

\* A torn one cannot be read.
LEMMA TornIsNotWhole ==
  ASSUME DOMAIN files = File, NEW x \in File, files' = [files EXCEPT ![x] = Torn]
  PROVE  /\ DOMAIN files' = File /\ ~Whole(x)'
         /\ \A y \in File : y # x => files'[y] = files[y]
<1>1. Torn.of["head"] = {} /\ "head" \in Group
  BY DEF Torn, Group
<1> QED
  BY <1>1 DEF Whole

\* What is being written is a file.
LEMMA WritingFiles ==
  ASSUME ConfigOK, TrajectoryInv
  PROVE  Writing \subseteq File
<1>1. CASE pc = "loop" /\ Due(mem.step + 1)
  <2>1. mem.step + 1 \in 1..Steps
    BY <1>1, StepsAssumption DEF TrajectoryInv
  <2>2. Writing = {<<"step", mem.step + 1>>}
    BY <1>1 DEF Writing
  <2> QED
    BY <2>1, <2>2, FileNames
<1>2. CASE pc = "saving" /\ mem.saved < Len(Outputs)
  <2>1. Writing = {Outputs[mem.saved + 1]}
    BY <1>2 DEF Writing
  <2>2. mem.saved + 1 \in 1..Len(Outputs)
    <3>1. Len(Outputs) \in Nat /\ mem.saved \in 0..Len(Outputs)
      BY <1>2, FileNames DEF TrajectoryInv
    <3> QED
      BY <1>2, <3>1
  <2>3. \A i \in 1..Len(Outputs) : Outputs[i] \in File
    <3>1. CASE cfg.script = "S03"
      <4>1. Len(Outputs) = 3
        BY <3>1, FileNames
      <4>2. \A i \in 1..3 : i = 1 \/ i = 2 \/ i = 3
        OBVIOUS
      <4> QED
        BY <3>1, <4>1, <4>2, FileNames
    <3>2. CASE cfg.script # "S03"
      <4>1. Len(Outputs) = 1
        BY <3>2, FileNames
      <4>2. \A i \in 1..1 : i = 1
        OBVIOUS
      <4> QED
        BY <3>2, <4>1, <4>2, FileNames
    <3> QED
      BY <3>1, <3>2
  <2> QED
    BY <2>1, <2>2, <2>3
<1>3. CASE ~(pc = "loop" /\ Due(mem.step + 1)) /\ ~(pc = "saving" /\ mem.saved < Len(Outputs))
  BY <1>3 DEF Writing
<1> QED
  BY <1>1, <1>2, <1>3

\* Every step keeps what the checkpoints rely on, and writes only what is as
\* its name says.
LEMMA CheckpointStep ==
  ASSUME IInv, TrajectoryInv, FilesInv, [Next]_vars
  PROVE  TrajectoryInv' /\ FilesInv'
<1> USE DEF Running
<1>c. ConfigOK
  BY DEF IInv
<1>d. DOMAIN files = File /\ launch \in Nat
  BY DEF FilesInv
<1>g. cfg' = cfg
  BY DEF Next, vars, Launch, Prepare, Update, Save, Conclude, SaveFails, Kill, Finished
<1>t. ASSUME Trajectory(mem')
      PROVE  Trajectory(mem)'
  BY <1>g, <1>t DEF Trajectory, ParamsOK, Declared, Version, After, Mixed, WindowValid
<1>o. Outputs' = Outputs
  BY <1>g DEF Outputs
\* Of the files, only the one that has been written needs a look.
<1>w. ASSUME NEW x \in File, DOMAIN files' = File, \A y \in File : y # x => files'[y] = files[y],
             ~Whole(x)' \/ Exempt(x) \/ AsNamed(x, files'[x].of)
      PROVE  CheckpointIsItsStep'
  <2>1. \A y : Exempt(y)' <=> Exempt(y)
    BY <1>g DEF Exempt
  <2>2. \A y : AsNamed(y, files'[y].of) => AsNamed(y, files[y].of)'
    BY <1>g DEF AsNamed, Declared, Window, UpTo, After
  <2>3. \A y \in File : Whole(y) /\ ~Exempt(y) => AsNamed(y, files[y].of)
    BY DEF FilesInv, CheckpointIsItsStep, Exempt, AsNamed
  <2>4. ASSUME NEW y \in File, Whole(y)', ~Exempt(y)
        PROVE  AsNamed(y, files'[y].of)
    <3>1. CASE y = x
      BY <1>w, <2>4, <3>1
    <3>2. CASE y # x
      <4>1. files'[y] = files[y]
        BY <1>w, <3>2
      <4>2. Whole(y)
        BY <2>4, <4>1 DEF Whole
      <4> QED
        BY <2>3, <2>4, <4>1, <4>2
    <3> QED
      BY <3>1, <3>2
  <2>5. \A y \in File : Whole(y)' /\ ~Exempt(y)' => AsNamed(y, files[y].of)'
    BY <2>1, <2>2, <2>4
  <2> QED
    BY <2>5 DEF CheckpointIsItsStep, Exempt, AsNamed
<1>u. ASSUME UNCHANGED files
      PROVE  CheckpointIsItsStep'
  BY <1>g, <1>u DEF FilesInv, CheckpointIsItsStep, Whole, Declared, Window, UpTo, After
<1>l. launch' \in Nat
  BY DEF FilesInv, Next, vars, Launch, Prepare, Update, Save, Conclude, SaveFails, Kill, Finished
<1>r. ASSUME NEW x \in Writing, files' = [files EXCEPT ![x] = Torn]
      PROVE  DOMAIN files' = File /\ CheckpointIsItsStep'
  <2>1. x \in File
    BY <1>c, <1>r, WritingFiles
  <2>2. /\ DOMAIN files' = File /\ ~Whole(x)'
        /\ \A y \in File : y # x => files'[y] = files[y]
    BY <1>r, <2>1, TornIsNotWhole DEF FilesInv
  <2> QED
    BY <1>w, <2>1, <2>2
<1>1. CASE Launch
  <2>1. CASE Preserved
    BY <1>1, <1>l, <1>u, <2>1 DEF Launch, TrajectoryInv, FilesInv
  <2>2. CASE ~Preserved
    <3>1. pc' = "setup" /\ mem' = Fresh /\ UNCHANGED files
      BY <1>1, <2>2 DEF Launch
    <3>2. Unchanged(Fresh)
      BY DEF Fresh, Unchanged
    <3> HIDE DEF Unchanged
    <3>3. Unchanged(mem')
      BY <3>1, <3>2
    <3>4. TrajectoryInv'
      BY <3>1, <3>3 DEF TrajectoryInv, Unchanged
    <3> QED
      BY <1>l, <1>u, <3>1, <3>4 DEF FilesInv
  <2> QED
    BY <2>1, <2>2
<1>2. CASE Prepare
  <2>1. PICK in \in [blocks : Selections, signal : BOOLEAN] :
          /\ Setup(in).error => pc' = "failed" /\ mem' = Setup(in)
          /\ ~Setup(in).error => pc' = "loop" /\ mem' = Setup(in)
    BY <1>2 DEF Prepare, Abort
  <2>2. pc = "setup" /\ UNCHANGED files
    BY <1>2 DEF Prepare
  <2>3. IsMemory(mem) /\ Unchanged(mem) /\ in.blocks \in Selections
    BY <2>1, <2>2 DEF IInv, MemoryInv, TrajectoryInv
  <2>4. ~Setup(in).error => Trajectory(Setup(in)) /\ Setup(in).step = 0 /\ Setup(in).saved = 0
    BY <1>c, <2>3, TrajectoryStarts
  <2>5. CASE Setup(in).error
    BY <1>l, <1>u, <2>1, <2>2, <2>5 DEF TrajectoryInv, FilesInv
  <2>6. CASE ~Setup(in).error
    <3>1. pc' = "loop" /\ mem' = Setup(in)
      BY <2>1, <2>6
    <3>2. Trajectory(mem)' /\ mem'.step = 0 /\ mem'.saved = 0
      BY <1>t, <2>4, <2>6, <3>1
    <3>3. TrajectoryInv'
      BY <3>1, <3>2, StepsAssumption DEF TrajectoryInv
    <3> QED
      BY <1>l, <1>u, <2>2, <3>3 DEF FilesInv
  <2> QED
    BY <2>5, <2>6
<1>3. CASE Update
  <2>1. PICK in \in [grads : Gradients, cka : BatchCka, diverges : BOOLEAN] :
          LET s == Updated(in)
          IN  IF s.error THEN Abort(s) /\ UNCHANGED files
              ELSE /\ mem' = s
                   /\ pc' = IF s.step = Steps THEN "saving" ELSE "loop"
                   /\ files' = IF Due(s.step)
                               THEN [files EXCEPT ![<<"step", s.step>>] = Checkpoint(s, Snapshot(s))]
                               ELSE files
    BY <1>3 DEF Update
  <2>2. pc = "loop"
    BY <1>3 DEF Update
  <2>3. IsMemory(mem) /\ Trajectory(mem) /\ mem.step \in Nat /\ mem.step < Steps /\ mem.saved = 0
    BY <2>2, StepsAssumption DEF IInv, MemoryInv, TrajectoryInv
  <2> DEFINE s == Updated(in)
  <2>4. CASE s.error
    BY <1>l, <1>u, <2>1, <2>4 DEF Abort, TrajectoryInv, FilesInv
  <2>5. CASE ~s.error
    <3>1. Trajectory(s) /\ s.step = mem.step + 1 /\ s.saved = 0
      BY <1>c, <2>3, <2>5, TrajectoryGoesOn
    <3>2. s.step \in 1..Steps
      BY <2>3, <3>1, StepsAssumption
    <3>3. /\ mem' = s
          /\ pc' = IF s.step = Steps THEN "saving" ELSE "loop"
          /\ files' = IF Due(s.step) THEN [files EXCEPT ![<<"step", s.step>>] = Checkpoint(s, Snapshot(s))] ELSE files
      BY <2>1, <2>5
    <3> HIDE DEF s
    <3>4. Trajectory(mem)'
      BY <1>t, <3>1, <3>3
    <3>5. TrajectoryInv'
      <4>1. Len(Outputs)' \in Nat
        BY <1>c, <1>o, FileNames
      <4> QED
        BY <3>1, <3>2, <3>3, <3>4, <4>1, StepsAssumption DEF TrajectoryInv
    <3>6. CASE ~Due(s.step)
      BY <1>l, <1>u, <3>3, <3>5, <3>6 DEF FilesInv
    <3>7. CASE Due(s.step)
      <4> DEFINE x == <<"step", s.step>>
      <4>1. x \in File
        BY <1>c, <3>2, FileNames
      <4>2. Snapshot(s) \in Mixture /\ (~Exempt(x) => AsNamed(x, Snapshot(s)))
        BY <1>c, <3>1, <3>2, SnapshotsAsNamed
      <4>3. s.finite \in BOOLEAN
        BY <3>1 DEF Trajectory
      <4>4. Writes(x, s, Snapshot(s))
        BY <3>3, <3>7 DEF Writes
      <4> HIDE DEF x
      <4>5. /\ DOMAIN files' = File /\ files'[x].of = Snapshot(s)
            /\ \A y \in File : y # x => files'[y] = files[y]
        BY ONLY <1>d, <4>1, <4>2, <4>3, <4>4, Written
      <4>6. CheckpointIsItsStep'
        BY <1>w, <4>1, <4>2, <4>5
      <4> QED
        BY <1>l, <3>5, <4>5, <4>6 DEF FilesInv
    <3> QED
      BY <3>6, <3>7
  <2> QED
    BY <2>4, <2>5
<1>4. CASE Save
  <2> DEFINE x == Outputs[mem.saved + 1]
  <2>1. /\ pc = "saving" /\ mem.saved < Len(Outputs)
        /\ \/ /\ files' = [files EXCEPT ![x] = Checkpoint(mem, Saved(x, mem))]
              /\ mem' = [mem EXCEPT !.saved = @ + 1] /\ pc' = pc
           \/ pc' = "failed" /\ UNCHANGED files
    BY <1>4 DEF Save, Abort
  <2>2. IsMemory(mem) /\ Trajectory(mem) /\ mem.step = Steps /\ mem.saved \in 0..Len(Outputs)
    BY <2>1 DEF IInv, MemoryInv, RateInv, TrajectoryInv
  <2>3. mem.saved + 1 \in 1..Len(Outputs)
    <3>1. Len(Outputs) \in Nat
      BY <1>c, FileNames
    <3> QED
      BY <2>1, <2>2, <3>1
  <2>4. x \in File /\ Saved(x, mem) \in Mixture /\ (~Exempt(x) => AsNamed(x, Saved(x, mem)))
    BY <1>c, <2>2, <2>3, OutputsAsNamed
  <2> HIDE DEF x
  <2>5. CASE pc' = "failed" /\ UNCHANGED files
    BY <1>l, <1>u, <2>5 DEF TrajectoryInv, FilesInv
  <2>6. CASE /\ files' = [files EXCEPT ![x] = Checkpoint(mem, Saved(x, mem))]
             /\ mem' = [mem EXCEPT !.saved = @ + 1] /\ pc' = pc
    <3>0. Writes(x, mem, Saved(x, mem))
      BY <2>6 DEF Writes
    <3>1. mem.finite \in BOOLEAN
      BY <2>2 DEF Trajectory
    <3>2. /\ DOMAIN files' = File /\ files'[x].of = Saved(x, mem)
          /\ \A y \in File : y # x => files'[y] = files[y]
      BY ONLY <1>d, <2>4, <3>0, <3>1, Written
    <3>3. CheckpointIsItsStep'
      BY <1>w, <2>4, <3>2
    <3>4. /\ mem'.step = mem.step /\ mem'.params = mem.params /\ mem'.weights = mem.weights /\ mem'.ema = mem.ema
          /\ mem'.tailEma = mem.tailEma /\ mem'.mean = mem.mean /\ mem'.finite = mem.finite
          /\ mem'.saved = mem.saved + 1
      BY <2>2, <2>6 DEF IsMemory, Fields
    <3>5. Trajectory(mem')
      BY <2>2, <3>4 DEF Trajectory
    <3>6. TrajectoryInv'
      <4>1. mem'.saved \in 0..Len(Outputs)
        BY <2>3, <3>4
      <4>2. mem'.step = Steps /\ Steps \in 0..Steps
        BY <2>2, <3>4, StepsAssumption
      <4> QED
        BY <1>o, <1>t, <2>1, <2>6, <3>5, <4>1, <4>2 DEF TrajectoryInv
    <3> QED
      BY <1>l, <3>2, <3>3, <3>6 DEF FilesInv
  <2> QED
    BY <2>1, <2>5, <2>6
<1>5. CASE Conclude
  BY <1>5, <1>l, <1>u DEF Conclude, TrajectoryInv, FilesInv
<1>6. CASE SaveFails
  <2>1. pc' = "failed"
    BY <1>6 DEF SaveFails, Abort
  <2>2. PICK x \in Writing : files' = [files EXCEPT ![x] = Torn]
    BY <1>6 DEF SaveFails
  <2> QED
    BY <1>l, <1>r, <2>1, <2>2 DEF TrajectoryInv, FilesInv
<1>7. CASE Kill
  <2>1. pc' = "killed"
    BY <1>7 DEF Kill
  <2>2. CASE UNCHANGED files
    BY <1>l, <1>u, <2>1, <2>2 DEF TrajectoryInv, FilesInv
  <2>3. CASE \E x \in Writing : files' = [files EXCEPT ![x] = Torn]
    <3>1. PICK x \in Writing : files' = [files EXCEPT ![x] = Torn]
      BY <2>3
    <3> QED
      BY <1>l, <1>r, <2>1, <3>1 DEF TrajectoryInv, FilesInv
  <2> QED
    BY <1>7, <2>2, <2>3 DEF Kill
<1>8. CASE UNCHANGED vars
  <2>1. UNCHANGED <<pc, mem, files>>
    BY <1>8 DEF vars
  <2>2. pc \in {"loop", "saving"} => Trajectory(mem)'
    BY <1>t, <2>1 DEF TrajectoryInv
  <2>3. TrajectoryInv'
    BY <1>o, <2>1, <2>2 DEF TrajectoryInv, Unchanged
  <2> QED
    BY <1>l, <1>u, <2>1, <2>3 DEF FilesInv
<1> QED
  BY <1>1, <1>2, <1>3, <1>4, <1>5, <1>6, <1>7, <1>8 DEF Next, Finished

\* The checkpoints are as named throughout.
LEMMA CheckpointInvariance == Spec => [](IInv /\ TrajectoryInv /\ FilesInv)
<1>1. Init => TrajectoryInv /\ FilesInv
  BY DEF Init, TrajectoryInv, FilesInv, CheckpointIsItsStep, Whole
<1>2. (IInv /\ TrajectoryInv /\ FilesInv) /\ [Next]_vars => (IInv /\ TrajectoryInv /\ FilesInv)'
  BY Inductive, CheckpointStep
<1> QED
  BY Initially, <1>1, <1>2, PTL DEF Spec

-----------------------------------------------------------------------------
(* What the report of a driver says *)

IsDriver == cfg.script \in Drivers

\* What the report claims of an output
Good(x) == Whole(x) /\ files[x].by = 1 /\ (cfg.script # "S02" => files[x].finite)

\* The outputs and, for S03, the snapshots of the trajectory
Required(x) == x \in {Outputs[i] : i \in DOMAIN Outputs} \/ (cfg.script = "S03" /\ x \in {"step"} \X cfg.means)

\* A driver runs once: its first launch leaves a report behind.  Until that
\* launch concludes, what it has saved so far is already good.
DriverInv ==
  /\ ~IsDriver => report = None
  /\ IsDriver /\ launch = 0 => report = None /\ (\A x \in File : files[x] = None) /\ pc = "idle"
  /\ IsDriver /\ launch > 0 => report # None
  /\ IsDriver /\ Running => launch = 1 /\ report \notin Completed
  /\ IsDriver /\ pc = "saving" => \A i \in 1..mem.saved : Good(Outputs[i])
  /\ cfg.script = "S03" /\ pc \in {"loop", "saving"} => \A n \in Past(cfg.means, mem.step) : Good(<<"step", n>>)
  /\ ReportTellsTruth

\* No output is written twice, and none is a snapshot.
LEMMA OutputsDiffer ==
  ASSUME ConfigOK
  PROVE  /\ Len(Outputs) \in Nat /\ DOMAIN Outputs = 1..Len(Outputs)
         /\ \A i, j \in 1..Len(Outputs) : i # j => Outputs[i] # Outputs[j]
         /\ \A i \in 1..Len(Outputs) : \A n : Outputs[i] # <<"step", n>>
<1>1. CASE cfg.script = "S03"
  <2>1. Len(Outputs) = 3 /\ DOMAIN Outputs = 1..3
    BY <1>1 DEF Outputs
  <2>2. \A i \in 1..3 : i = 1 \/ i = 2 \/ i = 3
    OBVIOUS
  <2> QED
    BY <1>1, <2>1, <2>2, FileNames
<1>2. CASE cfg.script # "S03"
  <2>1. Len(Outputs) = 1 /\ DOMAIN Outputs = 1..1
    BY <1>2 DEF Outputs
  <2>2. \A i \in 1..1 : i = 1
    OBVIOUS
  <2> QED
    BY <1>2, <2>1, <2>2, FileNames
<1> QED
  BY <1>1, <1>2

\* An iteration of S03 that does not fail has finite weights where they are
\* to be averaged.
LEMMA SnapshotsAreFinite ==
  ASSUME ConfigOK, IsMemory(mem), cfg.script = "S03", NEW in, ~Updated(in).error, mem.step + 1 \in cfg.means
  PROVE  Updated(in).finite
<1> DEFINE g == Gradient(NextBatches(mem), in)
<1> DEFINE t == OptStep(g, in)
<1>1. IsMemory(NextBatches(mem)) /\ NextBatches(mem).step = mem.step
  BY VersionsKept DEF KeepsVersions
<1>2. IsMemory(g) /\ g.step = mem.step
  BY <1>1, VersionsKept DEF KeepsVersions
<1> HIDE DEF g
<1>3. IsMemory(t) /\ t.step = mem.step
  BY <1>2, UpdateBlocks DEF Keeps
<1>4. Updated(in) = EndIteration(Observe(t))
  BY DEF Updated, S03Update, g
<1> HIDE DEF t
<1>5. IsMemory(Observe(t))
  BY <1>3, UpdateBlocks DEF Keeps
<1>6. EndIteration(Observe(t)).error = Observe(t).error
  BY <1>5 DEF EndIteration, IsMemory, Fields
<1> QED
  BY <1>3, <1>4, <1>6, MeansAreFinite

\* A good output stays good while its file is left alone.
LEMMA StaysGood ==
  ASSUME cfg' = cfg, NEW x, files'[x] = files[x], Good(x)
  PROVE  Good(x)'
  BY DEF Good, Whole

\* A whole checkpoint of the first launch, finite where that is claimed
LEMMA WrittenIsGood ==
  ASSUME cfg' = cfg, DOMAIN files = File, NEW x \in File, NEW s, s.finite \in BOOLEAN, NEW of \in Mixture,
         Writes(x, s, of), launch = 1, \A g \in Group : of[g] # {}, cfg.script # "S02" => s.finite
  PROVE  Good(x)' /\ \A y \in File : y # x => files'[y] = files[y]
<1>1. launch \in Nat
  OBVIOUS
<1>2. /\ files'[x] # None /\ files'[x].of = of /\ files'[x].finite = s.finite /\ files'[x].by = launch
      /\ \A y \in File : y # x => files'[y] = files[y]
  BY <1>1, Written
<1> QED
  BY <1>2 DEF Good, Whole

\* Every step of a driver keeps its report true.
LEMMA DriverStep ==
  ASSUME IInv, TrajectoryInv, FilesInv, DriverInv, [Next]_vars
  PROVE  DriverInv'
<1> USE DEF Running
<1>c. ConfigOK /\ DOMAIN files = File /\ launch \in Nat
  BY DEF IInv, FilesInv
<1>g. cfg' = cfg
  BY DEF Next, vars, Launch, Prepare, Update, Save, Conclude, SaveFails, Kill, Finished
<1>o. Outputs' = Outputs /\ IsDriver' = IsDriver /\ (\A x : Required(x)' <=> Required(x))
  BY <1>g DEF Outputs, IsDriver, Required
<1>n. None \notin Status
  BY NoneAssumption
<1>r. ReportTellsTruth <=> (report \in Completed => \A x \in File : Required(x) => Good(x))
  BY DEF ReportTellsTruth, Required, Good
<1>s. ReportTellsTruth' <=> (report' \in Completed => \A x \in File : Required(x)' => Good(x)')
  BY DEF ReportTellsTruth, Required, Good
<1>f. ASSUME report' \notin Completed
      PROVE  ReportTellsTruth'
  BY <1>f, <1>s
<1>u. ASSUME UNCHANGED <<report, files>>
      PROVE  ReportTellsTruth'
  <2>1. \A x : Good(x) => Good(x)'
    BY <1>g, <1>u, StaysGood
  <2> QED
    BY <1>o, <1>r, <1>s, <1>u, <2>1 DEF DriverInv
\* A step after which nothing runs has only its report to answer for.
<1>e. ASSUME pc' \notin {"setup", "loop", "saving"}, launch' > 0, IsDriver => report' # None,
             ~IsDriver => report' = None, ReportTellsTruth'
      PROVE  DriverInv'
  <2>1. pc' # "saving" /\ pc' # "loop" /\ ~Running'
    BY <1>e
  <2> QED
    BY <1>o, <1>e, <1>c, <2>1 DEF DriverInv
<1>a. ASSUME pc \in {"setup", "loop", "saving"}
      PROVE  IsDriver => launch = 1 /\ report \notin Completed /\ report # None
  BY <1>a DEF DriverInv
<1>l. ASSUME pc \in {"setup", "loop", "saving"}, launch' = launch
      PROVE  launch > 0 \/ ~IsDriver
  BY <1>a, <1>l
\* An exception
<1>x. ASSUME pc \in {"setup", "loop", "saving"}, launch' = launch, NEW s, Abort(s)
      PROVE  DriverInv'
  <2>1. pc' = "failed" /\ report' = IF IsDriver THEN "failed" ELSE report
    BY <1>x DEF Abort, IsDriver
  <2>2. IsDriver => launch' = 1 /\ report' # None /\ report' \notin Completed
    BY <1>a, <1>x, <1>n, <2>1 DEF Completed, Status
  <2>3. ~IsDriver => report' = None /\ report' \notin Completed
    BY <1>n, <2>1 DEF DriverInv, Completed, Status
  <2>4. ReportTellsTruth'
    BY <1>f, <2>2, <2>3
  <2> QED
    BY <1>o, <2>1, <2>2, <2>3, <2>4 DEF DriverInv
<1>1. CASE Launch
  <2>1. CASE Preserved
    <3>1. IsDriver /\ pc' = "refused" /\ UNCHANGED <<report, files>> /\ launch' = launch + 1
      BY <1>1, <2>1 DEF Launch, Preserved, IsDriver
    <3>2. report # None
      BY <2>1, <3>1, <1>c DEF Preserved, DriverInv
    <3> QED
      BY <1>c, <1>e, <1>u, <3>1, <3>2
  <2>2. CASE ~Preserved
    <3>1. /\ pc' = "setup" /\ launch' = launch + 1
          /\ report' = IF IsDriver THEN "preparing" ELSE None
      BY <1>1, <2>2 DEF Launch, IsDriver
    <3>2. IsDriver => launch = 0
      BY <1>c, <2>2 DEF Preserved, DriverInv, IsDriver
    <3>3. report' \notin Completed /\ (IsDriver => report' # None)
      BY <1>n, <3>1 DEF Completed, Status
    <3>4. ReportTellsTruth'
      BY <1>f, <3>3
    <3> QED
      BY <1>c, <1>o, <3>1, <3>2, <3>3, <3>4 DEF DriverInv
  <2> QED
    BY <2>1, <2>2
<1>2. CASE Prepare
  <2>1. PICK in : \/ Abort(Setup(in))
                  \/ /\ ~Setup(in).error /\ pc' = "loop" /\ mem' = Setup(in)
                     /\ report' = IF cfg.script = "S02" THEN "selected_training_pending" ELSE report
                     /\ in.blocks \in Selections
    BY <1>2 DEF Prepare
  <2>2. pc = "setup" /\ launch' = launch /\ UNCHANGED files
    BY <1>2 DEF Prepare
  <2>3. CASE Abort(Setup(in))
    BY <1>x, <2>2, <2>3
  <2>4. CASE /\ ~Setup(in).error /\ pc' = "loop" /\ mem' = Setup(in)
             /\ report' = IF cfg.script = "S02" THEN "selected_training_pending" ELSE report
             /\ in.blocks \in Selections
    <3>1. IsMemory(mem) /\ Unchanged(mem)
      BY <2>2 DEF IInv, MemoryInv, TrajectoryInv
    <3>2. Trajectory(mem') /\ mem'.step = 0
      BY <1>c, <2>4, <3>1, TrajectoryStarts
    <3>3. cfg.script = "S03" => Past(cfg.means, mem'.step) = {}
      BY <3>2, StepsAssumption DEF Trajectory, WindowValid, Past
    <3>4. cfg.script = "S02" => IsDriver
      BY DEF IsDriver, Drivers
    <3>5. IsDriver => report' # None /\ report' \notin Completed /\ launch' = 1
      BY <1>a, <1>n, <2>2, <2>4 DEF Completed, Status
    <3>6. ~IsDriver => report' = None
      BY <2>4, <3>4 DEF DriverInv
    <3>7. ReportTellsTruth'
      BY <1>f, <1>n, <3>5, <3>6 DEF Completed, Status
    <3>8. Past(cfg.means, mem.step)' = Past(cfg.means, mem'.step)
      BY <1>g
    <3>9. cfg.script = "S03" => \A n \in Past(cfg.means, mem.step)' : Good(<<"step", n>>)'
      BY <3>3, <3>8
    <3> QED
      BY <1>g, <1>o, <2>4, <3>5, <3>6, <3>7, <3>9 DEF DriverInv
  <2> QED
    BY <2>1, <2>3, <2>4
<1>3. CASE Update
  <2>1. PICK in \in [grads : Gradients, cka : BatchCka, diverges : BOOLEAN] :
          LET s == Updated(in)
          IN  IF s.error THEN Abort(s) /\ UNCHANGED files
              ELSE /\ mem' = s
                   /\ pc' = IF s.step = Steps THEN "saving" ELSE "loop"
                   /\ files' = IF Due(s.step)
                               THEN [files EXCEPT ![<<"step", s.step>>] = Checkpoint(s, Snapshot(s))]
                               ELSE files
                   /\ report' = IF cfg.script \in {"S03", "S04"} THEN "training" ELSE report
    BY <1>3 DEF Update
  <2>2. pc = "loop" /\ launch' = launch
    BY <1>3 DEF Update
  <2>3. IsMemory(mem) /\ Trajectory(mem) /\ mem.step \in Nat /\ mem.step < Steps /\ mem.saved = 0
    BY <2>2, StepsAssumption DEF IInv, MemoryInv, TrajectoryInv
  <2> DEFINE s == Updated(in)
  <2>4. CASE s.error
    BY <1>x, <2>1, <2>2, <2>4
  <2>5. CASE ~s.error
    <3>1. Trajectory(s) /\ s.step = mem.step + 1 /\ s.saved = 0
      BY <1>c, <2>3, <2>5, TrajectoryGoesOn
    <3>2. s.step \in 1..Steps
      BY <2>3, <3>1, StepsAssumption
    <3>3. /\ mem' = s
          /\ pc' = IF s.step = Steps THEN "saving" ELSE "loop"
          /\ files' = IF Due(s.step) THEN [files EXCEPT ![<<"step", s.step>>] = Checkpoint(s, Snapshot(s))] ELSE files
          /\ report' = IF cfg.script \in {"S03", "S04"} THEN "training" ELSE report
      BY <2>1, <2>5
    <3>4. cfg.script = "S03" /\ s.step \in cfg.means => s.finite
      BY <1>c, <2>3, <2>5, <3>1, SnapshotsAreFinite
    <3> HIDE DEF s
    <3>5. cfg.script \in {"S03", "S04"} => IsDriver
      BY DEF IsDriver, Drivers
    <3>6. IsDriver => report' # None /\ report' \notin Completed /\ launch' = 1
      BY <1>a, <1>n, <2>2, <3>3 DEF Completed, Status
    <3>7. ~IsDriver => report' = None
      BY <3>3, <3>5 DEF DriverInv
    <3>8. ReportTellsTruth'
      BY <1>f, <1>n, <3>6, <3>7 DEF Completed, Status
    <3>9. ASSUME cfg.script = "S03", NEW n \in Past(cfg.means, s.step)
          PROVE  Good(<<"step", n>>)'
      <4>1. WindowValid /\ IsDriver
        BY <3>1, <3>5, <3>9 DEF Trajectory
      <4>2. n \in cfg.means /\ n \in 1..Steps /\ n <= mem.step + 1
        BY <3>1, <3>9, <4>1, StepsAssumption DEF Past, WindowValid
      <4>3. \A k \in 1..Steps : <<"step", k>> \in File
        BY <1>c, FileNames
      <4>4. Due(s.step) <=> s.step \in cfg.means
        BY <3>9 DEF Due
      <4>5. CASE n = s.step
        <5> DEFINE x == <<"step", n>>
        <5>1. Writes(x, s, Snapshot(s))
          BY <3>3, <3>9, <4>2, <4>4, <4>5 DEF Writes
        <5>7. cfg.script # "S02" => s.finite
          BY <3>4, <3>9, <4>2, <4>5
        <5>2. x \in File
          BY <4>2, <4>3
        <5>3. Snapshot(s) \in Mixture /\ \A g \in Group : Snapshot(s)[g] # {}
          BY <1>c, <3>1, <3>2, SnapshotsAsNamed
        <5>4. s.finite \in BOOLEAN
          BY <3>1 DEF Trajectory
        <5>5. launch = 1
          BY <1>a, <2>2, <4>1
        <5> HIDE DEF x
        <5>6. Good(x)'
          BY <1>c, <1>g, <5>1, <5>2, <5>3, <5>4, <5>5, <5>7, WrittenIsGood
        <5> QED
          BY <5>6 DEF x
      <4>6. CASE n # s.step
        <5>1. n \in Past(cfg.means, mem.step)
          BY <2>3, <3>1, <4>2, <4>6 DEF Past
        <5>2. Good(<<"step", n>>)
          BY <2>2, <3>9, <5>1 DEF DriverInv
        <5>3. <<"step", n>> # <<"step", s.step>> /\ <<"step", n>> \in File
          BY <4>2, <4>3, <4>6
        <5>4. files'[<<"step", n>>] = files[<<"step", n>>]
          BY <1>c, <3>3, <5>3
        <5> QED
          BY <1>g, <5>2, <5>4, StaysGood
      <4> QED
        BY <4>5, <4>6
    <3>10. cfg.script = "S03" => \A n \in Past(cfg.means, mem.step)' : Good(<<"step", n>>)'
      <4>1. Past(cfg.means, mem.step)' = Past(cfg.means, s.step)
        BY <1>g, <3>3
      <4> QED
        BY <3>9, <4>1
    <3>11. mem'.saved = 0 /\ 1..0 = {}
      BY <3>1, <3>3
    <3>12. \A i \in 1..mem'.saved : Good(Outputs[i])'
      BY <3>11
    <3>13. launch' # 0 \/ ~IsDriver'
      BY <1>o, <3>6
    <3> QED
      BY <1>g, <1>o, <3>6, <3>7, <3>8, <3>10, <3>12, <3>13 DEF DriverInv
  <2> QED
    BY <2>4, <2>5
<1>4. CASE Save
  <2>0. PICK x : x = Outputs[mem.saved + 1]
    OBVIOUS
  <2>1. /\ pc = "saving" /\ mem.saved < Len(Outputs) /\ launch' = launch
        /\ \/ /\ Savable(x)
              /\ files' = [files EXCEPT ![x] = Checkpoint(mem, Saved(x, mem))]
              /\ mem' = [mem EXCEPT !.saved = @ + 1] /\ pc' = pc /\ report' = report
           \/ Abort(mem)
    BY <1>4, <2>0 DEF Save
  <2>2. IsMemory(mem) /\ Trajectory(mem) /\ mem.step = Steps /\ mem.saved \in 0..Len(Outputs)
    BY <2>1 DEF IInv, MemoryInv, RateInv, TrajectoryInv
  <2>3. mem.saved + 1 \in 1..Len(Outputs)
    <3>1. Len(Outputs) \in Nat
      BY <1>c, FileNames
    <3> QED
      BY <2>1, <2>2, <3>1
  <2>4. x \in File /\ Saved(x, mem) \in Mixture /\ \A g \in Group : Saved(x, mem)[g] # {}
    BY <1>c, <2>0, <2>2, <2>3, OutputsAsNamed
  <2>5. \A i \in 1..mem.saved : i \in 1..Len(Outputs) /\ Outputs[i] # x
    <3>1. ASSUME NEW i \in 1..mem.saved
          PROVE  i \in 1..Len(Outputs) /\ i # mem.saved + 1
      <4>1. Len(Outputs) \in Nat /\ mem.saved \in Nat
        BY <1>c, <2>2, FileNames
      <4> QED
        BY <2>1, <4>1
    <3> QED
      BY <1>c, <2>0, <2>3, <3>1, OutputsDiffer
  <2>6. \A n : x # <<"step", n>>
    BY <1>c, <2>0, <2>3, OutputsDiffer
  <2>8. CASE Abort(mem)
    BY <1>x, <2>1, <2>8
  <2>9. CASE /\ Savable(x)
             /\ files' = [files EXCEPT ![x] = Checkpoint(mem, Saved(x, mem))]
             /\ mem' = [mem EXCEPT !.saved = @ + 1] /\ pc' = pc /\ report' = report
    <3>1. mem'.saved = mem.saved + 1 /\ mem'.step = mem.step
      BY <2>2, <2>9 DEF IsMemory, Fields
    <3>2. \A y : y # x => files'[y] = files[y]
      BY <1>c, <2>9
    <3>3. IsDriver => \A i \in 1..mem.saved : Good(Outputs[i])'
      <4>1. IsDriver => \A i \in 1..mem.saved : Good(Outputs[i])
        BY <2>1 DEF DriverInv
      <4> QED
        BY <1>g, <1>o, <2>5, <3>2, <4>1, StaysGood
    <3>4. ASSUME IsDriver
          PROVE  Good(x)'
      <4>1. cfg.script # "S02" => mem.finite
        BY <2>9, <3>4 DEF Savable, IsDriver, Drivers
      <4>2. Writes(x, mem, Saved(x, mem))
        BY <2>9 DEF Writes
      <4>3. mem.finite \in BOOLEAN /\ launch = 1
        BY <1>a, <2>1, <2>2, <3>4 DEF Trajectory
      <4> QED
        BY <1>c, <1>g, <2>4, <4>1, <4>2, <4>3, WrittenIsGood
    <3>5. IsDriver => \A i \in 1..mem'.saved : Good(Outputs[i])'
      <4>1. \A i \in 1..(mem.saved + 1) : i \in 1..mem.saved \/ i = mem.saved + 1
        BY <2>2
      <4> QED
        BY <1>o, <2>0, <3>1, <3>3, <3>4, <4>1
    <3>6. cfg.script = "S03" => \A n \in Past(cfg.means, mem.step)' : Good(<<"step", n>>)'
      <4>1. cfg.script = "S03" => \A n \in Past(cfg.means, mem.step) : Good(<<"step", n>>)
        BY <2>1 DEF DriverInv
      <4>2. Past(cfg.means, mem.step)' = Past(cfg.means, mem.step)
        BY <1>g, <3>1
      <4> QED
        BY <1>g, <2>6, <3>2, <4>1, <4>2, StaysGood
    <3>7. IsDriver => report' # None /\ report' \notin Completed /\ launch' = 1
      BY <1>a, <2>1, <2>9
    <3>8. ~IsDriver => report' = None
      BY <2>9 DEF DriverInv
    <3>9. ReportTellsTruth'
      BY <1>f, <1>n, <3>7, <3>8 DEF Completed, Status
    <3>10. launch' # 0 \/ ~IsDriver'
      BY <1>o, <3>7
    <3> QED
      BY <1>g, <1>o, <3>5, <3>6, <3>7, <3>8, <3>9, <3>10 DEF DriverInv
  <2> QED
    BY <2>1, <2>8, <2>9
<1>5. CASE Conclude
  <2>1. /\ pc = "saving" /\ mem.saved = Len(Outputs) /\ pc' = "ended" /\ launch' = launch /\ UNCHANGED files
        /\ IsDriver => report' \in Completed
        /\ ~IsDriver => report' = None
    BY <1>5 DEF Conclude, IsDriver, Completed, Drivers
  <2>2. report' # None \/ ~IsDriver
    BY <1>n, <2>1 DEF Completed, Status
  <2>3. Trajectory(mem) /\ mem.step = Steps
    BY <2>1 DEF IInv, RateInv, TrajectoryInv
  <2>4. ASSUME IsDriver, NEW x \in File, Required(x)
        PROVE  Good(x)
    <3>1. CASE x \in {Outputs[i] : i \in DOMAIN Outputs}
      <4>1. PICK i \in 1..Len(Outputs) : x = Outputs[i]
        BY <1>c, <3>1, OutputsDiffer
      <4> QED
        BY <2>1, <2>4, <4>1 DEF DriverInv
    <3>2. CASE cfg.script = "S03" /\ x \in {"step"} \X cfg.means
      <4>1. PICK n \in cfg.means : x = <<"step", n>>
        BY <3>2
      <4>2. n \in Past(cfg.means, mem.step)
        BY <2>3, <3>2, StepsAssumption DEF Past, Trajectory, WindowValid
      <4> QED
        BY <2>1, <3>2, <4>1, <4>2 DEF DriverInv
    <3> QED
      BY <2>4, <3>1, <3>2 DEF Required
  <2>5. ASSUME IsDriver
        PROVE  ReportTellsTruth'
    <3>1. \A x : Good(x) => Good(x)'
      BY <1>g, <2>1, StaysGood
    <3> QED
      BY <1>o, <1>s, <2>4, <2>5, <3>1
  <2>6. CASE IsDriver
    <3>1. launch' > 0
      BY <1>a, <2>1, <2>6
    <3> QED
      BY <1>e, <2>1, <2>2, <2>5, <2>6, <3>1
  <2>7. CASE ~IsDriver
    <3>1. ReportTellsTruth'
      BY <1>f, <1>n, <2>1, <2>7 DEF Completed, Status
    <3> QED
      BY <1>o, <2>1, <2>7, <3>1 DEF DriverInv, IsDriver, Drivers
  <2> QED
    BY <2>6, <2>7
<1>6. CASE SaveFails
  <2>1. pc \in {"setup", "loop", "saving"} /\ Abort(mem) /\ launch' = launch
    BY <1>6 DEF SaveFails
  <2> QED
    BY <1>x, <2>1
<1>7. CASE Kill
  <2>1. pc \in {"setup", "loop", "saving"} /\ pc' = "killed" /\ launch' = launch /\ report' = report
    BY <1>7 DEF Kill
  <2>2. IsDriver => launch' = 1 /\ report' # None /\ report' \notin Completed
    BY <1>a, <2>1
  <2>3. ~IsDriver => report' = None /\ report' \notin Completed
    BY <1>n, <2>1 DEF DriverInv, Completed, Status
  <2>4. ReportTellsTruth'
    BY <1>f, <2>2, <2>3
  <2> QED
    BY <1>o, <2>1, <2>2, <2>3, <2>4 DEF DriverInv, IsDriver, Drivers
<1>8. CASE UNCHANGED vars
  <2>1. UNCHANGED <<launch, pc, mem, files, report>>
    BY <1>8 DEF vars
  <2>2. \A x : Good(x) => Good(x)'
    BY <1>g, <2>1, StaysGood
  <2>3. ReportTellsTruth'
    BY <1>u, <2>1
  <2>4. Past(cfg.means, mem.step)' = Past(cfg.means, mem.step)
    BY <1>g, <2>1
  <2> QED
    BY <1>g, <1>o, <2>1, <2>2, <2>3, <2>4 DEF DriverInv
<1> QED
  BY <1>1, <1>2, <1>3, <1>4, <1>5, <1>6, <1>7, <1>8 DEF Next, Finished

\* The reports are true throughout.
LEMMA ReportInvariance == Spec => []DriverInv
<1>1. Init => DriverInv
  <2>1. None \notin Completed
    BY NoneAssumption DEF Completed, Status
  <2> QED
    BY <2>1 DEF Init, DriverInv, ReportTellsTruth, Running
<1>2. (IInv /\ TrajectoryInv /\ FilesInv) /\ DriverInv /\ [Next]_vars => DriverInv'
  BY DriverStep
<1> QED
  BY CheckpointInvariance, <1>1, <1>2, PTL DEF Spec

-----------------------------------------------------------------------------
(* Theorems *)

\* Whatever the gradients of a batch are, what the projection lets through of
\* the forget objective never opposes the retain gradient.
THEOREM ProjectionIsSafe == Spec => []ForgetNeverOpposesRetain
<1>1. IInv => ForgetNeverOpposesRetain
  BY DEF IInv, MemoryInv, GradientOK, ForgetNeverOpposesRetain
<1> QED
  BY Invariance, <1>1, PTL

\* For every number of steps, the last update of a falling rate uses the final
\* one, wherever the tail began.
THEOREM TailsEnd == Spec => []TailReachesFinal
<1>1. IInv => TailReachesFinal
  BY StepsAssumption DEF IInv, RateInv, TailValid, RateAt, RateOf, Progress, TailReachesFinal
<1> QED
  BY Invariance, <1>1, PTL

\* Whatever the batch CKAs are, a learning rate never rises within a training.
THEOREM RatesFall == Spec => LearningRateFalls
<1>1. IInv /\ [Next]_vars => [pc = "loop" /\ mem' # None => mem'.lr.num * mem.lr.den >= mem.lr.num * mem'.lr.den]_vars
  BY Inductive
<1> QED
  BY Invariance, <1>1, PTL DEF Spec, LearningRateFalls

\* For every configuration, number of steps, sequence of batches, kill and
\* failing save: a checkpoint that can be read mixes exactly the weights that
\* its name and its configuration stand for.
THEOREM CheckpointsAreTheirSteps == Spec => []CheckpointIsItsStep
<1>1. FilesInv => CheckpointIsItsStep
  BY DEF FilesInv
<1> QED
  BY CheckpointInvariance, <1>1, PTL

\* However a driver is killed and launched again, and whatever save fails: a
\* report of completion speaks of whole, finite outputs of that one run.
THEOREM ReportsAreTrue == Spec => []ReportTellsTruth
<1>1. DriverInv => ReportTellsTruth
  BY DEF DriverInv
<1> QED
  BY ReportInvariance, <1>1, PTL
=============================================================================

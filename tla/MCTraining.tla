----------------------------- MODULE MCTraining -----------------------------
(* Configurations of every program: one switch at a time, and combinations  *)
(* of those that meet in the code.                                          *)
EXTENDS Training

Plain ==
  [script |-> "remap", clean |-> FALSE, aug |-> FALSE, faug |-> FALSE, batch |-> FALSE,
   blocks |-> 2, freeze |-> FALSE, fos |-> FALSE, project |-> FALSE, l2sp |-> "off", ema |-> FALSE,
   every |-> 0, from |-> 0, schedule |-> "constant", tail |-> 0, falling |-> TRUE, floor |-> "set",
   window |-> 2, optimizer |-> "AdamW", scope |-> "last_6_blocks", select |-> "none",
   beta |-> 1, off |-> 100, trainHead |-> TRUE, ckaLoss |-> TRUE,
   start |-> 2, means |-> {}, norm |-> 0, smoke |-> FALSE]

Of(script) == [Plain EXCEPT !.script = script]
Candidates(c) == [c EXCEPT !.every = 2, !.from = 1]

MCConfigs ==
  {Plain, [Plain EXCEPT !.freeze = TRUE, !.blocks = 1], [Plain EXCEPT !.blocks = -1], [Plain EXCEPT !.clean = TRUE],
   [Plain EXCEPT !.aug = TRUE, !.faug = TRUE, !.batch = TRUE], [Plain EXCEPT !.clean = TRUE, !.aug = TRUE, !.batch = TRUE],
   [Plain EXCEPT !.project = TRUE, !.l2sp = "on"], [Plain EXCEPT !.l2sp = "excessive"],
   Candidates(Plain), Candidates([Plain EXCEPT !.ema = TRUE, !.l2sp = "on"]),
   [Plain EXCEPT !.fos = TRUE, !.l2sp = "on"], Candidates([Plain EXCEPT !.fos = TRUE]), [Plain EXCEPT !.optimizer = "unknown"]}
  \cup {[Of("S12") EXCEPT !.project = TRUE, !.l2sp = "on", !.ema = TRUE, !.batch = TRUE]}
  \cup {[Of("S11") EXCEPT !.schedule = "state_tail", !.tail = n, !.window = w, !.floor = f, !.ema = (w = 1)] :
          n \in {0, 1, 3}, w \in {1, 2}, f \in {"set", "unset"}}
  \cup {[Of("S11") EXCEPT !.schedule = "state_tail", !.tail = 1, !.beta = b, !.off = o] :
          b \in {0, 1, 2}, o \in {50, 101}}
  \cup {[Of("S11") EXCEPT !.schedule = "state_tail", !.tail = 1, !.ckaLoss = FALSE]}
  \cup {[Of("S09") EXCEPT !.schedule = k, !.tail = n, !.l2sp = "excessive"] :
          k \in {"constant", "cosine_tail", "bogus"}, n \in {0, 2, 3}}
  \cup {[Of("S08") EXCEPT !.clean = c, !.scope = k, !.blocks = b] :
          c \in BOOLEAN, k \in {"last_6_blocks", "trainable", "unknown"}, b \in {0, 2}}
  \cup {[Of("S06") EXCEPT !.floor = f, !.project = TRUE, !.ckaLoss = c] : f \in {"set", "invalid"}, c \in BOOLEAN}
  \cup {[Of("S01") EXCEPT !.blocks = -1, !.optimizer = o] : o \in {"AdamW", "SGD"}}
  \cup {[Of("S02") EXCEPT !.select = k, !.blocks = n, !.freeze = fz] :
          k \in {"gradient_ratio", "last", "head_only", "all"}, n \in {0, 1}, fz \in BOOLEAN}
  \cup {[Of("S02") EXCEPT !.select = k, !.blocks = 1, !.freeze = fz, !.trainHead = FALSE] :
          k \in {"last", "head_only"}, fz \in BOOLEAN}
  \cup {[Of("S03") EXCEPT !.start = n, !.means = m] : n \in {0, 2, 3}, m \in {{2, 4}, {3, 4}, {2, 3}, {4}}}
  \cup {[Of("S04") EXCEPT !.project = p, !.norm = n, !.smoke = k] : p, k \in BOOLEAN, n \in {0, 2}}

MCBatches == [retain |-> 3, forget |-> 2]
MCGradients == {<<<<2, 0>>, <<-1, 3>>>>, <<<<1, 0>>, <<-2, 1>>>>, <<<<1, 1>>, <<2, -1>>>>, <<<<1, 2>>, <<-2, -3>>>>}

FosConfigs == {Candidates([Plain EXCEPT !.fos = TRUE])}
=============================================================================

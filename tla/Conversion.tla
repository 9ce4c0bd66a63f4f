------------------------------ MODULE Conversion ------------------------------
(***************************************************************************)
(* convert_checkpoint of student_docker/app/services/                      *)
(* checkpoint_conversion.py with the converter process it runs              *)
(* (grading_docker/convert_checkpoint.py): calls for one destination, a     *)
(* participant who edits the source, a converter that may hang, leave       *)
(* helpers behind or keep its output descriptor open, and a killed API.     *)
(*                                                                         *)
(* Simplifications:                                                        *)
(*  - a file's content is the generation of the source it comes from, Torn  *)
(*    for a mixture, or Other for what a child of the converter wrote;      *)
(*  - every write changes a stat signature (no two within one clock tick);  *)
(*  - an output of a size no checkpoint has, empty or too large, is None;    *)
(*  - the converter reads its input, and the API copies its output, in two  *)
(*    halves;                                                               *)
(*  - SIGKILL ends every process of a group at once.                        *)
(***************************************************************************)
EXTENDS Integers, FiniteSets

CONSTANTS
  Call,       \* calls of convert_checkpoint for the destination
  MaxEdits,   \* bound on edits of the source
  MaxFaults,  \* bound on failing calls, crashes and late writes
  None, Torn, Other

ASSUME ConversionBounds == MaxEdits \in Nat /\ MaxFaults \in Nat
ASSUME ConversionNames ==
  /\ None \notin Nat \cup {Torn, Other}
  /\ Torn \notin Nat \cup {Other}
  /\ Other \notin Nat

Content == Nat \cup {Torn, Other}

VARIABLES
  source,   \* generation of the file at source_path
  fd,       \* per call: generation of the inode it has opened, or None
  linked,   \* per call: that inode is still the one at source_path
  before,   \* per call: source_before
  out,      \* per call: converter output, [data, sig]; sig counts its writes
  half,     \* per call: generation or signature seen by the first half of
            \* the converter's read, or of the copy of its output
  outSig,   \* per call: output_before
  pub,      \* per call: the fresh inode that is published
  temps,    \* temporary names in the destination's directory
  dest,     \* content at destination_path, or None
  leader,   \* per call: the converter process
  helpers,  \* calls whose converter has left processes in its group
  strays,   \* calls with a process, left by the converter, that has written
            \* into its output
  piped,    \* calls whose converter has left processes with its stdout or
            \* stderr open, in its group or out of it
  pc, result,
  edits, faults

files == <<out, half, outSig, pub, temps, dest>>
procs == <<leader, helpers, strays, piped>>
bounds == <<edits, faults>>
vars == <<source, fd, linked, before, files, procs, pc, result, bounds>>

Labels == {"new", "open", "spawn", "wait", "term", "kill", "check", "measure",
           "copy", "recopy", "compare", "link", "tidy", "done", "lost"}

Init ==
  /\ source = 0
  /\ fd = [c \in Call |-> None]
  /\ linked = [c \in Call |-> FALSE]
  /\ before = [c \in Call |-> None]
  /\ out = [c \in Call |-> [data |-> None, sig |-> 0]]
  /\ half = [c \in Call |-> None]
  /\ outSig = [c \in Call |-> 0]
  /\ pub = [c \in Call |-> None]
  /\ temps = {}
  /\ dest = None
  /\ leader = [c \in Call |-> "none"]
  /\ helpers = {}
  /\ strays = {}
  /\ piped = {}
  /\ pc = [c \in Call |-> "new"]
  /\ result = [c \in Call |-> None]
  /\ edits = 0
  /\ faults = 0

-----------------------------------------------------------------------------
(* Steps of a call *)

Goto(c, label) == pc' = [pc EXCEPT ![c] = label]
Return(c, r) == Goto(c, "done") /\ result' = [result EXCEPT ![c] = r]

\* The finally blocks: both temporary names go.
Finally(c) == temps' = temps \ {<<c, "out">>, <<c, "publish">>}

Raise(c) == Return(c, "failed") /\ Finally(c)

\* The destination exists: it is returned.
ReturnExisting(c) ==
  /\ pc[c] = "new"
  /\ dest # None
  /\ Return(c, "existing")
  /\ UNCHANGED <<source, fd, linked, before, files, procs, bounds>>

\* mkstemp for the converter's output
MakeOutput(c) ==
  /\ pc[c] = "new"
  /\ dest = None
  /\ temps' = temps \cup {<<c, "out">>}
  /\ Goto(c, "open")
  /\ UNCHANGED <<source, fd, linked, before, out, half, outSig, pub, dest, procs, result, bounds>>

\* open_checkpoint_safely
OpenSource(c) ==
  /\ pc[c] = "open"
  /\ fd' = [fd EXCEPT ![c] = source]
  /\ linked' = [linked EXCEPT ![c] = TRUE]
  /\ before' = [before EXCEPT ![c] = source]
  /\ Goto(c, "spawn")
  /\ UNCHANGED <<source, files, procs, result, bounds>>

\* Popen in a session of its own
Spawn(c) ==
  /\ pc[c] = "spawn"
  /\ leader' = [leader EXCEPT ![c] = "starting"]
  /\ Goto(c, "wait")
  /\ UNCHANGED <<source, fd, linked, before, files, helpers, strays, piped, result, bounds>>

\* communicate returns when the leader has exited and nobody holds its pipes:
\* what is left in its group does not keep it.
Exited(c) == leader[c] \in {"ok", "bad"} /\ c \notin piped

Waited(c) ==
  /\ pc[c] = "wait"
  /\ Exited(c)
  /\ IF leader[c] = "ok" THEN Goto(c, "check") /\ UNCHANGED <<result, temps>> ELSE Raise(c)
  /\ UNCHANGED <<source, fd, linked, before, out, half, outSig, pub, dest, procs, bounds>>

\* Mutant: the time limit is for the leader, not for whoever holds its pipes.
TimesOutForLeader(c) ==
  /\ pc[c] = "wait"
  /\ leader[c] \in {"starting", "reading"}
  /\ Goto(c, "term")
  /\ UNCHANGED <<source, fd, linked, before, files, procs, result, bounds>>

\* TimeoutExpired
TimesOut(c) ==
  /\ pc[c] = "wait"
  /\ ~Exited(c)
  /\ Goto(c, "term")
  /\ UNCHANGED <<source, fd, linked, before, files, procs, result, bounds>>

\* SIGTERM to the group, which each process may obey or ignore.
Terminate(c) ==
  /\ pc[c] = "term"
  /\ leader' \in {leader, [leader EXCEPT ![c] = "dead"]}
  /\ helpers' \in {helpers, helpers \ {c}}
  /\ Goto(c, "kill")
  /\ UNCHANGED <<source, fd, linked, before, files, strays, piped, result, bounds>>

\* Mutant: a leader that obeyed SIGTERM is the end of it.
KillIfAlive(c) ==
  IF leader[c] = "dead" THEN UNCHANGED <<leader, helpers>>
  ELSE leader' = [leader EXCEPT ![c] = "dead"] /\ helpers' = helpers \ {c}

\* SIGKILL to the group; nobody reads the pipes any more.
KillGroup(c) == leader' = [leader EXCEPT ![c] = "dead"] /\ helpers' = helpers \ {c}

Kill(c) ==
  /\ pc[c] = "kill"
  /\ KillGroup(c)
  /\ Return(c, "timed out")
  /\ Finally(c)
  /\ UNCHANGED <<source, fd, linked, before, out, half, outSig, pub, dest, strays, piped, bounds>>

\* fstat of the descriptor and lstat of the path agree with source_before.
SourceUnchanged(c) == fd[c] = before[c] /\ linked[c]

CheckSource(c) ==
  /\ pc[c] = "check"
  /\ IF SourceUnchanged(c) THEN Goto(c, "measure") /\ UNCHANGED <<result, temps>> ELSE Raise(c)
  /\ UNCHANGED <<source, fd, linked, before, out, half, outSig, pub, dest, procs, bounds>>

\* fsync and fstat of the output, whose size must be that of a checkpoint;
\* mkstemp for the inode to publish.
Measure(c) ==
  /\ pc[c] = "measure"
  /\ outSig' = [outSig EXCEPT ![c] = out[c].sig]
  /\ IF out[c].data = None THEN Raise(c)
     ELSE temps' = temps \cup {<<c, "publish">>} /\ Goto(c, "copy") /\ UNCHANGED result
  /\ UNCHANGED <<source, fd, linked, before, out, half, pub, dest, procs, bounds>>

\* pread and write, in two halves
Copy(c) ==
  /\ pc[c] = "copy"
  /\ half' = [half EXCEPT ![c] = out[c].sig]
  /\ Goto(c, "recopy")
  /\ UNCHANGED <<source, fd, linked, before, out, outSig, pub, temps, dest, procs, result, bounds>>

Recopy(c) ==
  /\ pc[c] = "recopy"
  /\ pub' = [pub EXCEPT ![c] = IF half[c] = out[c].sig THEN out[c].data ELSE Torn]
  /\ Goto(c, "compare")
  /\ UNCHANGED <<source, fd, linked, before, out, half, outSig, temps, dest, procs, result, bounds>>

\* Mutant: no second look at the converter's output.
OutputTrusted(c) == TRUE

\* output_after agrees with output_before.
OutputUnchanged(c) == out[c].sig = outSig[c]

Compare(c) ==
  /\ pc[c] = "compare"
  /\ IF OutputUnchanged(c) THEN Goto(c, "link") /\ UNCHANGED <<result, temps>> ELSE Raise(c)
  /\ UNCHANGED <<source, fd, linked, before, out, half, outSig, pub, dest, procs, bounds>>

\* Mutant: a rename instead of a link.
LinkByRename(c) ==
  /\ pc[c] = "link"
  /\ dest' = pub[c] /\ Goto(c, "tidy")
  /\ UNCHANGED <<source, fd, linked, before, out, half, outSig, pub, temps, procs, result, bounds>>

\* os.link fails when the destination exists.
Link(c) ==
  /\ pc[c] = "link"
  /\ IF dest = None THEN dest' = pub[c] /\ Goto(c, "tidy") /\ UNCHANGED <<result, temps>>
     ELSE Raise(c) /\ UNCHANGED dest
  /\ UNCHANGED <<source, fd, linked, before, out, half, outSig, pub, procs, bounds>>

\* The temporary names go, the directory is synced, the call returns.
Tidy(c) ==
  /\ pc[c] = "tidy"
  /\ Return(c, "converted")
  /\ Finally(c)
  /\ UNCHANGED <<source, fd, linked, before, out, half, outSig, pub, dest, procs, bounds>>

Fault == faults < MaxFaults /\ faults' = faults + 1 /\ UNCHANGED edits

\* A system call of the API process raises; a running converter is left to
\* Popen.communicate, which raises only TimeoutExpired here.
Raises(c) ==
  /\ pc[c] \notin {"new", "wait", "term", "kill", "done", "lost"}
  /\ Fault
  /\ Raise(c)
  /\ UNCHANGED <<source, fd, linked, before, out, half, outSig, pub, dest, procs>>

-----------------------------------------------------------------------------
(* The converter, run as the participant *)

\* It opens /proc/self/fd/N and reads the first half.
Read(c) ==
  /\ leader[c] = "starting"
  /\ leader' = [leader EXCEPT ![c] = "reading"]
  /\ half' = [half EXCEPT ![c] = fd[c]]
  /\ UNCHANGED <<source, fd, linked, before, out, outSig, pub, temps, dest, helpers, strays, piped,
                 pc, result, bounds>>

Written(c, x) == out' = [out EXCEPT ![c] = [data |-> x, sig |-> @.sig + 1]]

\* It exits, perhaps leaving children with whatever it had open.
Exits(c, status) ==
  /\ leader' = [leader EXCEPT ![c] = status]
  /\ helpers' \in {helpers, helpers \cup {c}}
  /\ piped' \in {piped, piped \cup {c}}

\* It reads the rest, writes its output and exits.
Write(c) ==
  /\ leader[c] = "reading"
  /\ Written(c, IF half[c] = fd[c] THEN half[c] ELSE Torn)
  /\ Exits(c, "ok")
  /\ UNCHANGED <<source, fd, linked, before, half, outSig, pub, temps, dest, strays, pc, result,
                 bounds>>

\* The checkpoint is no plain state dict, or a limit is reached; code in the
\* checkpoint may also exit with 0 and no output.
Reject(c) ==
  /\ leader[c] \in {"starting", "reading"}
  /\ \E status \in {"ok", "bad"} : Exits(c, status)
  /\ UNCHANGED <<source, fd, linked, before, files, strays, pc, result, bounds>>

\* A process it has left, in its group or out of it, writes into the output.
Scribble(c) ==
  /\ leader[c] \in {"ok", "bad"}
  /\ Fault
  /\ Written(c, Other)
  /\ strays' = strays \cup {c}
  /\ UNCHANGED <<source, fd, linked, before, half, outSig, pub, temps, dest, leader, helpers, piped,
                 pc, result>>

\* The last process of the group, or the last holder of the pipes, ends.
HelperExits(c) ==
  /\ c \in helpers
  /\ helpers' = helpers \ {c}
  /\ UNCHANGED <<source, fd, linked, before, files, leader, strays, piped, pc, result, bounds>>

PipesClose(c) ==
  /\ c \in piped
  /\ piped' = piped \ {c}
  /\ UNCHANGED <<source, fd, linked, before, files, leader, helpers, strays, pc, result, bounds>>

-----------------------------------------------------------------------------
(* The participant, and the API process *)

Edit ==
  /\ edits < MaxEdits
  /\ edits' = edits + 1
  /\ source' = source + 1
  /\ \/ fd' = [c \in Call |-> IF linked[c] THEN source + 1 ELSE fd[c]] /\ UNCHANGED linked
     \/ linked' = [c \in Call |-> FALSE] /\ UNCHANGED fd
  /\ UNCHANGED <<before, files, procs, pc, result, faults>>

\* The API process is killed: its calls are lost, its temporary names stay.
Crash ==
  /\ \E c \in Call : pc[c] \notin {"new", "done", "lost"}
  /\ Fault
  /\ pc' = [c \in Call |-> IF pc[c] \in {"new", "done"} THEN pc[c] ELSE "lost"]
  /\ UNCHANGED <<source, fd, linked, before, files, procs, result>>

Step(c) ==
  \/ ReturnExisting(c) \/ MakeOutput(c) \/ OpenSource(c) \/ Spawn(c)
  \/ Waited(c) \/ TimesOut(c) \/ Terminate(c) \/ Kill(c)
  \/ CheckSource(c) \/ Measure(c) \/ Copy(c) \/ Recopy(c) \/ Compare(c) \/ Link(c) \/ Tidy(c)

Converter(c) == Read(c) \/ Write(c) \/ Reject(c) \/ Scribble(c) \/ HelperExits(c) \/ PipesClose(c)

Finished ==
  /\ \A c \in Call : pc[c] \in {"done", "lost"}
  /\ UNCHANGED vars

Next ==
  \/ \E c \in Call : Step(c) \/ Raises(c) \/ Converter(c)
  \/ Edit \/ Crash
  \/ Finished

Spec == Init /\ [][Next]_vars

\* The threads of the API are scheduled and its time limit passes; nothing
\* is assumed of the converter.
FairSpec == Spec /\ \A c \in Call : WF_vars(Step(c))

-----------------------------------------------------------------------------
(* Properties *)

\* What is published is the output of one converter as it was at one moment:
\* the conversion of the source as it was opened, never a mixture of two
\* generations, or what a child of that converter put in its place before
\* the output was measured (lines 174-233).
PublishedIsWhole ==
  dest # None => \E c \in Call : dest = before[c] \/ (dest = Other /\ c \in strays)

\* A published checkpoint is never replaced or changed, by a second call or
\* by a converter that still holds its descriptor (lines 202-239).
PublishedIsFinal == [][dest # None => dest' = dest]_vars

\* No call ends while its converter runs, and a call that ended at its time
\* limit has left nothing of the converter's group, even when the leader went
\* first and its children ignore SIGTERM (_terminate_process_group). A call
\* that ends in time signals nobody: children that let go of the pipes stay.
GroupIsGone ==
  \A c \in Call : pc[c] = "done" =>
    /\ leader[c] \notin {"starting", "reading"}
    /\ result[c] = "timed out" => c \notin helpers

\* Every call ends, whatever the converter does.
CallsEnd == \A c \in Call : <>(pc[c] \in {"done", "lost"})
=============================================================================

--------------------------- MODULE ConversionProofs ---------------------------
(***************************************************************************)
(* For every number of calls, edits and faults: what is published is one     *)
(* converter's output as it was measured, is never replaced, and a call that *)
(* has ended at its time limit leaves nothing of its converter's group.      *)
(***************************************************************************)
EXTENDS Conversion, TLAPS

TypeInv ==
  /\ source \in Nat
  /\ fd \in [Call -> Nat \cup {None}] /\ before \in [Call -> Nat \cup {None}]
  /\ linked \in [Call -> BOOLEAN]
  /\ out \in [Call -> [data : Content \cup {None}, sig : Nat]]
  /\ half \in [Call -> Nat \cup {None}] /\ outSig \in [Call -> Nat]
  /\ DOMAIN pub = Call /\ DOMAIN leader = Call /\ DOMAIN result = Call
  /\ pc \in [Call -> Labels]

Checked == {"measure", "copy", "recopy", "compare", "link", "tidy"}

\* The opened inode only gets newer, and is the source while it is linked.
SourceOK(c) ==
  /\ before[c] # None => fd[c] # None /\ before[c] <= fd[c] /\ fd[c] <= source
  /\ linked[c] => before[c] # None /\ fd[c] = source
  /\ leader[c] # "none" => before[c] # None
  /\ pc[c] \in {"spawn", "wait", "term", "kill", "check"} \cup Checked => before[c] # None

\* No converter runs before the call waits for it, or after it has waited.
GroupOK(c) ==
  /\ pc[c] \in {"new", "open", "spawn"} => leader[c] = "none"
  /\ pc[c] \in {"new", "open", "spawn", "check", "done"} \cup Checked =>
       leader[c] \notin {"starting", "reading"}
  /\ pc[c] = "done" /\ result[c] = "timed out" => c \notin helpers
  /\ pc[c] \in {"check"} \cup Checked => leader[c] = "ok"

\* The conversion of what c has opened, or what c's converter put in its place.
Faithful(c, x) == x = before[c] \/ (x = Other /\ c \in strays)

\* What the converter has read and written, in terms of what was opened: a
\* mixture is possible only if the source has changed.
OutputOK(c) ==
  /\ leader[c] \in {"none", "starting", "reading"} => out[c].data = None
  /\ leader[c] = "reading" => half[c] # None /\ before[c] <= half[c] /\ half[c] <= fd[c]
  /\ leader[c] = "ok" => \/ out[c].data \in Nat /\ before[c] <= out[c].data /\ out[c].data <= fd[c]
                         \/ out[c].data = Torn /\ before[c] < fd[c]
                         \/ out[c].data = Other /\ c \in strays
                         \/ out[c].data = None
  /\ pc[c] \in Checked => Faithful(c, out[c].data) \/ (pc[c] = "measure" /\ out[c].data = None)

\* What is copied: a mixture is possible only if the output has changed since
\* it was measured.
CopyOK(c) ==
  /\ pc[c] \in {"copy", "recopy", "compare"} => outSig[c] <= out[c].sig
  /\ pc[c] = "recopy" => half[c] # None /\ outSig[c] <= half[c] /\ half[c] <= out[c].sig
  /\ pc[c] = "compare" => Faithful(c, pub[c]) \/ outSig[c] < out[c].sig
  /\ pc[c] = "link" => Faithful(c, pub[c])

\* A publication comes from a call that has opened its source.
DestInv == dest # None => \E c \in Call : pc[c] \notin {"new", "open"} /\ Faithful(c, dest)

CallsInv == \A c \in Call : SourceOK(c) /\ GroupOK(c) /\ OutputOK(c) /\ CopyOK(c)

IInv == TypeInv /\ CallsInv /\ DestInv

-----------------------------------------------------------------------------
(* Steps *)

\* What was read lies between what was opened and what is there now.
LEMMA Between ==
  ASSUME NEW b \in Nat, NEW x \in Nat, NEW f \in Nat, b <= x, x <= f
  PROVE  (b = f => x = b) /\ (x # f => b < f)
OBVIOUS

LEMMA Strictly ==
  ASSUME NEW x \in Nat, NEW y \in Nat, NEW z \in Nat, x <= y, y <= z, y # z
  PROVE  x < z
OBVIOUS

\* A step of a call or of its converter keeps the invariant of every call.
LEMMA CallSteps ==
  ASSUME TypeInv, CallsInv, NEW a \in Call, Step(a) \/ Raises(a) \/ Converter(a)
  PROVE  TypeInv' /\ CallsInv'
<1> USE ConversionNames DEF TypeInv, Labels, Content, Goto, Return, Raise, Finally, files, procs, bounds
<1>1. CASE ReturnExisting(a)
  <2>1. TypeInv'
    BY <1>1 DEF ReturnExisting
  <2>2. ASSUME NEW c \in Call PROVE SourceOK(c)' /\ GroupOK(c)'
    BY <1>1 DEF ReturnExisting, CallsInv, SourceOK, GroupOK, Checked
  <2>3. ASSUME NEW c \in Call PROVE OutputOK(c)'
    BY <1>1 DEF ReturnExisting, CallsInv, SourceOK, GroupOK, OutputOK, Faithful, Checked
  <2>4. ASSUME NEW c \in Call PROVE CopyOK(c)'
    BY <1>1 DEF ReturnExisting, CallsInv, SourceOK, GroupOK, OutputOK, CopyOK, Faithful, Checked
  <2> QED
    BY <2>1, <2>2, <2>3, <2>4 DEF CallsInv
<1>2. CASE MakeOutput(a)
  <2>1. TypeInv'
    BY <1>2 DEF MakeOutput
  <2>2. ASSUME NEW c \in Call PROVE SourceOK(c)' /\ GroupOK(c)'
    BY <1>2 DEF MakeOutput, CallsInv, SourceOK, GroupOK, Checked
  <2>3. ASSUME NEW c \in Call PROVE OutputOK(c)'
    BY <1>2 DEF MakeOutput, CallsInv, SourceOK, GroupOK, OutputOK, Faithful, Checked
  <2>4. ASSUME NEW c \in Call PROVE CopyOK(c)'
    BY <1>2 DEF MakeOutput, CallsInv, SourceOK, GroupOK, OutputOK, CopyOK, Faithful, Checked
  <2> QED
    BY <2>1, <2>2, <2>3, <2>4 DEF CallsInv
<1>3. CASE OpenSource(a)
  <2>1. TypeInv'
    BY <1>3 DEF OpenSource
  <2>2. ASSUME NEW c \in Call PROVE SourceOK(c)' /\ GroupOK(c)'
    <3>1. SourceOK(c)'
      BY <1>3 DEF OpenSource, CallsInv, SourceOK, Checked
    <3>2. GroupOK(c)'
      BY <1>3 DEF OpenSource, CallsInv, GroupOK, Checked
    <3> QED
      BY <3>1, <3>2
  <2>3. ASSUME NEW c \in Call PROVE OutputOK(c)'
    BY <1>3 DEF OpenSource, CallsInv, SourceOK, GroupOK, OutputOK, Faithful, Checked
  <2>4. ASSUME NEW c \in Call PROVE CopyOK(c)'
    BY <1>3 DEF OpenSource, CallsInv, SourceOK, GroupOK, OutputOK, CopyOK, Faithful, Checked
  <2> QED
    BY <2>1, <2>2, <2>3, <2>4 DEF CallsInv
<1>4. CASE Spawn(a)
  <2>1. TypeInv'
    BY <1>4 DEF Spawn
  <2>2. ASSUME NEW c \in Call PROVE SourceOK(c)' /\ GroupOK(c)'
    BY <1>4 DEF Spawn, CallsInv, SourceOK, GroupOK, Checked
  <2>3. ASSUME NEW c \in Call PROVE OutputOK(c)'
    BY <1>4 DEF Spawn, CallsInv, SourceOK, GroupOK, OutputOK, Faithful, Checked
  <2>4. ASSUME NEW c \in Call PROVE CopyOK(c)'
    BY <1>4 DEF Spawn, CallsInv, SourceOK, GroupOK, OutputOK, CopyOK, Faithful, Checked
  <2> QED
    BY <2>1, <2>2, <2>3, <2>4 DEF CallsInv
<1>5. CASE Waited(a)
  <2>1. TypeInv'
    BY <1>5 DEF Waited, Exited
  <2>2. ASSUME NEW c \in Call PROVE SourceOK(c)' /\ GroupOK(c)'
    BY <1>5 DEF Waited, Exited, CallsInv, SourceOK, GroupOK, Checked
  <2>3. ASSUME NEW c \in Call PROVE OutputOK(c)'
    BY <1>5 DEF Waited, Exited, CallsInv, SourceOK, GroupOK, OutputOK, Faithful, Checked
  <2>4. ASSUME NEW c \in Call PROVE CopyOK(c)'
    BY <1>5 DEF Waited, Exited, CallsInv, SourceOK, GroupOK, OutputOK, CopyOK, Faithful, Checked
  <2> QED
    BY <2>1, <2>2, <2>3, <2>4 DEF CallsInv
<1>6. CASE TimesOut(a)
  <2>1. TypeInv'
    BY <1>6 DEF TimesOut, Exited
  <2>2. ASSUME NEW c \in Call PROVE SourceOK(c)' /\ GroupOK(c)'
    BY <1>6 DEF TimesOut, Exited, CallsInv, SourceOK, GroupOK, Checked
  <2>3. ASSUME NEW c \in Call PROVE OutputOK(c)'
    BY <1>6 DEF TimesOut, Exited, CallsInv, SourceOK, GroupOK, OutputOK, Faithful, Checked
  <2>4. ASSUME NEW c \in Call PROVE CopyOK(c)'
    BY <1>6 DEF TimesOut, Exited, CallsInv, SourceOK, GroupOK, OutputOK, CopyOK, Faithful, Checked
  <2> QED
    BY <2>1, <2>2, <2>3, <2>4 DEF CallsInv
<1>7. CASE Terminate(a)
  <2>1. TypeInv'
    BY <1>7 DEF Terminate
  <2>2. ASSUME NEW c \in Call PROVE SourceOK(c)' /\ GroupOK(c)'
    BY <1>7 DEF Terminate, CallsInv, SourceOK, GroupOK, Checked
  <2>3. ASSUME NEW c \in Call PROVE OutputOK(c)'
    BY <1>7 DEF Terminate, CallsInv, SourceOK, GroupOK, OutputOK, Faithful, Checked
  <2>4. ASSUME NEW c \in Call PROVE CopyOK(c)'
    BY <1>7 DEF Terminate, CallsInv, SourceOK, GroupOK, OutputOK, CopyOK, Faithful, Checked
  <2> QED
    BY <2>1, <2>2, <2>3, <2>4 DEF CallsInv
<1>8. CASE Kill(a)
  <2>1. TypeInv'
    BY <1>8 DEF Kill, KillGroup
  <2>2. ASSUME NEW c \in Call PROVE SourceOK(c)' /\ GroupOK(c)'
    BY <1>8 DEF Kill, KillGroup, CallsInv, SourceOK, GroupOK, Checked
  <2>3. ASSUME NEW c \in Call PROVE OutputOK(c)'
    BY <1>8 DEF Kill, KillGroup, CallsInv, SourceOK, GroupOK, OutputOK, Faithful, Checked
  <2>4. ASSUME NEW c \in Call PROVE CopyOK(c)'
    BY <1>8 DEF Kill, KillGroup, CallsInv, SourceOK, GroupOK, OutputOK, CopyOK, Faithful, Checked
  <2> QED
    BY <2>1, <2>2, <2>3, <2>4 DEF CallsInv
<1>9. CASE CheckSource(a)
  <2>1. TypeInv'
    BY <1>9 DEF CheckSource, SourceUnchanged
  <2>2. ASSUME NEW c \in Call PROVE SourceOK(c)' /\ GroupOK(c)'
    BY <1>9 DEF CheckSource, SourceUnchanged, CallsInv, SourceOK, GroupOK, Checked
  <2>3. ASSUME NEW c \in Call PROVE OutputOK(c)'
    <3>1. OutputOK(c) /\ GroupOK(c) /\ SourceOK(c)
      BY DEF CallsInv
    <3>2. UNCHANGED <<leader, out, half, fd, before, strays>>
      BY <1>9 DEF CheckSource
    <3>3. CASE pc'[c] \notin Checked \/ pc[c] \in Checked
      <4>1. pc'[c] \in Checked => pc'[c] = pc[c]
        BY <1>9, <3>3 DEF CheckSource, Checked
      <4> QED
        BY <3>1, <3>2, <4>1, <3>3 DEF OutputOK, Faithful
    <3>4. CASE pc'[c] \in Checked /\ pc[c] \notin Checked
      <4>1. c = a /\ pc[a] = "check" /\ fd[a] = before[a]
        BY <1>9, <3>4 DEF CheckSource, SourceUnchanged, Checked
      <4>2. leader[c] = "ok" /\ fd[c] \in Nat /\ before[c] \in Nat
        BY <3>1, <4>1 DEF GroupOK, SourceOK
      <4>3. Faithful(c, out[c].data) \/ out[c].data = None
        <5>1. CASE out[c].data \in Nat /\ before[c] <= out[c].data /\ out[c].data <= fd[c]
          <6>1. fd[c] = before[c]
            BY <4>1
          <6>2. before[c] = fd[c] => out[c].data = before[c]
            BY <4>2, <5>1, Between
          <6> QED
            BY <6>1, <6>2 DEF Faithful
        <5>2. CASE out[c].data = Torn /\ before[c] < fd[c]
          BY <4>1, <4>2, <5>2
        <5>3. CASE out[c].data = Other /\ c \in strays
          BY <5>3 DEF Faithful
        <5> QED
          BY <3>1, <4>2, <5>1, <5>2, <5>3 DEF OutputOK
      <4>4. pc'[c] = "measure"
        BY <1>9, <3>4, <4>1 DEF CheckSource, Checked
      <4> QED
        BY <3>1, <3>2, <4>2, <4>3, <4>4 DEF OutputOK, Faithful
    <3> QED
      BY <3>3, <3>4
  <2>4. ASSUME NEW c \in Call PROVE CopyOK(c)'
    BY <1>9 DEF CheckSource, SourceUnchanged, CallsInv, SourceOK, GroupOK, OutputOK, CopyOK, Faithful, Checked
  <2> QED
    BY <2>1, <2>2, <2>3, <2>4 DEF CallsInv
<1>10. CASE Measure(a)
  <2>1. TypeInv'
    BY <1>10 DEF Measure
  <2>2. ASSUME NEW c \in Call PROVE SourceOK(c)' /\ GroupOK(c)'
    BY <1>10 DEF Measure, CallsInv, SourceOK, GroupOK, Checked
  <2>3. ASSUME NEW c \in Call PROVE OutputOK(c)'
    BY <1>10 DEF Measure, CallsInv, SourceOK, GroupOK, OutputOK, Faithful, Checked
  <2>4. ASSUME NEW c \in Call PROVE CopyOK(c)'
    <3>1. CopyOK(c) /\ OutputOK(c) /\ SourceOK(c)
      BY DEF CallsInv
    <3>2. CASE c # a
      <4>1. /\ pc'[c] = pc[c] /\ outSig'[c] = outSig[c] /\ out'[c] = out[c] /\ half'[c] = half[c]
            /\ pub'[c] = pub[c] /\ before' = before /\ strays \subseteq strays'
        BY <1>10, <3>2 DEF Measure
      <4> QED
        BY <3>1, <4>1 DEF CopyOK, Faithful
    <3>3. CASE c = a
      BY <1>10, <3>1, <3>3 DEF Measure, SourceOK, OutputOK, CopyOK, Faithful, Checked
    <3> QED
      BY <3>2, <3>3
  <2> QED
    BY <2>1, <2>2, <2>3, <2>4 DEF CallsInv
<1>11. CASE Copy(a)
  <2>1. TypeInv'
    BY <1>11 DEF Copy
  <2>2. ASSUME NEW c \in Call PROVE SourceOK(c)' /\ GroupOK(c)'
    BY <1>11 DEF Copy, CallsInv, SourceOK, GroupOK, Checked
  <2>3. ASSUME NEW c \in Call PROVE OutputOK(c)'
    BY <1>11 DEF Copy, CallsInv, SourceOK, GroupOK, OutputOK, Faithful, Checked
  <2>4. ASSUME NEW c \in Call PROVE CopyOK(c)'
    <3>1. CopyOK(c) /\ OutputOK(c) /\ SourceOK(c)
      BY DEF CallsInv
    <3>2. CASE c # a
      <4>1. /\ pc'[c] = pc[c] /\ outSig'[c] = outSig[c] /\ out'[c] = out[c] /\ half'[c] = half[c]
            /\ pub'[c] = pub[c] /\ before' = before /\ strays \subseteq strays'
        BY <1>11, <3>2 DEF Copy
      <4> QED
        BY <3>1, <4>1 DEF CopyOK, Faithful
    <3>3. CASE c = a
      BY <1>11, <3>1, <3>3 DEF Copy, SourceOK, OutputOK, CopyOK, Faithful, Checked
    <3> QED
      BY <3>2, <3>3
  <2> QED
    BY <2>1, <2>2, <2>3, <2>4 DEF CallsInv
<1>12. CASE Recopy(a)
  <2>1. TypeInv'
    BY <1>12 DEF Recopy
  <2>2. ASSUME NEW c \in Call PROVE SourceOK(c)' /\ GroupOK(c)'
    BY <1>12 DEF Recopy, CallsInv, SourceOK, GroupOK, Checked
  <2>3. ASSUME NEW c \in Call PROVE OutputOK(c)'
    BY <1>12 DEF Recopy, CallsInv, SourceOK, GroupOK, OutputOK, Faithful, Checked
  <2>4. ASSUME NEW c \in Call PROVE CopyOK(c)'
    <3>1. CopyOK(c) /\ OutputOK(c) /\ SourceOK(c)
      BY DEF CallsInv
    <3>2. CASE c # a
      <4>1. /\ pc'[c] = pc[c] /\ outSig'[c] = outSig[c] /\ out'[c] = out[c] /\ half'[c] = half[c]
            /\ pub'[c] = pub[c] /\ before' = before /\ strays \subseteq strays'
        BY <1>12, <3>2 DEF Recopy
      <4> QED
        BY <3>1, <4>1 DEF CopyOK, Faithful
    <3>3. CASE c = a
      <4>1. /\ pc[c] = "recopy" /\ pc'[c] = "compare"
            /\ UNCHANGED <<out, outSig, before, strays>>
            /\ pub'[c] = IF half[c] = out[c].sig THEN out[c].data ELSE Torn
        BY <1>12, <3>3 DEF Recopy
      <4>2. Faithful(c, out[c].data)
        BY <3>1, <4>1 DEF OutputOK, Checked
      <4>3. CASE half[c] = out[c].sig
        BY <3>1, <4>1, <4>2, <4>3 DEF CopyOK, Faithful
      <4>4. CASE half[c] # out[c].sig
        <5>1. outSig[c] <= half[c] /\ half[c] <= out[c].sig
          BY <3>1, <4>1 DEF CopyOK
        <5>2. half[c] \in Nat /\ outSig[c] \in Nat /\ out[c].sig \in Nat
          BY <3>1, <4>1 DEF CopyOK
        <5>3. outSig[c] < out[c].sig
          BY ONLY <4>4, <5>1, <5>2, Strictly
        <5> QED
          BY <3>1, <4>1, <5>3 DEF CopyOK
      <4> QED
        BY <4>3, <4>4
    <3> QED
      BY <3>2, <3>3
  <2> QED
    BY <2>1, <2>2, <2>3, <2>4 DEF CallsInv
<1>13. CASE Compare(a)
  <2>1. TypeInv'
    BY <1>13 DEF Compare, OutputUnchanged
  <2>2. ASSUME NEW c \in Call PROVE SourceOK(c)' /\ GroupOK(c)'
    BY <1>13 DEF Compare, OutputUnchanged, CallsInv, SourceOK, GroupOK, Checked
  <2>3. ASSUME NEW c \in Call PROVE OutputOK(c)'
    BY <1>13 DEF Compare, OutputUnchanged, CallsInv, SourceOK, GroupOK, OutputOK, Faithful, Checked
  <2>4. ASSUME NEW c \in Call PROVE CopyOK(c)'
    <3>1. CopyOK(c) /\ OutputOK(c) /\ SourceOK(c)
      BY DEF CallsInv
    <3>2. CASE c # a
      <4>1. /\ pc'[c] = pc[c] /\ outSig'[c] = outSig[c] /\ out'[c] = out[c] /\ half'[c] = half[c]
            /\ pub'[c] = pub[c] /\ before' = before /\ strays \subseteq strays'
        BY <1>13, <3>2 DEF Compare, OutputUnchanged
      <4> QED
        BY <3>1, <4>1 DEF CopyOK, Faithful
    <3>3. CASE c = a
      BY <1>13, <3>1, <3>3 DEF Compare, OutputUnchanged, SourceOK, OutputOK, CopyOK, Faithful, Checked
    <3> QED
      BY <3>2, <3>3
  <2> QED
    BY <2>1, <2>2, <2>3, <2>4 DEF CallsInv
<1>14. CASE Link(a)
  <2>1. TypeInv'
    BY <1>14 DEF Link
  <2>2. ASSUME NEW c \in Call PROVE SourceOK(c)' /\ GroupOK(c)'
    BY <1>14 DEF Link, CallsInv, SourceOK, GroupOK, Checked
  <2>3. ASSUME NEW c \in Call PROVE OutputOK(c)'
    BY <1>14 DEF Link, CallsInv, SourceOK, GroupOK, OutputOK, Faithful, Checked
  <2>4. ASSUME NEW c \in Call PROVE CopyOK(c)'
    BY <1>14 DEF Link, CallsInv, SourceOK, GroupOK, OutputOK, CopyOK, Faithful, Checked
  <2> QED
    BY <2>1, <2>2, <2>3, <2>4 DEF CallsInv
<1>15. CASE Tidy(a)
  <2>1. TypeInv'
    BY <1>15 DEF Tidy
  <2>2. ASSUME NEW c \in Call PROVE SourceOK(c)' /\ GroupOK(c)'
    BY <1>15 DEF Tidy, CallsInv, SourceOK, GroupOK, Checked
  <2>3. ASSUME NEW c \in Call PROVE OutputOK(c)'
    BY <1>15 DEF Tidy, CallsInv, SourceOK, GroupOK, OutputOK, Faithful, Checked
  <2>4. ASSUME NEW c \in Call PROVE CopyOK(c)'
    BY <1>15 DEF Tidy, CallsInv, SourceOK, GroupOK, OutputOK, CopyOK, Faithful, Checked
  <2> QED
    BY <2>1, <2>2, <2>3, <2>4 DEF CallsInv
<1>16. CASE Raises(a)
  <2>1. TypeInv'
    BY <1>16 DEF Raises, Fault
  <2>2. ASSUME NEW c \in Call PROVE SourceOK(c)' /\ GroupOK(c)'
    BY <1>16 DEF Raises, Fault, CallsInv, SourceOK, GroupOK, Checked
  <2>3. ASSUME NEW c \in Call PROVE OutputOK(c)'
    BY <1>16 DEF Raises, Fault, CallsInv, SourceOK, GroupOK, OutputOK, Faithful, Checked
  <2>4. ASSUME NEW c \in Call PROVE CopyOK(c)'
    BY <1>16 DEF Raises, Fault, CallsInv, SourceOK, GroupOK, OutputOK, CopyOK, Faithful, Checked
  <2> QED
    BY <2>1, <2>2, <2>3, <2>4 DEF CallsInv
<1>17. CASE Read(a)
  <2>1. TypeInv'
    BY <1>17 DEF Read
  <2>2. ASSUME NEW c \in Call PROVE SourceOK(c)' /\ GroupOK(c)'
    BY <1>17 DEF Read, CallsInv, SourceOK, GroupOK, Checked
  <2>3. ASSUME NEW c \in Call PROVE OutputOK(c)'
    <3>1. OutputOK(c) /\ SourceOK(c) /\ GroupOK(c)
      BY DEF CallsInv
    <3>2. UNCHANGED <<out, fd, before, strays, pc>>
      BY <1>17 DEF Read
    <3>3. CASE c # a
      <4>1. leader'[c] = leader[c] /\ half'[c] = half[c]
        BY <1>17, <3>3 DEF Read
      <4> QED
        BY <3>1, <3>2, <4>1 DEF OutputOK, Faithful
    <3>4. CASE c = a
      <4>1. leader[c] = "starting" /\ leader'[c] = "reading" /\ half'[c] = fd[c]
        BY <1>17, <3>4 DEF Read
      <4>2. pc[c] \notin Checked
        BY <3>1, <4>1 DEF GroupOK
      <4> QED
        BY <3>1, <3>2, <4>1, <4>2 DEF OutputOK, SourceOK
    <3> QED
      BY <3>3, <3>4
  <2>4. ASSUME NEW c \in Call PROVE CopyOK(c)'
    BY <1>17 DEF Read, CallsInv, SourceOK, GroupOK, OutputOK, CopyOK, Faithful, Checked
  <2> QED
    BY <2>1, <2>2, <2>3, <2>4 DEF CallsInv
<1>18. CASE Write(a)
  <2>1. TypeInv'
    BY <1>18 DEF Write, Written, Exits
  <2>2. ASSUME NEW c \in Call PROVE SourceOK(c)' /\ GroupOK(c)'
    BY <1>18 DEF Write, Written, Exits, CallsInv, SourceOK, GroupOK, Checked
  <2>3. ASSUME NEW c \in Call PROVE OutputOK(c)'
    <3>1. OutputOK(c) /\ OutputOK(a) /\ GroupOK(a) /\ SourceOK(a)
      BY DEF CallsInv
    <3>2. pc'[c] = pc[c] /\ (c # a => leader'[c] = leader[c] /\ out'[c] = out[c]) /\ half'[c] = half[c]
          /\ fd' = fd /\ before' = before /\ strays \subseteq strays'
      BY <1>18 DEF Write, Written, Exits
    <3>3. CASE c # a
      BY <3>1, <3>2, <3>3 DEF OutputOK, Faithful, Checked
    <3>4. CASE c = a
      <4>1. leader[a] = "reading" /\ leader'[a] = "ok"
            /\ out'[a].data = IF half[a] = fd[a] THEN half[a] ELSE Torn
        BY <1>18 DEF Write, Written, Exits
      <4>2. half[a] \in Nat /\ before[a] \in Nat /\ fd[a] \in Nat /\ before[a] <= half[a] /\ half[a] <= fd[a]
        BY <3>1, <4>1 DEF OutputOK, SourceOK
      <4>3. pc[a] \notin Checked
        BY <3>1, <4>1 DEF GroupOK
      <4>4. fd'[a] = fd[a] /\ before'[a] = before[a] /\ pc'[a] \notin Checked
        BY <3>2, <3>4, <4>3
      <4>5. CASE half[a] = fd[a]
        <5>1. out'[a].data \in Nat /\ before'[a] <= out'[a].data /\ out'[a].data <= fd'[a]
          BY <4>1, <4>2, <4>4, <4>5
        <5> QED
          BY <3>4, <4>1, <4>4, <5>1 DEF OutputOK
      <4>6. CASE half[a] # fd[a]
        <5>1. out'[a].data = Torn /\ before'[a] < fd'[a]
          <6>1. before[a] < fd[a]
            BY <4>2, <4>6, Between
          <6> QED
            BY <4>1, <4>4, <4>6, <6>1
        <5> QED
          BY <3>4, <4>1, <4>4, <5>1 DEF OutputOK
      <4> QED
        BY <4>5, <4>6
    <3> QED
      BY <3>3, <3>4
  <2>4. ASSUME NEW c \in Call PROVE CopyOK(c)'
    BY <1>18 DEF Write, Written, Exits, CallsInv, SourceOK, GroupOK, OutputOK, CopyOK, Faithful, Checked
  <2> QED
    BY <2>1, <2>2, <2>3, <2>4 DEF CallsInv
<1>19. CASE Reject(a)
  <2>1. TypeInv'
    BY <1>19 DEF Reject, Exits
  <2>2. ASSUME NEW c \in Call PROVE SourceOK(c)' /\ GroupOK(c)'
    BY <1>19 DEF Reject, Exits, CallsInv, SourceOK, GroupOK, Checked
  <2>3. ASSUME NEW c \in Call PROVE OutputOK(c)'
    BY <1>19 DEF Reject, Exits, CallsInv, SourceOK, GroupOK, OutputOK, Faithful, Checked
  <2>4. ASSUME NEW c \in Call PROVE CopyOK(c)'
    BY <1>19 DEF Reject, Exits, CallsInv, SourceOK, GroupOK, OutputOK, CopyOK, Faithful, Checked
  <2> QED
    BY <2>1, <2>2, <2>3, <2>4 DEF CallsInv
<1>20. CASE Scribble(a)
  <2>1. TypeInv'
    BY <1>20 DEF Scribble, Written, Fault
  <2>2. ASSUME NEW c \in Call PROVE SourceOK(c)' /\ GroupOK(c)'
    BY <1>20 DEF Scribble, Written, Fault, CallsInv, SourceOK, GroupOK, Checked
  <2>3. ASSUME NEW c \in Call PROVE OutputOK(c)'
    BY <1>20 DEF Scribble, Written, Fault, CallsInv, SourceOK, GroupOK, OutputOK, Faithful, Checked
  <2>4. ASSUME NEW c \in Call PROVE CopyOK(c)'
    <3>1. CopyOK(c) /\ OutputOK(c) /\ SourceOK(c)
      BY DEF CallsInv
    <3>2. CASE c # a
      <4>1. /\ pc'[c] = pc[c] /\ outSig'[c] = outSig[c] /\ out'[c] = out[c] /\ half'[c] = half[c]
            /\ pub'[c] = pub[c] /\ before' = before /\ strays \subseteq strays'
        BY <1>20, <3>2 DEF Scribble, Written, Fault
      <4> QED
        BY <3>1, <4>1 DEF CopyOK, Faithful
    <3>3. CASE c = a
      BY <1>20, <3>1, <3>3 DEF Scribble, Written, Fault, SourceOK, OutputOK, CopyOK, Faithful, Checked
    <3> QED
      BY <3>2, <3>3
  <2> QED
    BY <2>1, <2>2, <2>3, <2>4 DEF CallsInv
<1>21. CASE HelperExits(a)
  <2>1. TypeInv'
    BY <1>21 DEF HelperExits
  <2>2. ASSUME NEW c \in Call PROVE SourceOK(c)' /\ GroupOK(c)'
    BY <1>21 DEF HelperExits, CallsInv, SourceOK, GroupOK, Checked
  <2>3. ASSUME NEW c \in Call PROVE OutputOK(c)'
    BY <1>21 DEF HelperExits, CallsInv, SourceOK, GroupOK, OutputOK, Faithful, Checked
  <2>4. ASSUME NEW c \in Call PROVE CopyOK(c)'
    BY <1>21 DEF HelperExits, CallsInv, SourceOK, GroupOK, OutputOK, CopyOK, Faithful, Checked
  <2> QED
    BY <2>1, <2>2, <2>3, <2>4 DEF CallsInv
<1>22. CASE PipesClose(a)
  <2>1. TypeInv'
    BY <1>22 DEF PipesClose
  <2>2. ASSUME NEW c \in Call PROVE SourceOK(c)' /\ GroupOK(c)'
    BY <1>22 DEF PipesClose, CallsInv, SourceOK, GroupOK, Checked
  <2>3. ASSUME NEW c \in Call PROVE OutputOK(c)'
    BY <1>22 DEF PipesClose, CallsInv, SourceOK, GroupOK, OutputOK, Faithful, Checked
  <2>4. ASSUME NEW c \in Call PROVE CopyOK(c)'
    BY <1>22 DEF PipesClose, CallsInv, SourceOK, GroupOK, OutputOK, CopyOK, Faithful, Checked
  <2> QED
    BY <2>1, <2>2, <2>3, <2>4 DEF CallsInv
<1> QED
  BY <1>1, <1>2, <1>3, <1>4, <1>5, <1>6, <1>7, <1>8, <1>9, <1>10, <1>11, <1>12, <1>13, <1>14, <1>15, <1>16, <1>17, <1>18, <1>19, <1>20, <1>21, <1>22 DEF Step, Converter

\* The participant only makes inodes newer; a crash only ends calls.
LEMMA OtherSteps ==
  ASSUME TypeInv, CallsInv, Edit \/ Crash
  PROVE  TypeInv' /\ CallsInv'
<1> USE ConversionNames DEF TypeInv, Labels, Content, files, procs, bounds
<1>1. CASE Edit
  <2>1. TypeInv'
    <3>1. source' \in Nat /\ UNCHANGED <<before, out, half, outSig, pub, leader, pc, result>>
      BY <1>1 DEF Edit
    <3>2. fd' \in [Call -> Nat \cup {None}]
      <4>1. CASE fd' = [c \in Call |-> IF linked[c] THEN source + 1 ELSE fd[c]]
        <5>1. \A c \in Call : (IF linked[c] THEN source + 1 ELSE fd[c]) \in Nat \cup {None}
          OBVIOUS
        <5> QED
          BY <4>1, <5>1
      <4>2. CASE UNCHANGED fd
        BY <4>2
      <4> QED
        BY <1>1, <4>1, <4>2 DEF Edit
    <3>3. linked' \in [Call -> BOOLEAN]
      BY <1>1 DEF Edit
    <3> QED
      BY <3>1, <3>2, <3>3
  <2>2. ASSUME NEW c \in Call PROVE SourceOK(c)' /\ GroupOK(c)'
    <3>1. SourceOK(c)'
      BY <1>1 DEF Edit, CallsInv, SourceOK, Checked
    <3>2. GroupOK(c)'
      BY <1>1 DEF Edit, CallsInv, GroupOK, Checked
    <3> QED
      BY <3>1, <3>2
  <2>3. ASSUME NEW c \in Call PROVE OutputOK(c)' /\ CopyOK(c)'
    <3>1. fd'[c] # fd[c] => fd[c] \in Nat /\ fd'[c] \in Nat /\ fd[c] <= fd'[c]
      BY <1>1 DEF Edit, CallsInv, SourceOK
    <3>2. UNCHANGED <<before, out, half, outSig, pub, leader, strays, pc>>
      BY <1>1 DEF Edit
    <3>3. before[c] # None => before[c] \in Nat /\ fd[c] \in Nat
      BY DEF CallsInv, SourceOK
    <3>4. leader[c] # "none" => before[c] # None
      BY DEF CallsInv, SourceOK
    <3> QED
      BY <3>1, <3>2, <3>3, <3>4 DEF CallsInv, OutputOK, CopyOK, Faithful
  <2> QED
    BY <2>1, <2>2, <2>3 DEF CallsInv
<1>2. CASE Crash
  <2>1. TypeInv'
    BY <1>2 DEF Crash, Fault
  <2>2. ASSUME NEW c \in Call PROVE SourceOK(c)' /\ GroupOK(c)' /\ OutputOK(c)' /\ CopyOK(c)'
    BY <1>2 DEF Crash, Fault, CallsInv, SourceOK, GroupOK, OutputOK, CopyOK, Faithful, Checked
  <2> QED
    BY <2>1, <2>2 DEF CallsInv
<1> QED
  BY <1>1, <1>2

\* The destination is only written when there is none, with what its call has
\* compared; the call does not open another source afterwards.
LEMMA DestinationSteps ==
  ASSUME IInv, [Next]_vars
  PROVE  DestInv' /\ (dest # None => dest' = dest)
<1> USE DEF IInv, TypeInv, Labels, Goto, Return, Raise, files, procs, bounds, vars
<1>1. ASSUME NEW c \in Call
      PROVE  /\ pc[c] \notin {"new", "open"} => pc'[c] \notin {"new", "open"} /\ before'[c] = before[c]
             /\ c \in strays => c \in strays'
  <2>1. CASE Edit \/ Crash \/ Finished \/ UNCHANGED vars
    BY <2>1 DEF Edit, Crash, Fault, Finished
  <2>2. CASE \E a \in Call : Step(a) \/ Raises(a)
    <3>1. PICK a \in Call : Step(a) \/ Raises(a)
      BY <2>2
    <3> QED
      BY <3>1 DEF Step, ReturnExisting, MakeOutput, OpenSource, Spawn, Waited, TimesOut, Terminate, Kill,
        CheckSource, Measure, Copy, Recopy, Compare, Link, Tidy, Raises
  <2>3. CASE \E a \in Call : Converter(a)
    <3>1. PICK a \in Call : Converter(a)
      BY <2>3
    <3> QED
      BY <3>1 DEF Converter, Read, Write, Exits, Reject, Scribble, HelperExits, PipesClose
  <2> QED
    BY <2>1, <2>2, <2>3 DEF Next
<1>2. CASE dest' = dest
  BY <1>1, <1>2 DEF DestInv, Faithful
<1>3. CASE dest' # dest
  <2>1. PICK c \in Call : Link(c)
    BY <1>3 DEF Next, Step, Converter, ReturnExisting, MakeOutput, OpenSource, Spawn, Waited, TimesOut, Terminate, Kill,
      CheckSource, Measure, Copy, Recopy, Compare, Tidy, Raises, Read, Write, Reject, Scribble, HelperExits, PipesClose, Edit, Crash, Finished
  <2>2. dest = None /\ dest' = pub[c] /\ pc[c] = "link"
    BY <1>3, <2>1 DEF Link
  <2>3. Faithful(c, pub[c])
    BY <2>2 DEF CallsInv, CopyOK
  <2> QED
    BY <1>1, <2>2, <2>3 DEF DestInv, Faithful
<1> QED
  BY <1>2, <1>3

-----------------------------------------------------------------------------
(* Theorems *)

\* The invariant holds before the first call, and every step keeps it.
LEMMA Invariance == Spec => []IInv
<1>1. Init => IInv
  BY ConversionNames DEF Init, IInv, TypeInv, Labels, Content, CallsInv, SourceOK, GroupOK, OutputOK, CopyOK, DestInv, Checked
<1>2. IInv /\ [Next]_vars => IInv'
  <2> SUFFICES ASSUME IInv, [Next]_vars PROVE IInv'
    OBVIOUS
  <2>1. CASE UNCHANGED vars
    BY <2>1 DEF vars, files, procs, bounds, IInv, TypeInv, CallsInv, SourceOK, GroupOK, OutputOK, CopyOK, Faithful, DestInv
  <2>2. CASE Next
    BY <2>1, <2>2, CallSteps, OtherSteps, DestinationSteps DEF Next, IInv, Finished
  <2> QED
    BY <2>1, <2>2
<1> QED
  BY <1>1, <1>2, PTL DEF Spec

\* Whatever is edited, killed or written late, what is published is the
\* conversion of one generation of one call's source, or what a child of its
\* converter put there before the measure: never a mixture.
THEOREM PublicationsAreWhole == Spec => []PublishedIsWhole
<1>1. IInv => PublishedIsWhole
  BY DEF IInv, DestInv, Faithful, PublishedIsWhole
<1> QED
  BY Invariance, <1>1, PTL

\* No step replaces a publication.
THEOREM PublicationsAreFinal == Spec => PublishedIsFinal
<1>1. IInv /\ [Next]_vars => [dest # None => dest' = dest]_vars
  BY DestinationSteps
<1> QED
  BY Invariance, <1>1, PTL DEF Spec, PublishedIsFinal

\* No call ends while its converter runs, and at the time limit its whole
\* group has ended.
THEOREM GroupsEnd == Spec => []GroupIsGone
<1>1. IInv => GroupIsGone
  BY DEF IInv, CallsInv, GroupOK, GroupIsGone
<1> QED
  BY Invariance, <1>1, PTL
=============================================================================

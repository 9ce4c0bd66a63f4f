------------------------------ MODULE MCInstaller ------------------------------
EXTENDS Installer

CONSTANTS old, new, bad

Releases == {old, new, bad}
BadReleases == {bad}

\* old and new differ in the model only, so they share dataset_revision;
\* the records of bad are others.
Revisions == [r \in Releases |-> IF r = bad THEN 2 ELSE 1]

Upgrades == {<<old, new>>, <<old, bad>>, <<bad, new>>}
AnyChange == {old, new} \X {old, new}
==============================================================================

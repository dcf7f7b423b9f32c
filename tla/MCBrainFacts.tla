---------------------------- MODULE MCBrainFacts ----------------------------
EXTENDS BrainFacts, TLC

CONSTANTS k1, k2, s1, s2, i1, i2, i3, v1, v2, h1, h2

Fact(k, s, i, v, status, corrects) ==
  [key |-> k, subject |-> s, identity |-> i, value |-> v,
   status |-> status, corrects |-> corrects]

\* A fact, its correction under another key, the fact again under that key, a
\* fact on another subject that takes a used key, and a timeline event.
SeveralFacts == {
  Fact(k1, s1, i1, v1, "current", FALSE),
  Fact(k2, s1, i2, v2, "current", TRUE),
  Fact(k2, s1, i1, v1, "current", FALSE),
  Fact(k1, s2, i3, v2, "current", FALSE),
  Fact(k2, s2, i2, v1, "timeline", FALSE)}

\* The current task, as two sessions derive it.
TaskOfTwoSessions == {
  Fact(k1, s1, i1, v1, "current", FALSE),
  Fact(k1, s1, i2, v2, "current", FALSE)}

Symmetry == Permutations(Handlers)
=============================================================================

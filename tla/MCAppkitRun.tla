---------------------------- MODULE MCAppkitRun -----------------------------
EXTENDS AppkitRun

ImageOf(roles, engines, wasi, embedded, spins) ==
  [requested |-> roles, embedded |-> embedded,
   kind |-> [r \in roles |-> IF r \in engines THEN "Engine" ELSE "Driver"],
   wasi |-> wasi, spins |-> spins]

\* One to three roles with the engine first, in the middle, last, twice or not
\* at all, with and without a WASI guest, over a carrier that spins and over one
\* that does not.
SmallImages ==
  {ImageOf(roles, engines, wasi, embedded, spins) :
     roles \in {{0}, {1, 2}, {0, 1, 2}}, engines \in {{}, {0}, {1}, {2}, {0, 2}},
     wasi \in BOOLEAN, embedded \in BOOLEAN, spins \in BOOLEAN}

\* Five roles for the four slots of the embedded scheduler, all tasks or with a
\* WASI engine behind four tasks; and a WASI engine behind three tasks, which
\* fits.
FullImages ==
  {ImageOf(0..4, {}, FALSE, TRUE, FALSE), ImageOf(0..4, {4}, TRUE, TRUE, FALSE),
   ImageOf(0..3, {3}, TRUE, TRUE, FALSE)}

Images == SmallImages \cup FullImages
=============================================================================

----------------------------- MODULE MCReturns -----------------------------
(* A main, a child and a modal window, with the fairness of a program that *)
(* keeps running.                                                          *)
EXTENDS HmgWindowsProps

CONSTANTS main, c1, m1, h1, h2, h3

MCActivations == {<<main>>, <<c1>>, <<m1>>, <<main, c1>>}
MCOneByOne    == {<<main>>, <<m1>>}
MCHandles     == {h1, h2, h3}
=============================================================================

------------------------------ MODULE MCGroups ------------------------------
(* A main, a child and a modal window, activated one by one or several at  *)
(* once, by a program that keeps to none of the rules of section Careful.  *)
EXTENDS HmgWindowsProps, TLC

CONSTANTS main, c1, m1, h1, h2, h3

MCActivations == {<<main>>, <<c1>>, <<m1>>, <<main, c1>>, <<c1, m1>>,
                  <<c1, main, m1>>}
MCHandles     == {h1, h2, h3}
MCSymmetry    == Permutations({h1, h2, h3})
=============================================================================

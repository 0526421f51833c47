------------------------------ MODULE MCModal ------------------------------
(* A main window and two modal dialogs, opened from each other's controls. *)
EXTENDS HmgWindowsProps, TLC

CONSTANTS main, m1, m2, h1, h2, h3, h4

MCActivations == {<<main>>, <<m1>>, <<m2>>, <<main, m1>>, <<m1, m2>>}
MCHandles     == {h1, h2, h3, h4}
MCSymmetry    == Permutations({h1, h2, h3, h4})
=============================================================================

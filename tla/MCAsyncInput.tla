---------------------------- MODULE MCAsyncInput -----------------------------
(***************************************************************************)
(* Instances of AsyncInput: the keyboard task and one other task.          *)
(***************************************************************************)
EXTENDS AsyncInput

CONSTANT a1

OneApp == {a1}
=============================================================================

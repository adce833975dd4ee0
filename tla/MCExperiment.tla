---------------------------- MODULE MCExperiment ----------------------------
(* Small instances of Experiment: one worker that is run twice, so that       *)
(* threads of the first run meet the second.                                  *)
EXTENDS Experiment
=============================================================================

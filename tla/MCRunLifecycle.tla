---------------------------- MODULE MCRunLifecycle ----------------------------
(* RunLifecycle for TLC: nothing tells two artifacts, contents or resources *)
(* apart, nor who asked for a whole package whose generation is over and    *)
(* what the asker heard: no action reads either any more.                   *)
EXTENDS RunLifecycle, TLC

Symmetry == Permutations(Artifacts) \cup Permutations(Versions) \cup Permutations(Resources)

View ==
  LET done == stage = "over" /\ written = Len(Agent!PackageFiles)
  IN  <<vars, stage, contract, audit, dryRun, gates, written, harness,
        IF done THEN <<>> ELSE <<origin, told>>>>
=============================================================================

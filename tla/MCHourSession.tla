----------------------------- MODULE MCHourSession -----------------------------
(* Instances of HourSession for TLC, whose .cfg files cannot say -1. *)
EXTENDS HourSession

MCCredits == {1, -1}
MCAdjusts == {-1}

=============================================================================

------------------------------ MODULE MCIntake ------------------------------
(* Small instances of Intake, with its reports, for TLC. *)
EXTENDS IntakeReports, TLC

CONSTANTS
  Heavy,    \* the deliveries of two kilograms; the others weigh one
  ByFirst   \* the deliveries the first farmer brings; the rest are another's

MCWeight == [d \in Deliveries |-> IF d \in Heavy THEN 2 ELSE 1]

MCFarmers == {"first", "second"}
MCFarmerOf == [d \in Deliveries |-> IF d \in ByFirst THEN "first" ELSE "second"]
MCGradeOf == [d \in Deliveries |-> IF d \in Graded THEN "AA" ELSE None]

\* What the first farmer brings is priced.
MCPrice == [d \in Deliveries |-> IF d \in ByFirst THEN 3 ELSE None]
=============================================================================

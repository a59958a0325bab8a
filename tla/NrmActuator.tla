---------------------------- MODULE NrmActuator ----------------------------
(***************************************************************************)
(* Actuators (src/actuator.c, src/actuators/): an object with a uuid, a    *)
(* current value, and either two limits or a set of choices.  Values are   *)
(* doubles in the code and integers here: only their order and distance    *)
(* matter.  Choices are kept sorted by the code (discrete_set_choices), so *)
(* a set carries the same information.                                     *)
(***************************************************************************)
EXTENDS Integers

CONSTANT Uuids   \* the uuids of actuators, slices, sensors and scopes

\* What a client describes to the daemon in an ADD message.
ContinuousActuator ==
  [uuid : Uuids, type : {"CONTINUOUS"}, min : Int, max : Int, value : Int]

DiscreteActuator ==
  [uuid : Uuids, type : {"DISCRETE"}, choices : SUBSET Int, value : Int]

Actuator == ContinuousActuator \cup DiscreteActuator

Dist(v, d) == IF v < d THEN d - v ELSE v - d

\* The choice the scan of discrete_corrected_value keeps: the comparison is
\* strict and the choices ascend, so of two equally close choices the lower.
Closest(choices, v) ==
  CHOOSE d \in choices :
    \A e \in choices : \/ Dist(v, d) < Dist(v, e)
                       \/ Dist(v, d) = Dist(v, e) /\ d <= e

nrm_actuator_continuous_validate_value(a, v) == a.min <= v /\ v <= a.max

nrm_actuator_discrete_validate_value(a, v) == v \in a.choices

\* TRUE when the C function returns 0, FALSE when it returns -NRM_EDOM.
nrm_actuator_validate_value(a, v) ==
  IF a.type = "CONTINUOUS" THEN nrm_actuator_continuous_validate_value(a, v)
                           ELSE nrm_actuator_discrete_validate_value(a, v)

nrm_actuator_continuous_corrected_value(a, v) ==
  IF v < a.min THEN a.min ELSE IF v > a.max THEN a.max ELSE v

\* An actuator whose correction can work: its limits are in order, or it has a
\* choice.  Nothing in the code checks either.
Correctable(a) == IF a.type = "CONTINUOUS" THEN a.min <= a.max ELSE a.choices # {}

\* Below the first choice or above the last one the scan is skipped, with
\* the result it would have had.  Without choices the function fails and
\* leaves the value as it was; its callers ignore the failure.
nrm_actuator_discrete_corrected_value(a, v) ==
  IF a.choices = {} THEN v ELSE Closest(a.choices, v)

\* A plausible slip: the value is passed on as it came.
corrected_value_Identity(a, v) == v

nrm_actuator_corrected_value(a, v) ==
  IF a.type = "CONTINUOUS" THEN nrm_actuator_continuous_corrected_value(a, v)
                           ELSE nrm_actuator_discrete_corrected_value(a, v)
=============================================================================

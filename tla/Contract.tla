------------------------------ MODULE Contract ------------------------------
(***************************************************************************)
(* The grade of an assay run, crates/contract/src/lib.rs: computed when a  *)
(* run is assembled by the harness and when one is imported from OTLP.     *)
(***************************************************************************)
Grades == {"invalid", "valid", "reproducible"}

\* Mutant: missing cost records do not matter.
grade_without_costs(source, consistent, extended, probes_ran, has_costs) ==
    CASE ~consistent -> "invalid"
      [] consistent /\ source /= "imported" /\ extended -> "reproducible"
      [] OTHER -> "valid"

\* Consistent tuning; not an import; every extended fingerprint field; and cost
\* records whenever a probe ran.
compute_grade(source, consistent, extended, probes_ran, has_costs) ==
    CASE ~consistent -> "invalid"
      [] consistent /\ source /= "imported" /\ extended /\ (probes_ran => has_costs) -> "reproducible"
      [] OTHER -> "valid"
=============================================================================

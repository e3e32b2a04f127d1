--------------------------- MODULE ProtocolClaims ---------------------------
(***************************************************************************)
(* What docs/protocol says of the session and the code does not keep: one  *)
(* run per claim shows how.                                                *)
(***************************************************************************)
EXTENDS Lifecycle

\* jobs.md:99-101, a redelivered job is deduplicated by its id and not printed
\* again, "efecto exactly-once".  The record follows the print as a step of its
\* own: a process that ends between the two prints the job again.
ExactlyOnce == \A j \in Job : prints[j] <= 1

\* jobs.md:22-24, the agent answers each job with "exactamente uno de
\* job_completed / job_failed", and :100, a redelivered job only gets its current
\* state again.  Failures are not recorded: a redelivery runs the job once more.
OneVerdict ==
  [][\A j \in Job : verdict[j] = "job_failed" => verdict'[j] = "job_failed"]_vars
=============================================================================

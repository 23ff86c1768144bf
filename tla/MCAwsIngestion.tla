----------------------------- MODULE MCAwsIngestion -----------------------------
(***************************************************************************)
(* A small instance of AwsIngestion: one task that ingests a table, a file *)
(* and then a paged source, and an invocation with a lower limit that      *)
(* ingests the paged source.                                               *)
(***************************************************************************)
EXTENDS AwsIngestion, TLC

CONSTANTS task, call, payments, devices, rates, a, b, bad, timeout, unavailable, forbidden

List(records) == [records |-> records, loops |-> FALSE]

Loop == [records |-> << >>, loops |-> TRUE]

Answer(reason, original) == [reason |-> reason, original |-> original]

MCOutages ==
  {Answer("rest_transport_error", timeout), Answer("rest_retry_exhausted", unavailable)}

MCRefusals == {Answer("rest_non_retryable_http", forbidden)}

MCWork == (task :> <<payments, devices, rates>>) @@ (call :> <<rates>>)

MCSources ==
  (payments :> {List(<<a>>), List(<<b, bad, a>>), List(<<a, b, a>>)})
  @@ (devices :> {List(<<b>>), List(<<a, bad>>)})
  @@ (rates :> {List(<<a, b>>), List(<<b>>), List(<<a, bad>>), List(<<a, b, a>>), Loop})

Limited(pages, records) ==
  [e \in {payments, devices, rates} |-> [pages |-> pages, records |-> records]]

MCLimits == (task :> Limited(2, 2)) @@ (call :> Limited(1, 2))

MCRetries == (task :> 2) @@ (call :> 0)
=================================================================================

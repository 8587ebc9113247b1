-------------------------------- MODULE MCHost --------------------------------
(* Model checking Host on a small instance, and the promises of WireExact   *)
(* and StoreRouting of the endpoint and the stores of a host, from when it   *)
(* begins to serve.  Those are about values alone: TLC evaluates each once.  *)
EXTENDS Host, WireExact, StoreRouting

CONSTANTS c1, c2, h1

\* EncodesExactly: every value of every record that can be sent arrives
\* (rec.go:3804-5885 against 6620-13521).
ServesEncodesExactly == [][serving' => EncodesExactly]_serving

\* ReadsOnlyTheSchema: a reader accepts the documents of its record and no other
\* (rec.go:5929-13521).
ServesReadsOnlyTheSchema == [][serving' => ReadsOnlyTheSchema]_serving

\* IntegersExact: an integer has one spelling, and nothing wraps at its width
\* (rec.go:31-50, 6086-6133).
ServesIntegersExact == [][serving' => IntegersExact]_serving

\* TextsExact: a timestamp is carried into UTC as the same instant, and bytes have
\* one text (rec.go:6524-6611, 13550-13627).
ServesTextsExact == [][serving' => TextsExact]_serving

\* CallsExact: a call runs the handler it names with the arguments that were passed
\* and its caller hears the answer (rec.go:13633-13751, 13852-13934, 14065-14151).
ServesCallsExact == [][serving' => CallsExact]_serving

\* RunsOnlyTyped: a handler runs for no frame but its own (rec.go:13633-13648,
\* 13852-13874, 14065-14119).
ServesRunsOnlyTyped == [][serving' => RunsOnlyTyped]_serving

\* RoutesExactly: a list of stores finds every copy of an object once, and a
\* delivery goes to the store that placed it (stores.go:55-116).
ServesRoutesExactly == [][serving' => RoutesExactly]_serving
=============================================================================

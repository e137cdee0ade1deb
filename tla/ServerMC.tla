------------------------------ MODULE ServerMC ------------------------------
(* A small instance of Server for TLC.                                      *)
EXTENDS Server

CONSTANTS a, b, w1, w2, w3, x1, x3

\* Two processes, the configuration edited in between.  In the first the workloads
\* of a have one socket path, and anything may fail; in the second, which has only
\* one of them, nothing fails.
MCWorkloadsOf == (1 :> ((a :> <<w1, w2>>) @@ (b :> <<w3>>)))
              @@ (2 :> ((a :> <<w1>>) @@ (b :> <<>>)))
MCSocketPath == (1 :> ((w1 :> x1) @@ (w2 :> x1) @@ (w3 :> x3))) @@ (2 :> (w1 :> x1))
MCFederation == (1 :> BOOLEAN) @@ (2 :> {TRUE})
MCMayFail == (1 :> Failures) @@ (2 :> {})

=============================================================================

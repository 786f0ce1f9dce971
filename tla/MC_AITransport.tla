--------------------------- MODULE MC_AITransport ---------------------------
(* Three calls of two scans, two attempts each, over a provider that admits  *)
(* one or two at a time: a call can wait for the provider while another is   *)
(* told to slow down, and Retry-After can exceed the cap.                    *)
EXTENDS AITransport
CONSTANTS c1, c2, c3, scan1, scan2
MCCalls == {c1, c2, c3}
MCTasks == {scan1, scan2}
\* as wide as the provider's limit, and narrower
MCMaxConcurrentChoices == {1, 2}
MCTaskOf == [c \in MCCalls |-> IF c = c3 THEN scan2 ELSE scan1]
=============================================================================

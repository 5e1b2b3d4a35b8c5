----------------------------- MODULE MCStreamRelay -----------------------------
(* TLC instances of StreamRelay.  Two bounds would multiply: streams, and what   *)
(* happens on each.  StreamRelay_safe looks at two instances at once: one stream *)
(* with everything that may happen on it, and two streams of which only the      *)
(* clients send, on a session that lasts.                                        *)
EXTENDS StreamRelay, FiniteSets, TLC

Symmetric == Permutations(Streams)

OneStream ==
    /\ Cardinality({s \in Streams : handler[s] # "idle"}) <= 1
    /\ \A s \in Streams : upRead[s] <= 1

TwoStreams == faults = 0 /\ \A s \in Streams : downRead[s] = 0

\* The states that are explored: each is reached through states of its own
\* instance, since neither count ever decreases.
Bounded == OneStream \/ TwoStreams
================================================================================

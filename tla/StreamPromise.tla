----------------------------- MODULE StreamPromise -----------------------------
(* What one direction of a relayed stream promises to its two ends: the        *)
(* receiver gets the chunks the sender's side has read, in order, without gap  *)
(* or repetition, until the direction is over; whatever has not arrived by     *)
(* then is lost, and nothing arrives later.                                    *)
EXTENDS Naturals, Sequences

CONSTANTS Streams

VARIABLES sent,     \* number of chunks read at the sending end
          got,      \* chunks handed to the receiving end
          over      \* the streams whose receiving end is shut

vars == <<sent, got, over>>

Init ==
    /\ sent = [s \in Streams |-> 0]
    /\ got = [s \in Streams |-> <<>>]
    /\ over = {}

Send(s) ==
    /\ sent' = [sent EXCEPT ![s] = @ + 1]
    /\ UNCHANGED <<got, over>>

Deliver(s) ==
    /\ s \notin over
    /\ Len(got[s]) < sent[s]
    /\ got' = [got EXCEPT ![s] = Append(@, Len(@) + 1)]
    /\ UNCHANGED <<sent, over>>

\* Several streams may be cut by one step, when a session ends.
End ==
    /\ over' \in SUBSET Streams
    /\ over \subseteq over'
    /\ UNCHANGED <<sent, got>>

Next == End \/ \E s \in Streams : Send(s) \/ Deliver(s)

Spec == Init /\ [][Next]_vars
================================================================================

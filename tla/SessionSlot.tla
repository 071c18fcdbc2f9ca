------------------------------ MODULE SessionSlot ------------------------------
(***************************************************************************)
(* What the Android service relies on in the bridge: one session at a time, *)
(* which a start opens only when there is none, which a stop can only ask   *)
(* to end, and whose failure is what the status shows until the next start. *)
(***************************************************************************)
CONSTANTS
    Ids,        \* the sessions
    Nobody      \* no session; not one of Ids

VARIABLES
    open,       \* the session that is open, or Nobody
    used,       \* the sessions that have been opened
    asked,      \* the sessions a stop has asked to end
    failure     \* the session whose failure the status shows, or Nobody

Init == open = Nobody /\ used = {} /\ asked = {} /\ failure = Nobody

Open(s) == /\ open = Nobody
           /\ s \notin used
           /\ open' = s
           /\ used' = used \cup {s}
           /\ failure' = Nobody
           /\ UNCHANGED asked

\* A stop may still ask a session that has closed since the stop looked.
Ask(s) == /\ s \in used
          /\ asked' = asked \cup {s}
          /\ UNCHANGED <<open, used, failure>>

Close(s) == /\ open = s
            /\ open' = Nobody
            /\ failure' \in {s, failure}
            /\ UNCHANGED <<used, asked>>

Next == \E s \in Ids : Open(s) \/ Ask(s) \/ Close(s)

Spec == Init /\ [][Next]_<<open, used, asked, failure>>
=============================================================================

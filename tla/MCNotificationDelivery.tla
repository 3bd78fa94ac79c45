------------------------ MODULE MCNotificationDelivery ------------------------
(* Instances of NotificationDelivery for TLC. *)
EXTENDS NotificationDelivery, TLC
CONSTANTS n1, n2

TwoSends == {n1, n2}

\* Calls of send() are interchangeable.
Symmetry == Permutations(Sends)

\* After the second crash only while one send has begun: a job that stalls
\* twice needs two crashes of its own.
SecondCrashAlone == crashes = 2 => \E n \in Sends : sending[n] = "idle"
=============================================================================

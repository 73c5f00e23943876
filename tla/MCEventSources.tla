--------------------------- MODULE MCEventSources ---------------------------
(* The instance of the EventSources runs.                                  *)
EXTENDS EventSources

\* A unit with a path and a port, and one that takes the path over and has a
\* socket nobody can connect to
MCListen ==
  [s1 |-> <<[type |-> "stream", kind |-> "path", addr |-> "/run/a"],
            [type |-> "stream", kind |-> "port", addr |-> "80"]>>,
   s2 |-> <<[type |-> "datagram", kind |-> "path", addr |-> "/run/a"],
            [type |-> "seqpacket", kind |-> "path", addr |-> "/run/b"]>>]

MCWatch == [p1 |-> "changed", p2 |-> "changed", p3 |-> "exists"]
=============================================================================

--------------------------- MODULE MCSessionRelay ---------------------------
(***************************************************************************)
(* Small instances of SessionRelay: two sessions, and the statements a run *)
(* lets each of them send.                                                 *)
(***************************************************************************)
EXTENDS SessionRelay, TLC

CONSTANTS s1, s2, c1, c2, v1, v2

MCSymmetry == Permutations(Conns)

\* s1 does everything the router can read off a statement; s2 is the other
\* user of the connections, who leaves settings and bound state behind.
OrdinaryQueries ==
    s1 :> {Op("read"), Op("begin"), Op("commit"), Op("rollback"), Set(v1)}
 @@ s2 :> {Op("begin_ro"), Op("commit"), Op("pin"), Set(v2),
           Op("route_replica")}
OrdinaryParsed == s1 :> {Op("write")} @@ s2 :> {}

=============================================================================

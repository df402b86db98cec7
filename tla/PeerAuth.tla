------------------------------ MODULE PeerAuth ------------------------------
(***************************************************************************)
(* windows/peerauth: the grants that let a device dial the QUIC listener   *)
(* once.  A grant is the number of ticks since Allow, saturating just past *)
(* the TTL; the map Authz.pending is a function on the granted devices.    *)
(***************************************************************************)
EXTENDS Naturals

CONSTANTS TTL  \* how long a grant is valid, in ticks

NoGrants == [d \in {} |-> 0]

Granted(pending, d) == d \in DOMAIN pending /\ pending[d] <= TTL

Without(pending, ds) == [d \in DOMAIN pending \ ds |-> pending[d]]

\* Authz.Allow: a new grant, or a new deadline for the old one.
Grant(pending, d) ==
  [e \in DOMAIN pending \cup {d} |-> IF e = d THEN 0 ELSE pending[e]]

\* Mutation: only an expired grant is deleted.
ConsumeNot(pending, d) == pending

\* Authz.Check deletes the entry, on a hit as when it has expired.
Consume(pending, d) == Without(pending, {d})

Expired(pending) == {d \in DOMAIN pending : pending[d] > TTL}

\* Authz.Sweep
Swept(pending) == Without(pending, Expired(pending))

\* A tick of the clock.
Older(pending) ==
  [d \in DOMAIN pending |-> IF pending[d] > TTL THEN pending[d] ELSE pending[d] + 1]
=============================================================================

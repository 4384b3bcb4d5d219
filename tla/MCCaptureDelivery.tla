-------------------------- MODULE MCCaptureDelivery --------------------------
(***************************************************************************)
(* Small instances of CaptureDelivery: alice's SDK, and a portal that      *)
(* posts an event of bob's and a batch whose other item is malformed.      *)
(***************************************************************************)
EXTENDS CaptureDelivery

MCCustomerOf == [e \in Events |-> IF e <= Signals THEN "alice" ELSE "bob"]

MCPortalRequests ==
    {[endpoint |-> "events", items |-> <<11>>], [endpoint |-> "events:batch", items |-> <<12, 11>>]}

NoRequests == {}

Unbound == {}

=============================================================================

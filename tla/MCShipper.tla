----------------------------- MODULE MCShipper ------------------------------
(* A small instance of the shipper, the record writer and the daemon. *)
EXTENDS Shipper

OneSize == {1}
NoKeys == {}
ServiceStatuses == {200, 400, 413, 500}
=============================================================================

---- MODULE MCWireSlave ----
(* Instances of WireSlave: a buffer of four bytes, messages of up to five. *)
EXTENDS WireSlave

Given == {1, 3}
GivenOrSilent == {0, 1, 3}
====

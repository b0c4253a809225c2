------------------------------ MODULE MCConsole ------------------------------
EXTENDS Console

OfFamily(family) == [addr |-> family, netmask |-> family, broadaddr |-> "none", dstaddr |-> "none"]
Reported(n, hardware, families, opens) ==
  [name |-> n, loopback |-> FALSE, mac |-> hardware, link |-> "Ethernet", opens |-> opens,
   addresses |-> [i \in DOMAIN families |-> OfFamily(families[i])]]

Eth == Reported("eth", "own", <<"link", "v4", "v6">>, TRUE)
Usb == Reported("usb", NULL, <<"none", "v4">>, FALSE)

(* No adapter, or two.                                                     *)
MCAdapters == {<<>>, <<Usb, Eth>>}
=============================================================================

----------------------------- MODULE MCSession -----------------------------
(* A configuration and the edits an operator makes to it: another host, gNMI on
   (streaming or ONCE), paths marked pre-gnmi and gnmi, no path at all, a vendor
   JTIMON does not know, a broken certificate, no host. *)
EXTENDS Session

CONSTANTS a, b, none

MCHosts == {a, b, none}

Plain == [host |-> a, vendor |-> "junos", gnmi |-> "off", paths |-> {"plain"}, tlsOk |-> TRUE]
MCConfigs ==
    { Plain,
      [Plain EXCEPT !.host = b, !.vendor = "xr"],
      [Plain EXCEPT !.gnmi = "stream"],
      [Plain EXCEPT !.gnmi = "once", !.host = b],
      [Plain EXCEPT !.gnmi = "stream", !.paths = {"pre", "gnmi"}],
      [Plain EXCEPT !.paths = {}],
      [Plain EXCEPT !.paths = {"plain", "gnmi"}],
      [Plain EXCEPT !.vendor = "other"],
      [Plain EXCEPT !.tlsOk = FALSE],
      [Plain EXCEPT !.host = none] }
=============================================================================

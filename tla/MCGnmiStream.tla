---------------------------- MODULE MCGnmiStream ----------------------------
(***************************************************************************)
(* A device that sends a packet of its initial sync, a Juniper packet in     *)
(* between, the sync response and two updates.                               *)
(***************************************************************************)
EXTENDS GnmiStream

Sequential == [noGoroutines : {TRUE}, eos : BOOLEAN, once : BOOLEAN, juniper : BOOLEAN,
               conns : {2}]
Parallel == [noGoroutines |-> FALSE, eos |-> FALSE, once |-> TRUE, juniper |-> TRUE,
             conns |-> 1]
MCModes == Sequential \cup {Parallel}
MCScript == <<"init", "early", "sync", "update", "update">>

=============================================================================

-------------------------- MODULE MCUdpAssociation --------------------------
(***************************************************************************)
(* Two TCP sessions of either kind, or one association with two flows.     *)
(***************************************************************************)
EXTENDS UdpAssociation

First == CHOOSE s \in Accepted : TRUE

MCRequests ==
    [Accepted -> {"tunnel", "plain"}]
        \cup {[s \in Accepted |-> IF s = First THEN "udp" ELSE "none"]}

=============================================================================

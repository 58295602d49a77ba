--------------------------- MODULE MCCoordinator ----------------------------
(* Coordinator instantiated for TLC.                                        *)

EXTENDS Coordinator

Device(object, known, wan1, wan2) ==
    [object |-> object, known |-> known,
     wan |-> [s \in Slots |-> CASE s = 1 -> wan1 [] s = 2 -> wan2 [] OTHER -> "absent"]]

Switch == Device(TRUE, FALSE, "absent", "absent")
Modem == Device(TRUE, FALSE, "standby", "absent")
Junk == Device(FALSE, FALSE, "absent", "absent")

\* No gateway; one of an unknown type, failed over, behind a switch; one of a known
\* type behind a modem with a WAN, before and after its first WAN was taken out.
MCListings ==
    {<<Junk, Switch>>,
     <<Switch, Device(TRUE, FALSE, "standby", "uplink")>>,
     <<Modem, Device(TRUE, TRUE, "uplink", "standby")>>,
     <<Modem, Device(TRUE, TRUE, "junk", "uplink")>>}

=============================================================================

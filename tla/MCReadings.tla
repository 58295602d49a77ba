----------------------------- MODULE MCReadings -----------------------------
(* A gateway with two WANs, the second of them without an entry in          *)
(* uptime_stats, and one SFP port; a clock of two steps to the second.      *)

EXTENDS Readings

MCWans == {"WAN", "WAN2"}
MCListed == {"WAN"}
MCNumber == [w \in MCWans |-> IF w = "WAN" THEN 1 ELSE 2]
MCSfps == {"sfp1"}

\* What concerns an uptime, by a field of its own or the block that holds it
MCLasting ==
    {o \in Oddities \cup {NoOddity} :
        \/ o = NoOddity
        \/ o.field = "uptime"
        \/ o.group \in Clocks /\ o.field \in {"all", "stats"}}

=============================================================================

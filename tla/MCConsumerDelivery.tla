------------------------- MODULE MCConsumerDelivery -------------------------
EXTENDS ConsumerDelivery
CONSTANTS e1, forged, p1, p2
MCEvent == {e1, forged}
MCUnsigned == {forged}
MCProcess == {p1, p2}
MCPublishes == [e \in MCEvent |-> IF e = forged THEN 1 ELSE 2]

NoFaultAfterCommit == {"crash", "takeError"}
OnlyCrash == {"crash"}
=============================================================================

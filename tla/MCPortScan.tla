----------------------------- MODULE MCPortScan -----------------------------
(* PortScan for TLC: two failed targets open an incident in the short      *)
(* horizon and six in the long one.                                        *)
EXTENDS PortScan

CONSTANT Short

MCThreshold == [h \in Horizon |-> IF h = Short THEN 2 ELSE 6]

=============================================================================

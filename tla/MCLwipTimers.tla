---- MODULE MCLwipTimers ----
(***************************************************************************)
(* LwipTimers for TLC: TCP's timer and two periodic ones.                  *)
(***************************************************************************)
EXTENDS LwipTimers

CONSTANTS arp_timer, ip_reass_timer

MCInterval ==
  [h \in Handlers |->
     CASE h = TcpTimer -> 1 [] h = ip_reass_timer -> 3 [] h = arp_timer -> 4]
====

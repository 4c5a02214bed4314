----------------------------- MODULE MCMonitorWs -----------------------------
(* Instances of MonitorWs for TLC: two pages.                              *)
EXTENDS MonitorWs

CONSTANTS page1, page2, event

TwoPages == {page1, page2}

==============================================================================

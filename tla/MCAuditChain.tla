---------------------------- MODULE MCAuditChain ----------------------------
(* Two workers, either of which may append twice in a transaction (a purge *)
(* of several policies); one account beside the system actor, so that two  *)
(* rows can differ in content; one kind of event.                          *)
EXTENDS AuditChain, TLC

CONSTANTS w1, w2, u1, erased

MCWriters == {w1, w2}
MCUsers   == {u1}
MCActions == {erased}
=============================================================================

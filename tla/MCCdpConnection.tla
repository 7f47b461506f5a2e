-------------------------- MODULE MCCdpConnection --------------------------
(* Instances of CdpConnection for TLC.                                       *)
EXTENDS CdpConnection, TLC

CONSTANTS t1, t2

TwoTasks   == {t1, t2}
OneListener == {t1}
NoListener == {}
============================================================================

---------------------------- MODULE MCWebSession ----------------------------
\* A browser with one tab, for TLC.
EXTENDS WebSession
CONSTANTS t1, admin, orga, nobody
OneTab   == {t1}
Accounts == {admin, orga}
Enrolled == {admin}
=============================================================================

---------------------------- MODULE MCConfigFiles ----------------------------
(* A small instance of ConfigFiles for TLC: two keys, of which one is a default  *)
(* time frame, and the ticker map as the only file that is kept in memory.        *)
EXTENDS ConfigFiles

CONSTANTS i1, i2

MCConfigs == {MAP}
==============================================================================

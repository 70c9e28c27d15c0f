---------------------------- MODULE MCParquetStore ----------------------------
(* A small instance of ParquetStore for TLC: two tickers with a file each,    *)
(* one of them not daily, and two slots.                                        *)
EXTENDS ParquetStore

CONSTANTS t1, t2

MCTimeframes == {"1D", "1h"}
TwoFiles == {<<t1, "1D">>, <<t2, "1h">>}
OldSlot == {{1}}
==============================================================================

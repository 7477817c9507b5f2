--------------------------- MODULE MCClientManager ---------------------------
(* Small instances of ClientManager. *)
EXTENDS ClientManager

\* Every name fits in the 31 bytes the table keeps.
Fitting == [n \in Names |-> n]

\* Two names that only differ after byte 31: "long" is kept as "prefix".
LongNames == {"prefix", "long"}
Truncating == [n \in LongNames |-> "prefix"]

MCSocks == {4, 5, 6}
==============================================================================

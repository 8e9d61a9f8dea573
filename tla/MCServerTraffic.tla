-------------------------- MODULE MCServerTraffic --------------------------
(***************************************************************************)
(* Small instances of ServerTraffic for TLC.  Connections and addresses    *)
(* are interchangeable.                                                    *)
(***************************************************************************)
EXTENDS ServerTraffic, TLC

Interchangeable == Permutations(Conns) \union Permutations(Addrs)
=============================================================================

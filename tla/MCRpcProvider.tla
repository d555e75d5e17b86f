---------------------------- MODULE MCRpcProvider ----------------------------
(***************************************************************************)
(* Finite instances of RpcProvider.                                        *)
(***************************************************************************)
EXTENDS RpcProvider

\* One service with one method, and a request for another.
MCMethods == [s \in {"service"} |-> {"method"}]
MCRequest ==
    {[service |-> "service", method |-> m, parses |-> TRUE] :
        m \in {"method", "missing"}}
=============================================================================

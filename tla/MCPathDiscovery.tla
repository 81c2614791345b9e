-------------------------- MODULE MCPathDiscovery --------------------------
(***************************************************************************)
(* All control-flow graphs of three blocks: the entry, which no block      *)
(* branches to (the LLVM verifier rejects that), and two others.           *)
(***************************************************************************)
EXTENDS PathDiscovery

CONSTANTS b1, b2, b3

MCBlock == {b1, b2, b3}

\* br to one block, br i1 to two (possibly the same), ret / unreachable, and a
\* switch or invoke.
Branching == {[br |-> TRUE, succ |-> s] :
                s \in {<<b2>>, <<b3>>} \cup ({b2, b3} \X {b2, b3})}
Leaving   == {[br |-> FALSE, succ |-> s] : s \in {<<>>, <<b2, b3>>}}

MCFuns == {[entry |-> b1, node |-> n] : n \in [MCBlock -> Branching \cup Leaving]}
=============================================================================

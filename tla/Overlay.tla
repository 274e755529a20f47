------------------------------- MODULE Overlay -------------------------------
(***************************************************************************)
(* Functions laid over one another: JavaScript's {...g, ...f}.  This is    *)
(* @@ of TLC, with a definition that proofs can expand.                    *)
(***************************************************************************)
f ++ g == [x \in DOMAIN f \cup DOMAIN g |-> IF x \in DOMAIN f THEN f[x] ELSE g[x]]
=============================================================================

----------------------------- MODULE MCFileTier -----------------------------
(* Three pages, two checkpoints that share one of them.                    *)
EXTENDS FileTier

MCPages == {"p1", "p2", "p3"}
MCCheckpoints == {"c1", "c2"}
MCkv_keys == [c \in MCCheckpoints |-> IF c = "c1" THEN <<"p1", "p2">> ELSE <<"p2">>]
=============================================================================

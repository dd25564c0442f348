-------------------------- MODULE MCNgPppoeBefore --------------------------
(* Inputs for model checking NgPppoeBefore: those of NgPppoe.              *)
EXTENDS NgPppoeBefore, TLC

CONSTANTS s1, s2, s3   \* the addresses in Sess, model values

(* The inputs do not depend on the sets that are built from them.          *)
MC == INSTANCE MCNgPppoe WITH
    Sess <- {}, Uniq <- {}, Name <- {}, Addr <- {}, Requests <- {}, Frames <- {}

View == <<node, aux, mode, mac, nd_hooks, sess, hash, pppoe_sid, ticks, rmq>>

TwoSess == {s1, s2}
TwoUniq == {s1, s2, "u"}
MCName == MC!MCName
MCAddr == MC!MCAddr
TwoSymmetry == Permutations(TwoSess)
\* An offer starts with the empty service; renaming it is MCNgPppoe's.
MixedRequests == MC!MixedRequests \cup {MC!R("SERVICE", "", "")}
MixedInput == MC!ServerFrames(TwoSess, {"p2"}, 1..2) \cup MC!ClientFrames(TwoSess, {"p1"}, {1})
============================================================================

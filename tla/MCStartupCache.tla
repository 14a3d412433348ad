-------------------------- MODULE MCStartupCache --------------------------
(* Small instances of the startup media cache for TLC. *)
EXTENDS StartupCacheInv, TLC

CONSTANTS w1, w2, r1, r2, e1, u1, u2, u3, f1, f2

\* u1 and u2 are two signed URLs of one file, u3 is another file of the
\* same episode (another quality); f1 has a middle that is never cached.
MCSourceKey == [u \in Url |-> IF u = u3 THEN f2 ELSE f1]
MCLength    == [f \in File |-> IF f = f1 THEN 4 ELSE 2]
MCExact     == [u \in Url |-> "exact"]
MCMixed     == [u \in Url |-> CASE u = u1 -> "exact" [] u = u2 -> "whole"
                                 [] OTHER -> "capped"]
MCHead      == [w \in Worker |-> 2]
MCHeadOne   == [w \in Worker |-> 1]
MCTail      == [w \in Worker |-> 1]
MCResized   == [w \in Worker |-> IF w = w1 THEN 1 ELSE 2]

Rng(k, a, b) == [kind |-> k, a |-> a, b |-> b]
MCHeader     == {Rng("bounded", 0, 1), Rng("suffix", 0, 1), Rng("open", 1, 0)}
MCEndHeader  == {Rng("open", 0, 0), Rng("suffix", 0, 1)}
MCHeadHeader == {Rng("bounded", 0, 1)}
MCTailHeader == {Rng("suffix", 0, 1)}

\* Workers run the same code with the same configuration.
Symmetry == Permutations(Worker)

\* cmd/prewarm-startup is run once, by hand; from then on there is only the
\* server, which is asked again and again for every URL.
PrewarmedOnce ==
    meta # << >> => \A w \in Worker : pc[w] = "idle" => pc'[w] = "idle"

DemandSpec ==
    /\ Init /\ [][Next /\ PrewarmedOnce]_vars
    /\ \A p \in Proc : WF_vars(Step(p))
    /\ \A e \in Episode, u \in Url :
           WF_vars(\E r \in Reader, h \in Header : TryServeRange(r, e, u, h))
===========================================================================

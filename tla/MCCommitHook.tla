---------------------------- MODULE MCCommitHook ----------------------------
(***************************************************************************)
(* Two handoffs and an apply of the first.  A deployment starts blank, or  *)
(* with a legacy record, an old applied handoff before its boundary and a  *)
(* pending one after it, or with a corrupt handoff in quarantine.          *)
(***************************************************************************)
EXTENDS CommitHook, TLC

CONSTANTS h1, h2, a, good, old

MCStamp == h1 :> 1 @@ h2 :> 2 @@ a :> 3
MCTarget == a :> h1
MCLedgers == {h1 :> h2}
MCEpochs == {1, 2}
MCTexts == {old}

Blank == [events |-> [e \in Events |-> Absent], quarantine |-> Absent,
          epoch |-> Absent, legacy |-> Absent, manifests |-> {},
          log |-> Absent, pending |-> {}, pages |-> "valid", toml |-> "valid"]

Projected(tree) == [tree EXCEPT !.log = LogOf(tree), !.pending = PendingOf(tree)]

MCHeads == {
    Blank,
    Projected([Blank EXCEPT !.events[h1] = Applied, !.events[h2] = good,
                            !.epoch = 1, !.legacy = old]),
    Projected([Blank EXCEPT !.events[h1] = Corrupt, !.events[h2] = good,
                            !.quarantine = h1 :> h2])}
=============================================================================

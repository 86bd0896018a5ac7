------------------------------- MODULE MCDock -------------------------------
(***************************************************************************)
(* One companion, two skill directories, two wiki roots of which the       *)
(* second is a copy of the first or another wiki, and installs that differ *)
(* in checkout, root, posture and directories.  The repository starts      *)
(* without entry files, or with both of them tracked.                      *)
(***************************************************************************)
EXTENDS Dock, TLC

CONSTANTS c, n1, n2, w1, w2, d1, d2, o1, o2

Toml(name, posture, docs) ==
    [name |-> name, stated |-> TRUE,
     companions |-> [x \in {c} |-> [posture |-> posture, docs |-> docs]]]

Untold(toml) == [toml EXCEPT !.stated = FALSE]

MCConfs == {Untold(Toml(n1, "committed", o1)),
            Toml(n1, "committed", o1), Toml(n1, "invisible", o2), Toml(n2, Absent, o1), Gone}

Ask(k, w, posture, dirs) ==
    [op |-> "install", at |-> k, wiki |-> w, companion |-> c,
     posture |-> posture, dirs |-> dirs]

MCAsks == {Ask(Main, w1, Absent, {d1}), Ask(Main, w1, Absent, {d2}),
           Ask(Main, w1, "gitignored", {d1, d2}), Ask(Main, w2, "gitignored", {}),
           Ask(Linked, w1, Absent, {d1})}

Text(text, block) == [text |-> text, block |-> block]
MCEdits == {[file |-> "agents", to |-> Text("own", Malformed)],
            [file |-> "claude", to |-> Text("own", Absent)],
            [file |-> "plugin", to |-> Foreign],
            [file |-> "overlay", to |-> Absent],
            [file |-> "manifest", to |-> Absent],
            [file |-> "record", to |-> Corrupt]}

MCSkillEdits == {<<d1, Edited>>, <<d2, Outside>>}

Bare == [manifest |-> Absent, overlay |-> Absent, ignore |-> {}, agents |-> Absent,
         claude |-> Absent, plugin |-> Absent, skill |-> NoRenders,
         record |-> Absent, orient |-> Absent]
Wired == [Bare EXCEPT !.agents = Text("own", Absent), !.claude = Text("own", Absent)]

Start(p, n, docs, t) ==
    [conf |-> (w1 :> Toml(n1, p, o1)) @@ (w2 :> Toml(n, Absent, docs)),
     hook |-> Absent, kit |-> 1, tree |-> t, committed |-> t]
MCStarts == {Start("committed", n2, Absent, Bare), Start("invisible", n1, o2, Wired)}
=============================================================================

----------------------------- MODULE MCInstall -----------------------------
(***************************************************************************)
(* A blank directory, a directory with content and no commit, and a        *)
(* repository with history; two commits of the kit.                        *)
(***************************************************************************)
EXTENDS Install

Blank == [toml |-> Absent, keep |-> Absent, quarantine |-> Absent, ignore |-> {},
          index |-> Absent, latest |-> Absent, log |-> Absent, settings |-> Absent,
          orient |-> Absent, ledger |-> "none"]
OwnToml == [by |-> Own, stamp |-> Absent, companion |-> TRUE]
Vault == [Blank EXCEPT !.toml = OwnToml, !.log = Own, !.latest = Own,
                       !.settings = {Own}, !.ignore = {Own}]
Carried == [Blank EXCEPT !.ledger = "events", !.ignore = {"settings"}]

Start(t, lacks, commit) ==
    [tree |-> t, overlay |-> Absent, able |-> Equipment \ lacks, hook |-> Absent,
     head |-> commit, kit |-> 1]
MCStarts == {Start(Blank, {}, Absent), Start(Vault, {}, Absent),
             Start(Carried, {}, Absent), Start(Vault, {}, Vault),
             Start(Blank, {"findable"}, Blank), Start(Blank, {"python"}, Absent),
             Start(Vault, {"tools"}, Vault)}

MCRepoints == {Absent} \union
              {[own |-> own, kit |-> Absent] : own \in {"plain", "bad", "there", "missing"}} \union
              {[own |-> "plain", kit |-> Odd]}
MCEdits == {[file |-> "toml", to |-> Broken], [file |-> "toml", to |-> OwnToml],
            [file |-> "toml", to |-> [OwnToml EXCEPT !.stamp = Odd]],
            [file |-> "quarantine", to |-> Own], [file |-> "log", to |-> Link],
            [file |-> "log", to |-> Absent], [file |-> "index", to |-> Absent],
            [file |-> "settings", to |-> Broken], [file |-> "settings", to |-> {Own}],
            [file |-> "orient", to |-> Own], [file |-> "ledger", to |-> "events"],
            [file |-> "ledger", to |-> "corrupt"]}
=============================================================================

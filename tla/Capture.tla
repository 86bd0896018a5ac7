------------------------------ MODULE Capture ------------------------------
(***************************************************************************)
(* Source captures (wiki_event.py capture-sources): evidence files of one  *)
(* event copied under wiki/sources/ with a digest beside each and a        *)
(* manifest over all.  The event lock lets one capture run at a time, but  *)
(* a source is any file of the user's: it is read three times, for the     *)
(* manifest, for the copy and for the digest beside it, and may change in  *)
(* between.  No file is written atomically, and the manifest comes last.   *)
(*                                                                         *)
(* A digest is the content it is of.  A slot is a place in the run's list  *)
(* of sources with the source there: the name of the captured file.        *)
(***************************************************************************)
EXTENDS Sequences, Integers

CONSTANTS
    Sources,     \* the user's files
    Lists,       \* the lists of sources a run may be given
    Contents,    \* what a file holds
    Absent,      \* no file
    Torn,        \* a file whose writer died in the middle
    MaxRuns,     \* runs of the command
    MaxMoves     \* changes and damage by others

Slots == UNION {{<<i, l[i]>> : i \in 1..Len(l)} : l \in Lists}
Held == Contents \cup {Absent, Torn}

ASSUME CaptureAssumption ==
    /\ Lists \subseteq Seq(Sources) /\ <<>> \notin Lists
    /\ Absent \notin Contents /\ Torn \notin Contents /\ Absent # Torn
    /\ MaxRuns \in Nat /\ MaxMoves \in Nat

VARIABLES
    source,      \* the user's files
    captured,    \* the copies
    sidecar,     \* the digest beside each copy
    manifest,    \* [state, list, digests]
    pc, list, at, digests,  \* the run under way: its list, its place in it
    said,        \* how the last run ended
    unsteady,    \* ghost: sources that changed since the run began
    blurred,     \* ghost: those that did while the manifest's run was going
    damaged,     \* ghost: slots whose files others touched
    recent,      \* ghost: those of them since the run began
    runs, moves

vars == <<source, captured, sidecar, manifest, pc, list, at, digests, said,
          unsteady, blurred, damaged, recent, runs, moves>>
files == <<captured, sidecar, manifest>>
ghosts == <<unsteady, blurred, damaged, recent, runs, moves>>

NoManifest == [state |-> "none", list |-> <<>>, digests |-> <<>>]
TornManifest == [NoManifest EXCEPT !.state = "torn"]

TypeOK ==
    /\ source \in [Sources -> Contents \cup {Absent}]
    /\ captured \in [Slots -> Held] /\ sidecar \in [Slots -> Held]
    /\ manifest \in [state : {"none", "torn", "whole"}, list : Lists \cup {<<>>},
                     digests : Seq(Contents)]
    /\ pc \in {"idle", "digest", "compare", "check", "copy", "sidecar", "manifest"}
    /\ list \in Lists \cup {<<>>} /\ at \in Nat /\ digests \in Seq(Contents)
    /\ said \in {"none", "running", "ok", "error", "killed"}
    /\ unsteady \subseteq Sources /\ blurred \subseteq Sources /\ damaged \subseteq Slots
    /\ recent \subseteq damaged
    /\ runs \in 0..MaxRuns /\ moves \in 0..MaxMoves

Init ==
    /\ source \in [Sources -> Contents]
    /\ captured = [slot \in Slots |-> Absent] /\ sidecar = captured
    /\ manifest = NoManifest
    /\ pc = "idle" /\ list = <<>> /\ at = 1 /\ digests = <<>> /\ said = "none"
    /\ unsteady = {} /\ blurred = {} /\ damaged = {} /\ recent = {}
    /\ runs = 0 /\ moves = 0

Slot == <<at, list[at]>>
Read == source[list[at]]
Over(how) == pc' = "idle" /\ said' = how /\ UNCHANGED at

\* On to the next source of the list, or past its end to a place.
Advance(here, after) ==
    /\ at' = IF at < Len(list) THEN at + 1 ELSE 1
    /\ pc' = IF at < Len(list) THEN here ELSE after
    /\ UNCHANGED said

-----------------------------------------------------------------------------
Begin(l) ==
    /\ pc = "idle" /\ runs < MaxRuns
    /\ runs' = runs + 1
    /\ pc' = "digest" /\ list' = l /\ at' = 1 /\ digests' = <<>> /\ said' = "running"
    /\ unsteady' = {} /\ recent' = {}
    /\ UNCHANGED <<source, files, blurred, damaged, moves>>

\* build_capture_manifest: the digest of each source, which must be there.
Digest ==
    /\ pc = "digest"
    /\ IF Read = Absent
       THEN Over("error") /\ UNCHANGED digests
       ELSE Advance("digest", "compare") /\ digests' = Append(digests, Read)
    /\ UNCHANGED <<source, files, list, ghosts>>

\* ensure_existing_manifest_matches: a manifest that is there must be readable
\* and say the same of the same sources; its files are then checked.
Same == manifest.list = list /\ manifest.digests = digests

\* Mutant: files without a manifest are taken for another capture.
CompareToFiles ==
    /\ pc = "compare"
    /\ IF manifest.state = "whole" /\ Same
       THEN at' = 1 /\ pc' = "check" /\ UNCHANGED said
       ELSE IF \A slot \in Slots : captured[slot] = Absent
            THEN at' = 1 /\ pc' = "copy" /\ UNCHANGED said
            ELSE Over("error")
    /\ UNCHANGED <<source, files, list, digests, ghosts>>

Compare ==
    /\ pc = "compare"
    /\ \/ /\ manifest.state = "none"
          /\ at' = 1 /\ pc' = "copy" /\ UNCHANGED said
       \/ /\ manifest.state = "whole" /\ Same
          /\ at' = 1 /\ pc' = "check" /\ UNCHANGED said
       \/ /\ manifest.state = "torn" \/ (manifest.state = "whole" /\ ~Same)
          /\ Over("error")
    /\ UNCHANGED <<source, files, list, digests, ghosts>>

\* verify_capture_files: the copy and the digest beside it are the manifest's.
Intact == captured[Slot] = manifest.digests[at] /\ sidecar[Slot] = manifest.digests[at]

CheckFile ==
    /\ pc = "check"
    /\ IF ~Intact THEN Over("error")
       ELSE IF at < Len(list) THEN Advance("check", "idle")
       ELSE Over("ok")
    /\ UNCHANGED <<source, files, list, digests, ghosts>>

\* Mutant: a copy that is there already is kept.
CopyOnce ==
    /\ pc = "copy"
    /\ IF Read = Absent
       THEN Over("error") /\ UNCHANGED captured
       ELSE /\ captured' = IF captured[Slot] = Absent
                           THEN [captured EXCEPT ![Slot] = Read] ELSE captured
            /\ pc' = "sidecar" /\ UNCHANGED <<at, said>>
    /\ UNCHANGED <<source, sidecar, manifest, list, digests, ghosts>>

\* The copy, then the digest beside it, each from a source that must be there.
Copy ==
    /\ pc = "copy"
    /\ IF Read = Absent
       THEN Over("error") /\ UNCHANGED captured
       ELSE /\ captured' = [captured EXCEPT ![Slot] = Read]
            /\ pc' = "sidecar" /\ UNCHANGED <<at, said>>
    /\ UNCHANGED <<source, sidecar, manifest, list, digests, ghosts>>

Sidecar ==
    /\ pc = "sidecar"
    /\ IF Read = Absent
       THEN Over("error") /\ UNCHANGED sidecar
       ELSE /\ sidecar' = [sidecar EXCEPT ![Slot] = Read]
            /\ Advance("copy", "manifest")
    /\ UNCHANGED <<source, captured, manifest, list, digests, ghosts>>

WriteManifest ==
    /\ pc = "manifest"
    /\ manifest' = [state |-> "whole", list |-> list, digests |-> digests]
    /\ blurred' = unsteady
    /\ Over("ok")
    /\ UNCHANGED <<source, captured, sidecar, list, digests, unsteady, damaged, recent, runs, moves>>

\* The run dies, in the middle of a write or not.
Kill ==
    /\ pc # "idle"
    /\ \/ UNCHANGED files
       \/ /\ pc = "copy" /\ captured' = [captured EXCEPT ![Slot] = Torn]
          /\ UNCHANGED <<sidecar, manifest>>
       \/ /\ pc = "sidecar" /\ sidecar' = [sidecar EXCEPT ![Slot] = Torn]
          /\ UNCHANGED <<captured, manifest>>
       \/ /\ pc = "manifest" /\ manifest' = TornManifest
          /\ UNCHANGED <<captured, sidecar>>
    /\ Over("killed")
    /\ UNCHANGED <<source, list, digests, ghosts>>

Change(s, content) ==
    /\ moves < MaxMoves /\ moves' = moves + 1
    /\ source[s] # content
    /\ source' = [source EXCEPT ![s] = content]
    /\ unsteady' = unsteady \cup {s}
    /\ UNCHANGED <<files, pc, list, at, digests, said, blurred, damaged, recent, runs>>

Damage(slot) ==
    /\ moves < MaxMoves /\ moves' = moves + 1
    /\ \/ captured' = [captured EXCEPT ![slot] = Absent] /\ UNCHANGED sidecar
       \/ sidecar' = [sidecar EXCEPT ![slot] = Absent] /\ UNCHANGED captured
    /\ damaged' = damaged \cup {slot} /\ recent' = recent \cup {slot}
    /\ UNCHANGED <<source, manifest, pc, list, at, digests, said, unsteady, blurred, runs>>

Run == \/ \E l \in Lists : Begin(l)
       \/ Digest \/ Compare \/ CheckFile \/ Copy \/ Sidecar \/ WriteManifest
       \/ Kill

Next == \/ Run
        \/ \E s \in Sources, content \in Contents \cup {Absent} : Change(s, content)
        \/ \E slot \in Slots : Damage(slot)

Spec == Init /\ [][Next]_vars

-----------------------------------------------------------------------------
AgreesAt(i, digest) == LET slot == <<i, manifest.list[i]>> IN
    captured[slot] = digest /\ sidecar[slot] = digest

\* A manifest's copies and the digests beside them are those it lists, whatever
\* earlier runs left behind, but for a source that changed while it was captured
\* and for files others touched.
ManifestIsEvidence ==
    manifest.state = "whole" =>
        \A i \in 1..Len(manifest.list) :
            \/ manifest.list[i] \in blurred
            \/ <<i, manifest.list[i]>> \in damaged
            \/ AgreesAt(i, manifest.digests[i])

\* A run that succeeds leaves a manifest of its own sources, whose copies and
\* digests are the sources, even where an earlier run wrote them or others had
\* touched them, but for what changed since the run began.
SuccessIsEvidence ==
    said = "ok" =>
        /\ manifest.state = "whole" /\ manifest.list = list
        /\ \A i \in 1..Len(list) :
             \/ list[i] \in unsteady
             \/ <<i, list[i]>> \in recent
             \/ AgreesAt(i, source[list[i]])

\* A run that fails has a cause the user can see: a source that is gone or
\* changed, files others touched, a manifest of other sources or other contents,
\* or one that a run left torn.  What an earlier run left short of a manifest is
\* no cause.
ErrorsHaveCause ==
    said = "error" =>
        \/ \E i \in 1..Len(list) : source[list[i]] = Absent \/ list[i] \in unsteady \cup blurred
        \/ damaged # {}
        \/ manifest.state = "torn"
        \/ manifest.state = "whole" /\ ~Same

\* No run changes a manifest that is whole: evidence is captured once.
ManifestOnce == [][manifest.state = "whole" => manifest' = manifest]_vars

\* What captures leave is evidence: every manifest that stands, and every success
\* that is reported.
CapturesAreEvidence == ManifestIsEvidence /\ SuccessIsEvidence
=============================================================================

--------------------------- MODULE CaptureProofs ---------------------------
(***************************************************************************)
(* Theorems about Capture, for any sources, lists and contents, any number *)
(* of runs and of changes by others: type correctness, that a whole        *)
(* manifest is never rewritten, that what captures leave and report is     *)
(* evidence of the sources, and that a failure has a cause.                *)
(***************************************************************************)
EXTENDS Capture, TLAPS

\* A run under way is at a place of its list.
PlaceInv == pc # "idle" => list \in Lists /\ at \in 1..Len(list)

\* Every place of a list is a slot.
LEMMA SlotFacts ==
    ASSUME NEW l \in Lists, NEW i \in 1..Len(l)
    PROVE  l \in Seq(Sources) /\ l[i] \in Sources /\ <<i, l[i]>> \in Slots
BY CaptureAssumption DEF Slots

\* A run has at least one source.
LEMMA ListsNotEmpty == \A l \in Lists : l \in Seq(Sources) /\ Len(l) \in Nat /\ 1 \in 1..Len(l)
<1> SUFFICES ASSUME NEW l \in Lists
             PROVE  l \in Seq(Sources) /\ Len(l) \in Nat /\ 1 \in 1..Len(l)
  OBVIOUS
<1>1. l \in Seq(Sources) /\ l # <<>>
  BY CaptureAssumption
<1> QED  BY <1>1

\* Every step keeps the types, and a run under way in its list.
LEMMA TypingStep == TypeOK /\ PlaceInv /\ [Next]_vars => TypeOK' /\ PlaceInv'
<1> SUFFICES ASSUME TypeOK, PlaceInv, [Next]_vars
             PROVE  TypeOK' /\ PlaceInv'
  OBVIOUS
<1> USE DEF TypeOK, PlaceInv, Held, files, ghosts
<1>1. ASSUME NEW l \in Lists, Begin(l)
      PROVE  TypeOK' /\ PlaceInv'
  BY <1>1, ListsNotEmpty, CaptureAssumption DEF Begin
<1>2. CASE Digest
  <2>1. pc = "digest" /\ list \in Lists /\ at \in 1..Len(list) /\ Len(list) \in Nat
    BY <1>2, ListsNotEmpty DEF Digest
  <2>2. Read \in Contents \cup {Absent}
    BY <2>1, SlotFacts DEF Read
  <2>3. CASE Read = Absent
    BY <1>2, <2>1, <2>3 DEF Digest, Over
  <2>4. CASE Read # Absent
    <3>1. digests' \in Seq(Contents)
      BY <1>2, <2>2, <2>4 DEF Digest
    <3> QED  BY <1>2, <2>1, <2>4, <3>1, ListsNotEmpty DEF Digest, Advance
  <2> QED  BY <2>3, <2>4
<1>3. CASE Compare
  BY <1>3, ListsNotEmpty DEF Compare, Over
<1>4. CASE CheckFile
  BY <1>4, ListsNotEmpty DEF CheckFile, Over, Advance
<1>5. CASE Copy
  <2>1. pc = "copy" /\ list \in Lists /\ at \in 1..Len(list)
    BY <1>5 DEF Copy
  <2>2. Read \in Contents \cup {Absent}
    BY <2>1, SlotFacts DEF Read
  <2>3. captured' \in [Slots -> Held]
    BY <1>5, <2>2 DEF Copy
  <2> QED  BY <1>5, <2>1, <2>3 DEF Copy, Over
<1>6. CASE Sidecar
  <2>1. pc = "sidecar" /\ list \in Lists /\ at \in 1..Len(list) /\ Len(list) \in Nat
    BY <1>6, ListsNotEmpty DEF Sidecar
  <2>2. Read \in Contents \cup {Absent}
    BY <2>1, SlotFacts DEF Read
  <2>3. sidecar' \in [Slots -> Held]
    BY <1>6, <2>2 DEF Sidecar
  <2> QED  BY <1>6, <2>1, <2>3, ListsNotEmpty DEF Sidecar, Over, Advance
<1>7. CASE WriteManifest
  <2>1. manifest' \in [state : {"none", "torn", "whole"}, list : Lists \cup {<<>>},
                       digests : Seq(Contents)]
    BY <1>7 DEF WriteManifest
  <2> QED  BY <1>7, <2>1 DEF WriteManifest, Over
<1>8. CASE Kill
  <2>1. TornManifest \in [state : {"none", "torn", "whole"}, list : Lists \cup {<<>>},
                          digests : Seq(Contents)]
    <3>1. TornManifest = [state |-> "torn", list |-> <<>>, digests |-> <<>>]
      BY DEF TornManifest, NoManifest
    <3>2. <<>> \in Seq(Contents)
      OBVIOUS
    <3> QED  BY <3>1, <3>2
  <2>2. captured' \in [Slots -> Held] /\ sidecar' \in [Slots -> Held]
    BY <1>8 DEF Kill
  <2>3. manifest' \in {manifest, TornManifest}
    BY <1>8 DEF Kill
  <2> QED  BY <1>8, <2>1, <2>2, <2>3 DEF Kill, Over
<1>9. ASSUME NEW s \in Sources, NEW content \in Contents \cup {Absent}, Change(s, content)
      PROVE  TypeOK' /\ PlaceInv'
  BY <1>9, CaptureAssumption DEF Change
<1>10. ASSUME NEW slot \in Slots, Damage(slot)
       PROVE  TypeOK' /\ PlaceInv'
  BY <1>10, CaptureAssumption DEF Damage
<1>11. CASE UNCHANGED vars
  BY <1>11 DEF vars
<1> QED  BY <1>1, <1>2, <1>3, <1>4, <1>5, <1>6, <1>7, <1>8, <1>9, <1>10, <1>11 DEF Next, Run

\* The types hold before the first run.
LEMMA TypingBegins == Init => TypeOK /\ PlaceInv
<1> SUFFICES ASSUME Init
             PROVE  TypeOK /\ PlaceInv
  OBVIOUS
<1>1. <<>> \in Seq(Contents)
  OBVIOUS
<1>2. NoManifest \in [state : {"none", "torn", "whole"}, list : Lists \cup {<<>>},
                      digests : Seq(Contents)]
  BY <1>1 DEF NoManifest
<1>3. [slot \in Slots |-> Absent] \in [Slots -> Held]
  BY DEF Held
<1> QED  BY <1>1, <1>2, <1>3, CaptureAssumption DEF Init, TypeOK, PlaceInv

\* Every step of a run, and of those around it, keeps the types.
THEOREM Typing == Spec => []TypeOK
BY TypingBegins, TypingStep, PTL DEF Spec

-----------------------------------------------------------------------------
\* The copy of a place and the digest beside it are its source.
Copied(i) ==
    \/ list[i] \in unsteady
    \/ <<i, list[i]>> \in recent
    \/ captured[<<i, list[i]>>] = source[list[i]] /\ sidecar[<<i, list[i]>>] = source[list[i]]

\* What a run knows at each of its places, of the sources that have not changed
\* since it began and the files nobody else touched.
RunInv ==
    /\ pc # "idle" => said = "running"
    /\ pc = "digest" => Len(digests) = at - 1
    /\ pc \in {"compare", "check", "copy", "sidecar", "manifest"} => Len(digests) = Len(list)
    /\ pc # "idle" => \A i \in 1..Len(digests) :
                          list[i] \in unsteady \/ digests[i] = source[list[i]]
    /\ pc \in {"copy", "sidecar", "manifest"} => manifest.state = "none"
    /\ pc = "check" => manifest.state = "whole" /\ Same
    /\ pc = "check" => \A i \in 1..(at - 1) :
                          <<i, list[i]>> \in recent \/ AgreesAt(i, digests[i])
    /\ pc \in {"copy", "sidecar"} => \A i \in 1..(at - 1) : Copied(i)
    /\ pc = "sidecar" => \/ list[at] \in unsteady \/ Slot \in recent
                         \/ captured[Slot] = source[list[at]]
    /\ pc = "manifest" => \A i \in 1..Len(list) : Copied(i)
    /\ manifest.state = "whole" =>
          manifest.list \in Lists /\ Len(manifest.digests) = Len(manifest.list)

EvidenceInv == RunInv /\ ManifestIsEvidence /\ SuccessIsEvidence

\* Every step of a run, of its death and of others keeps what the run knows.
LEMMA EvidenceStep == TypeOK /\ PlaceInv /\ EvidenceInv /\ [Next]_vars => EvidenceInv'
<1> SUFFICES ASSUME TypeOK, PlaceInv, EvidenceInv, [Next]_vars
             PROVE  EvidenceInv'
  OBVIOUS
<1> USE DEF EvidenceInv
<1>0. ASSUME UNCHANGED <<captured, sidecar, manifest, blurred, damaged>>
      PROVE  ManifestIsEvidence'
  BY <1>0 DEF ManifestIsEvidence, AgreesAt
<1>1. ASSUME NEW l \in Lists, Begin(l)
      PROVE  EvidenceInv'
  <2>1. RunInv'
    BY <1>1, ListsNotEmpty DEF Begin, RunInv, files
  <2> QED  BY <1>0, <1>1, <2>1 DEF Begin, files, SuccessIsEvidence
<1>2. CASE Digest
  <2>1. /\ pc = "digest" /\ list \in Lists /\ at \in 1..Len(list) /\ Len(list) \in Nat
        /\ digests \in Seq(Contents) /\ Len(digests) = at - 1
        /\ UNCHANGED <<source, files, list, ghosts>>
    BY <1>2, ListsNotEmpty DEF Digest, PlaceInv, TypeOK, RunInv
  <2>2. CASE Read = Absent
    <3>1. pc' = "idle" /\ said' = "error"
      BY <1>2, <2>2 DEF Digest, Over
    <3> QED  BY <1>0, <2>1, <3>1 DEF RunInv, SuccessIsEvidence, files, ghosts
  <2>3. CASE Read # Absent
    <3>1. /\ digests' = Append(digests, Read) /\ said' = said
          /\ at' = IF at < Len(list) THEN at + 1 ELSE 1
          /\ pc' = IF at < Len(list) THEN "digest" ELSE "compare"
      BY <1>2, <2>3 DEF Digest, Advance
    <3>2. Len(digests') = at
      BY <2>1, <3>1
    <3>3. \A i \in 1..at : digests'[i] = IF i = at THEN Read ELSE digests[i]
      BY <2>1, <3>1
    <3>4. \A i \in 1..at : list[i] \in unsteady \/ digests'[i] = source[list[i]]
      BY <2>1, <3>3 DEF RunInv, Read
    <3>5. said = "running"
      BY <2>1 DEF RunInv
    <3>6. RunInv'
      BY <2>1, <3>1, <3>2, <3>4, <3>5 DEF RunInv, files, ghosts
    <3> QED  BY <1>0, <2>1, <3>1, <3>5, <3>6 DEF SuccessIsEvidence, files, ghosts
  <2> QED  BY <2>2, <2>3
<1>3. CASE Compare
  <2>1. /\ pc = "compare" /\ list \in Lists /\ at \in 1..Len(list)
        /\ UNCHANGED <<source, files, list, digests, ghosts>>
    BY <1>3 DEF Compare, PlaceInv
  <2>2. \/ pc' = "copy" /\ manifest.state = "none" /\ at' = 1 /\ said' = said
        \/ pc' = "check" /\ manifest.state = "whole" /\ Same /\ at' = 1 /\ said' = said
        \/ pc' = "idle" /\ said' = "error"
    BY <1>3 DEF Compare, Over
  <2>3. said = "running"
    BY <2>1 DEF RunInv
  <2>4. RunInv'
    BY <2>1, <2>2, <2>3 DEF RunInv, files, ghosts, Same
  <2> QED  BY <1>0, <2>1, <2>2, <2>3, <2>4 DEF SuccessIsEvidence, files, ghosts
<1>4. CASE CheckFile
  <2>1. /\ pc = "check" /\ list \in Lists /\ at \in 1..Len(list) /\ Len(list) \in Nat
        /\ said = "running" /\ manifest.state = "whole"
        /\ manifest.list = list /\ manifest.digests = digests /\ Len(digests) = Len(list)
        /\ UNCHANGED <<source, files, list, digests, ghosts>>
    BY <1>4, ListsNotEmpty DEF CheckFile, PlaceInv, RunInv, Same
  <2>2. CASE ~Intact
    BY <1>0, <1>4, <2>1, <2>2 DEF CheckFile, Over, RunInv, SuccessIsEvidence, files, ghosts
  <2>3. CASE Intact
    <3>1. \A i \in 1..at : <<i, list[i]>> \in recent \/ AgreesAt(i, digests[i])
      <4>1. AgreesAt(at, digests[at])
        BY <2>1, <2>3 DEF Intact, AgreesAt, Slot
      <4>2. \A i \in 1..(at - 1) : <<i, list[i]>> \in recent \/ AgreesAt(i, digests[i])
        BY <2>1 DEF RunInv
      <4> QED  BY <2>1, <4>1, <4>2
    <3>2. CASE at < Len(list)
      <4>1. pc' = "check" /\ at' = at + 1 /\ said' = said
        BY <1>4, <2>3, <3>2 DEF CheckFile, Advance
      <4>2. RunInv'
        BY <2>1, <3>1, <4>1 DEF RunInv, AgreesAt, Same, files, ghosts
      <4> QED  BY <1>0, <2>1, <4>1, <4>2 DEF SuccessIsEvidence, files, ghosts
    <3>3. CASE ~(at < Len(list))
      <4>1. pc' = "idle" /\ said' = "ok" /\ at = Len(list)
        BY <1>4, <2>1, <2>3, <3>3 DEF CheckFile, Over
      <4>2. \A i \in 1..Len(list) : list[i] \in unsteady \/ digests[i] = source[list[i]]
        BY <2>1 DEF RunInv
      <4>3. \A i \in 1..Len(list) : \/ list[i] \in unsteady \/ <<i, list[i]>> \in recent
                                    \/ AgreesAt(i, source[list[i]])
        BY <3>1, <4>1, <4>2
      <4>4. SuccessIsEvidence'
        BY <2>1, <4>3 DEF SuccessIsEvidence, AgreesAt, files, ghosts
      <4>5. RunInv'
        BY <2>1, <4>1 DEF RunInv, files, ghosts
      <4> QED  BY <1>0, <2>1, <4>4, <4>5 DEF files, ghosts
    <3> QED  BY <3>2, <3>3
  <2> QED  BY <2>2, <2>3
<1>5. CASE Copy
  <2>1. /\ pc = "copy" /\ list \in Lists /\ at \in 1..Len(list) /\ Len(list) \in Nat
        /\ said = "running" /\ manifest.state = "none" /\ Len(digests) = Len(list)
        /\ UNCHANGED <<source, sidecar, manifest, list, digests, ghosts>>
    BY <1>5, ListsNotEmpty DEF Copy, PlaceInv, RunInv
  <2>2. ManifestIsEvidence'
    BY <2>1 DEF ManifestIsEvidence
  <2>3. CASE Read = Absent
    <3>1. pc' = "idle" /\ said' = "error"
      BY <1>5, <2>3 DEF Copy, Over
    <3> QED  BY <2>1, <2>2, <3>1 DEF RunInv, SuccessIsEvidence, ghosts
  <2>4. CASE Read # Absent
    <3>1. /\ captured' = [captured EXCEPT ![Slot] = Read]
          /\ pc' = "sidecar" /\ at' = at /\ said' = said
      BY <1>5, <2>4 DEF Copy
    <3>2. captured'[Slot] = source[list[at]]
      BY <2>1, <3>1, SlotFacts DEF Slot, Read, TypeOK
    <3>3. \A i \in 1..(at - 1) : captured'[<<i, list[i]>>] = captured[<<i, list[i]>>]
      <4> SUFFICES ASSUME NEW i \in 1..(at - 1)
                   PROVE  captured'[<<i, list[i]>>] = captured[<<i, list[i]>>]
        OBVIOUS
      <4>1. <<i, list[i]>> \in Slots /\ i # at
        BY <2>1, SlotFacts
      <4> QED  BY <3>1, <4>1 DEF Slot, TypeOK
    <3>4. \A i \in 1..(at - 1) : Copied(i)'
      BY <2>1, <3>1, <3>3 DEF RunInv, Copied, ghosts
    <3>5. RunInv'
      BY <2>1, <3>1, <3>2, <3>4 DEF RunInv, Slot, ghosts
    <3> QED  BY <2>1, <2>2, <3>1, <3>5 DEF SuccessIsEvidence
  <2> QED  BY <2>3, <2>4
<1>6. CASE Sidecar
  <2>1. /\ pc = "sidecar" /\ list \in Lists /\ at \in 1..Len(list) /\ Len(list) \in Nat
        /\ said = "running" /\ manifest.state = "none" /\ Len(digests) = Len(list)
        /\ UNCHANGED <<source, captured, manifest, list, digests, ghosts>>
    BY <1>6, ListsNotEmpty DEF Sidecar, PlaceInv, RunInv
  <2>2. ManifestIsEvidence'
    BY <2>1 DEF ManifestIsEvidence
  <2>3. CASE Read = Absent
    <3>1. pc' = "idle" /\ said' = "error"
      BY <1>6, <2>3 DEF Sidecar, Over
    <3> QED  BY <2>1, <2>2, <3>1 DEF RunInv, SuccessIsEvidence, ghosts
  <2>4. CASE Read # Absent
    <3>1. /\ sidecar' = [sidecar EXCEPT ![Slot] = Read] /\ said' = said
          /\ at' = IF at < Len(list) THEN at + 1 ELSE 1
          /\ pc' = IF at < Len(list) THEN "copy" ELSE "manifest"
      BY <1>6, <2>4 DEF Sidecar, Advance
    <3>2. sidecar'[Slot] = source[list[at]]
      BY <2>1, <3>1, SlotFacts DEF Slot, Read, TypeOK
    <3>3. \A i \in 1..(at - 1) : sidecar'[<<i, list[i]>>] = sidecar[<<i, list[i]>>]
      <4> SUFFICES ASSUME NEW i \in 1..(at - 1)
                   PROVE  sidecar'[<<i, list[i]>>] = sidecar[<<i, list[i]>>]
        OBVIOUS
      <4>1. <<i, list[i]>> \in Slots /\ i # at
        BY <2>1, SlotFacts
      <4> QED  BY <3>1, <4>1 DEF Slot, TypeOK
    <3>4. \A i \in 1..(at - 1) : Copied(i)'
      BY <2>1, <3>1, <3>3 DEF RunInv, Copied, ghosts
    <3>5. Copied(at)!1 \/ Copied(at)!2 \/ captured[Slot] = source[list[at]]
      BY <2>1 DEF RunInv, Slot
    <3>6. \A i \in 1..at :
             \/ list[i] \in unsteady
             \/ <<i, list[i]>> \in recent
             \/ /\ captured[<<i, list[i]>>] = source[list[i]]
                /\ sidecar'[<<i, list[i]>>] = source[list[i]]
      BY <2>1, <3>2, <3>4, <3>5 DEF Copied, Slot, ghosts
    <3>7. RunInv'
      <4>1. CASE at < Len(list)
        <5>1. pc' = "copy" /\ at' = at + 1
          BY <3>1, <4>1
        <5> QED  BY <2>1, <3>1, <3>6, <5>1 DEF RunInv, Copied, ghosts
      <4>2. CASE ~(at < Len(list))
        <5>1. pc' = "manifest" /\ at = Len(list)
          BY <2>1, <3>1, <4>2
        <5> QED  BY <2>1, <3>1, <3>6, <5>1 DEF RunInv, Copied, ghosts
      <4> QED  BY <4>1, <4>2
    <3> QED  BY <2>1, <2>2, <3>1, <3>7 DEF SuccessIsEvidence
  <2> QED  BY <2>3, <2>4
<1>7. CASE WriteManifest
  <2>1. /\ pc = "manifest" /\ list \in Lists /\ Len(list) \in Nat /\ Len(digests) = Len(list)
        /\ manifest' = [state |-> "whole", list |-> list, digests |-> digests]
        /\ blurred' = unsteady /\ pc' = "idle" /\ said' = "ok"
        /\ UNCHANGED <<source, captured, sidecar, list, digests, unsteady, damaged, recent>>
    BY <1>7, ListsNotEmpty DEF WriteManifest, Over, PlaceInv, RunInv
  <2>2. /\ manifest'.state = "whole" /\ manifest'.list = list /\ manifest'.digests = digests
    BY <2>1
  <2>3. \A i \in 1..Len(list) : list[i] \in unsteady \/ digests[i] = source[list[i]]
    BY <2>1 DEF RunInv
  <2>4. \A i \in 1..Len(list) : Copied(i)
    BY <2>1 DEF RunInv
  <2>5. recent \subseteq damaged
    BY DEF TypeOK
  <2>6. ManifestIsEvidence'
    BY <2>1, <2>2, <2>3, <2>4, <2>5 DEF ManifestIsEvidence, AgreesAt, Copied
  <2>7. SuccessIsEvidence'
    BY <2>1, <2>2, <2>4 DEF SuccessIsEvidence, AgreesAt, Copied
  <2>8. RunInv'
    BY <2>1, <2>2 DEF RunInv
  <2> QED  BY <2>6, <2>7, <2>8
<1>8. CASE Kill
  <2>1. /\ pc # "idle" /\ pc' = "idle" /\ said' = "killed"
        /\ UNCHANGED <<source, list, digests, ghosts>>
    BY <1>8 DEF Kill, Over
  <2>2. \/ UNCHANGED <<captured, sidecar, manifest>>
        \/ manifest' = manifest /\ manifest.state = "none"
        \/ manifest' = TornManifest
    BY <1>8 DEF Kill, RunInv, files
  <2>3. TornManifest.state = "torn"
    BY DEF TornManifest, NoManifest
  <2>4. ManifestIsEvidence'
    BY <2>1, <2>2, <2>3 DEF ManifestIsEvidence, AgreesAt, ghosts
  <2>5. RunInv'
    BY <2>1, <2>2, <2>3 DEF RunInv
  <2> QED  BY <2>1, <2>4, <2>5 DEF SuccessIsEvidence
<1>9. ASSUME NEW s \in Sources, NEW content \in Contents \cup {Absent}, Change(s, content)
      PROVE  EvidenceInv'
  <2>1. /\ unsteady' = unsteady \cup {s}
        /\ \A r \in Sources \ {s} : source'[r] = source[r]
        /\ UNCHANGED <<captured, sidecar, manifest, pc, list, at, digests, said, blurred,
                       damaged, recent>>
    BY <1>9 DEF Change, TypeOK, files
  <2>2. ASSUME NEW i \in 1..Len(list), list[i] \notin unsteady', list \in Lists
        PROVE  list[i] \notin unsteady /\ source'[list[i]] = source[list[i]]
    BY <2>1, <2>2, SlotFacts
  <2>3. pc # "idle" => list \in Lists /\ Len(digests) \in Nat /\ Len(list) \in Nat
                       /\ 1..Len(digests) \subseteq 1..Len(list)
                       /\ 1..(at - 1) \subseteq 1..Len(list) /\ at \in 1..Len(list)
    BY ListsNotEmpty DEF PlaceInv, RunInv, TypeOK
  <2>4. \A i \in 1..Len(list) : list \in Lists /\ Copied(i) => Copied(i)'
    BY <2>1, <2>2 DEF Copied
  <2>5. RunInv'
    <3>1. pc # "idle" => \A i \in 1..Len(digests) :
                            list[i] \in unsteady' \/ digests[i] = source'[list[i]]
      BY <2>1, <2>2, <2>3 DEF RunInv
    <3>2. pc \in {"copy", "sidecar"} => \A i \in 1..(at - 1) : Copied(i)'
      BY <2>3, <2>4 DEF RunInv
    <3>3. pc = "manifest" => \A i \in 1..Len(list) : Copied(i)'
      BY <2>3, <2>4 DEF RunInv
    <3>4. pc = "sidecar" => \/ list[at] \in unsteady' \/ Slot \in recent
                            \/ captured[Slot] = source'[list[at]]
      BY <2>1, <2>2, <2>3 DEF RunInv
    <3> QED  BY <2>1, <3>1, <3>2, <3>3, <3>4 DEF RunInv, Same, Slot, AgreesAt
  <2>6. SuccessIsEvidence'
    <3> SUFFICES ASSUME said = "ok"
                 PROVE  SuccessIsEvidence'
      BY <2>1 DEF SuccessIsEvidence
    <3>1. manifest.state = "whole" /\ manifest.list = list /\ list \in Lists
      BY DEF SuccessIsEvidence, RunInv
    <3> QED  BY <2>1, <2>2, <3>1 DEF SuccessIsEvidence, AgreesAt
  <2> QED  BY <1>0, <2>1, <2>5, <2>6
<1>10. ASSUME NEW slot \in Slots, Damage(slot)
       PROVE  EvidenceInv'
  <2>1. /\ damaged' = damaged \cup {slot} /\ recent' = recent \cup {slot}
        /\ \A t \in Slots \ {slot} : captured'[t] = captured[t] /\ sidecar'[t] = sidecar[t]
        /\ UNCHANGED <<source, manifest, pc, list, at, digests, said, unsteady, blurred>>
    BY <1>10 DEF Damage, TypeOK
  <2>2. \A l \in Lists : \A i \in 1..Len(l) : <<i, l[i]>> \notin recent' =>
           /\ <<i, l[i]>> \notin recent
           /\ captured'[<<i, l[i]>>] = captured[<<i, l[i]>>]
           /\ sidecar'[<<i, l[i]>>] = sidecar[<<i, l[i]>>]
    BY <2>1, SlotFacts
  <2>3. \A l \in Lists : \A i \in 1..Len(l) : <<i, l[i]>> \notin damaged' =>
           /\ <<i, l[i]>> \notin damaged
           /\ captured'[<<i, l[i]>>] = captured[<<i, l[i]>>]
           /\ sidecar'[<<i, l[i]>>] = sidecar[<<i, l[i]>>]
    BY <2>1, SlotFacts
  <2>4. pc # "idle" => list \in Lists /\ Len(list) \in Nat
                       /\ 1..(at - 1) \subseteq 1..Len(list) /\ at \in 1..Len(list)
    BY ListsNotEmpty DEF PlaceInv, TypeOK
  <2>5. \A i \in 1..Len(list) : list \in Lists /\ Copied(i) => Copied(i)'
    BY <2>1, <2>2 DEF Copied
  <2>6. RunInv'
    <3>1. pc \in {"copy", "sidecar"} => \A i \in 1..(at - 1) : Copied(i)'
      BY <2>4, <2>5 DEF RunInv
    <3>2. pc = "manifest" => \A i \in 1..Len(list) : Copied(i)'
      BY <2>4, <2>5 DEF RunInv
    <3>3. pc = "sidecar" => \/ list[at] \in unsteady \/ Slot \in recent'
                            \/ captured'[Slot] = source[list[at]]
      BY <2>2, <2>4 DEF RunInv, Slot
    <3>4. pc = "check" => \A i \in 1..(at - 1) :
                             <<i, list[i]>> \in recent' \/ AgreesAt(i, digests[i])'
      <4> SUFFICES ASSUME pc = "check", NEW i \in 1..(at - 1),
                          <<i, list[i]>> \notin recent'
                   PROVE  AgreesAt(i, digests[i])'
        OBVIOUS
      <4>1. list \in Lists /\ i \in 1..Len(list)
        BY <2>4
      <4>2. /\ <<i, list[i]>> \notin recent
            /\ captured'[<<i, list[i]>>] = captured[<<i, list[i]>>]
            /\ sidecar'[<<i, list[i]>>] = sidecar[<<i, list[i]>>]
        BY <2>2, <4>1
      <4>3. AgreesAt(i, digests[i]) /\ manifest.list = list
        BY <4>2 DEF RunInv, Same
      <4>4. UNCHANGED <<manifest, digests>>
        BY <2>1
      <4> QED  BY <4>2, <4>3, <4>4 DEF AgreesAt
    <3> QED  BY <2>1, <3>1, <3>2, <3>3, <3>4 DEF RunInv, Same, Slot
  <2>7. SuccessIsEvidence'
    <3> SUFFICES ASSUME said = "ok"
                 PROVE  SuccessIsEvidence'
      BY <2>1 DEF SuccessIsEvidence
    <3>1. manifest.state = "whole" /\ manifest.list = list /\ list \in Lists
      BY DEF SuccessIsEvidence, RunInv
    <3> QED  BY <2>1, <2>2, <3>1 DEF SuccessIsEvidence, AgreesAt
  <2>8. ManifestIsEvidence'
    <3> SUFFICES ASSUME manifest.state = "whole"
                 PROVE  ManifestIsEvidence'
      BY <2>1 DEF ManifestIsEvidence
    <3>1. manifest.list \in Lists
      BY DEF RunInv
    <3> QED  BY <2>1, <2>3, <3>1 DEF ManifestIsEvidence, AgreesAt
  <2> QED  BY <2>6, <2>7, <2>8
<1>11. CASE UNCHANGED vars
  <2>1. SuccessIsEvidence'
    BY <1>11 DEF vars, SuccessIsEvidence, AgreesAt
  <2>2. RunInv'
    BY <1>11 DEF vars, RunInv, Copied, Same, Slot, AgreesAt
  <2> QED  BY <1>0, <1>11, <2>1, <2>2 DEF vars
<1> QED  BY <1>1, <1>2, <1>3, <1>4, <1>5, <1>6, <1>7, <1>8, <1>9, <1>10, <1>11 DEF Next, Run

-----------------------------------------------------------------------------
\* What captures leave is evidence: every whole manifest, and every success that
\* is reported, whatever died, changed or was damaged before (capture-sources,
\* ensure_existing_manifest_matches, verify_capture_files).
THEOREM Evidence == Spec => []CapturesAreEvidence
<1>1. Init => EvidenceInv
  BY DEF Init, EvidenceInv, RunInv, ManifestIsEvidence, SuccessIsEvidence, NoManifest
<1>2. EvidenceInv => CapturesAreEvidence
  BY DEF EvidenceInv, CapturesAreEvidence
<1> QED  BY <1>1, <1>2, TypingBegins, TypingStep, EvidenceStep, PTL DEF Spec

\* No run changes a manifest that is whole (ensure_existing_manifest_matches).
THEOREM Once == Spec => ManifestOnce
<1>1. Init => EvidenceInv
  BY DEF Init, EvidenceInv, RunInv, ManifestIsEvidence, SuccessIsEvidence, NoManifest
<1>2. EvidenceInv /\ [Next]_vars => [manifest.state = "whole" => manifest' = manifest]_vars
  <2> SUFFICES ASSUME EvidenceInv, Next, manifest.state = "whole"
               PROVE  manifest' = manifest
    OBVIOUS
  <2>1. CASE WriteManifest \/ Kill
    BY <2>1 DEF WriteManifest, Kill, EvidenceInv, RunInv, files
  <2>2. CASE Run /\ ~(WriteManifest \/ Kill)
    BY <2>2 DEF Run, Begin, Digest, Compare, CheckFile, Copy, Sidecar, files
  <2>3. CASE \/ \E s \in Sources, content \in Contents \cup {Absent} : Change(s, content)
             \/ \E slot \in Slots : Damage(slot)
    BY <2>3 DEF Change, Damage, files
  <2> QED  BY <2>1, <2>2, <2>3 DEF Next
<1> QED  BY <1>1, <1>2, TypingBegins, TypingStep, EvidenceStep, PTL DEF Spec, ManifestOnce

\* A run that fails has a cause the user can see; what a run that was killed left
\* short of a manifest is none (capture-sources run again).
THEOREM Causes == Spec => []ErrorsHaveCause
<1>1. Init => EvidenceInv /\ ErrorsHaveCause
  BY DEF Init, EvidenceInv, RunInv, ManifestIsEvidence, SuccessIsEvidence, NoManifest,
         ErrorsHaveCause
<1>2. TypeOK /\ PlaceInv /\ EvidenceInv /\ ErrorsHaveCause /\ [Next]_vars => ErrorsHaveCause'
  <2> SUFFICES ASSUME TypeOK, PlaceInv, EvidenceInv, ErrorsHaveCause, [Next]_vars, said' = "error"
               PROVE  ErrorsHaveCause'
    BY DEF ErrorsHaveCause
  \* A run that has not failed yet says so.
  <2>1. pc # "idle" => said = "running" /\ list \in Lists /\ at \in 1..Len(list)
    BY DEF EvidenceInv, RunInv, PlaceInv
  <2>2. CASE said = "error"
    <3>1. pc = "idle"
      BY <2>1, <2>2
    <3>2. CASE UNCHANGED vars
      BY <3>2 DEF vars, ErrorsHaveCause, Same
    <3>3. CASE Run
      BY <3>1, <3>3 DEF Run, Begin, Digest, Compare, CheckFile, Copy, Sidecar, WriteManifest, Kill
    <3>4. ASSUME NEW s \in Sources, NEW content \in Contents \cup {Absent}, Change(s, content)
          PROVE  ErrorsHaveCause'
      <4>1. /\ unsteady' = unsteady \cup {s}
            /\ \A r \in Sources \ {s} : source'[r] = source[r]
            /\ UNCHANGED <<manifest, list, digests, blurred, damaged>>
        BY <3>4 DEF Change, TypeOK, files
      <4>2. \A i \in 1..Len(list) : list[i] \in Sources
        <5>1. CASE list \in Lists
          BY <5>1, SlotFacts
        <5>2. CASE list = <<>>
          BY <5>2
        <5> QED  BY <5>1, <5>2 DEF TypeOK
      <4>3. \A i \in 1..Len(list) : source[list[i]] = Absent \/ list[i] \in unsteady \cup blurred
               => source'[list[i]] = Absent \/ list[i] \in unsteady' \cup blurred'
        BY <4>1, <4>2
      <4> QED  BY <2>2, <4>1, <4>3 DEF ErrorsHaveCause, Same
    <3>5. ASSUME NEW slot \in Slots, Damage(slot)
          PROVE  ErrorsHaveCause'
      BY <3>5 DEF Damage, ErrorsHaveCause
    <3> QED  BY <3>2, <3>3, <3>4, <3>5 DEF Next
  <2>3. CASE said # "error"
    <3>1. CASE Read = Absent /\ (Digest \/ Copy \/ Sidecar)
      <4>1. pc # "idle" /\ UNCHANGED <<source, list>>
        BY <3>1 DEF Digest, Copy, Sidecar
      <4> QED  BY <2>1, <3>1, <4>1 DEF ErrorsHaveCause, Read
    <3>2. CASE Compare
      <4>1. manifest.state = "torn" \/ (manifest.state = "whole" /\ ~Same)
        BY <2>3, <3>2 DEF Compare
      <4> QED  BY <3>2, <4>1 DEF Compare, ErrorsHaveCause, Same, files
    <3>3. CASE CheckFile
      <4>1. pc = "check" /\ ~Intact /\ UNCHANGED <<list, blurred, unsteady, damaged>>
        BY <2>3, <3>3 DEF CheckFile, Over, Advance, ghosts
      <4>2. manifest.state = "whole" /\ manifest.list = list /\ at \in 1..Len(list)
        BY <2>1, <4>1 DEF EvidenceInv, RunInv, Same
      <4>3. list[at] \in blurred \/ Slot \in damaged
        BY <4>1, <4>2 DEF EvidenceInv, ManifestIsEvidence, AgreesAt, Intact, Slot
      <4> QED  BY <4>1, <4>2, <4>3 DEF ErrorsHaveCause
    <3> QED
      BY <2>3, <3>1, <3>2, <3>3 DEF Next, Run, Begin, Digest, Copy, Sidecar, Advance,
         WriteManifest, Kill, Over, Change, Damage, vars
  <2> QED  BY <2>2, <2>3
<1> QED
  BY <1>1, <1>2, TypingBegins, TypingStep, EvidenceStep, PTL DEF Spec
=============================================================================

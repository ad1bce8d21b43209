---------------------------- MODULE Bibliography ----------------------------
(***************************************************************************)
(* The verification of the library's papers                                 *)
(* (public-web/scripts/verify-research-sources.mjs) against the register of *)
(* publishers, and the build that depends on it (assemble in                *)
(* researchCatalog.js). One run looks the papers up one by one and writes   *)
(* the whole file after each; it may end anywhere, also within a write.     *)
(***************************************************************************)
EXTENDS Integers, FiniteSets

CONSTANTS Papers, Torn, Missing

(* A state of the file is no set of papers; a paper is no stage.            *)
BibliographyAssumption ==
    /\ \A S \in SUBSET Papers : S \notin {Torn, Missing}
    /\ "none" \notin Papers /\ "looking" \notin Papers

VARIABLES
    file,        \* researchBibliography.json: the papers verified, Torn or Missing
    stage,       \* of a run: "none", "looking", or the paper it writes down
    memory,      \* its bibliography
    todo,        \* pending, from index on
    flagged,     \* unresolved
    exit,        \* of the last run; -1: none, or it was killed
    confirmed    \* history: what this run has found and written

vars == <<file, stage, memory, todo, flagged, exit, confirmed>>

Init ==
    /\ file \in {Missing} \cup SUBSET Papers
    /\ stage = "none" /\ memory = {} /\ todo = {} /\ flagged = {} /\ exit = -1
    /\ confirmed = {}

(* assemble, for every paper of the site: it throws for one without entry.  *)
Assembles == file = Papers

(* A run, with --refresh or without. again: what it looks up although it is *)
(* there (a venue that is no journal). A file that was torn cannot be read. *)
Start(refresh, again) ==
    /\ stage = "none"
    /\ confirmed' = {} /\ flagged' = {}
    /\ IF ~refresh /\ file = Torn
       THEN exit' = 1 /\ memory' = {} /\ todo' = {} /\ UNCHANGED stage
       ELSE /\ exit' = -1 /\ stage' = "looking"
            /\ memory' = IF refresh \/ file = Missing THEN {} ELSE file
            /\ todo' = (Papers \ memory') \cup again
    /\ UNCHANGED file

(* One match in the register.                                               *)
Found(p) ==
    /\ stage = "looking" /\ p \in todo
    /\ memory' = memory \cup {p} /\ todo' = todo \ {p}
    /\ stage' = p
    /\ UNCHANGED <<file, flagged, exit, confirmed>>

(* Fault: a lookup that fails leaves the paper as it was, without a word.   *)
NotFoundFault(p) ==
    /\ stage = "looking" /\ p \in todo
    /\ todo' = todo \ {p}
    /\ UNCHANGED <<file, stage, memory, flagged, exit, confirmed>>

(* No journal among the matches, or the lookup failed.                      *)
NotFound(p) ==
    /\ stage = "looking" /\ p \in todo
    /\ memory' = memory \ {p} /\ todo' = todo \ {p}
    /\ flagged' = flagged \cup {p}
    /\ UNCHANGED <<file, stage, exit, confirmed>>

(* Fault: the file is written once, at the end.                             *)
WriteFault ==
    /\ stage \in Papers
    /\ stage' = "looking" /\ confirmed' = memory
    /\ UNCHANGED <<file, memory, todo, flagged, exit>>

(* fs.writeFile is done, or fails, which is taken for a failed lookup.      *)
Write ==
    /\ stage \in Papers
    /\ \/ file' = memory /\ confirmed' = memory /\ UNCHANGED <<memory, flagged>>
       \/ /\ memory' = memory \ {stage} /\ flagged' = flagged \cup {stage}
          /\ file' \in {file, Torn} /\ UNCHANGED confirmed
    /\ stage' = "looking"
    /\ UNCHANGED <<todo, exit>>

(* The last write, the list for review, and the exit code.                  *)
Finish ==
    /\ stage = "looking" /\ todo = {}
    /\ file' = memory /\ stage' = "none"
    /\ exit' = IF flagged = {} THEN 0 ELSE 1
    /\ UNCHANGED <<memory, todo, flagged, confirmed>>

(* The run is killed: a file that is being written may be left torn.        *)
Kill ==
    /\ stage # "none"
    /\ file' \in (IF stage \in Papers \/ todo = {} THEN {file, Torn} ELSE {file})
    /\ stage' = "none" /\ exit' = -1
    /\ UNCHANGED <<memory, todo, flagged, confirmed>>

Next ==
    \/ \E refresh \in BOOLEAN, again \in SUBSET Papers : Start(refresh, again)
    \/ \E p \in Papers : Found(p) \/ NotFound(p)
    \/ Write \/ Finish \/ Kill

Spec == Init /\ [][Next]_vars

-----------------------------------------------------------------------------
(* Properties *)

(* After a run that ends well the site can be built; a run that is killed   *)
(* leaves everything it has confirmed and not withdrawn since, or a file    *)
(* that cannot be read, which every later run without --refresh reports     *)
(* (verify-research-sources.mjs:11, 47, 62, 64, 76).                        *)
VerifiedOrFlagged ==
    /\ exit = 0 /\ stage = "none" => Assembles
    /\ file # Torn => confirmed \ flagged \subseteq (IF file = Missing THEN {} ELSE file)
=============================================================================

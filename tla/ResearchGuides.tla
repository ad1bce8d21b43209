--------------------------- MODULE ResearchGuides ---------------------------
(***************************************************************************)
(* The guides of the research pages, which are loaded when an article is    *)
(* opened: the loader all articles share (public-web/src/                   *)
(* researchGuideLoading.js) and the article that waits for it               *)
(* (ResearchArticle.jsx). The address changes first; the page is rendered   *)
(* for it later, and its effects run after that.                            *)
(*                                                                          *)
(* And what the build makes of the guides (inspectResearchChunks in         *)
(* public-web/scripts/research-public-projection.mjs): chunks of code, of   *)
(* which the browser loads the entry, what that imports, and so on; a guide *)
(* only when its article asks for it. A bundle in which that fails is       *)
(* refused. The two do not touch each other: Next and BundleNext.           *)
(***************************************************************************)
EXTENDS Naturals, FiniteSets

CONSTANTS
    Articles,
    Guides,      \* the articles that have a guide to load
    Elsewhere,   \* any other page
    NoBody,
    Chunks, Entry, BundledGuides

GuidesAssumption ==
    /\ Guides \subseteq Articles /\ {Elsewhere, NoBody} \cap Articles = {}
    /\ Entry \in Chunks /\ IsFiniteSet(Chunks)

VARIABLES
    location,    \* [page, section]: the address, with or without a section
    article,     \* the article rendered, or Elsewhere
    observed,    \* its effect has run
    status,      \* of its body
    body,        \* the guide it shows
    waiting,     \* it is told what becomes of the import of these guides
    cache,       \* of the loader, of each guide
    frame,       \* "due": the section is looked for at the next frame
    scrolled     \* history: the article in which a section was found, and its address

VARIABLES
    bundle,      \* [imports, guides] of each chunk
    loaded,      \* the chunks the browser has
    asked        \* history: the guides that were asked for

vars == <<location, article, observed, status, body, waiting, cache, frame, scrolled>>
build == <<bundle, loaded, asked>>

-----------------------------------------------------------------------------
(* The loader and the article *)

Locations == [page : Articles \cup {Elsewhere}, section : BOOLEAN]

Init ==
    /\ location \in Locations
    /\ article = Elsewhere /\ observed = FALSE /\ status = "ready" /\ body = NoBody
    /\ waiting = {} /\ cache = [g \in Guides |-> "none"]
    /\ frame = "none" /\ scrolled = <<Elsewhere, Elsewhere>>

Go(where) ==
    /\ location' = where
    /\ UNCHANGED <<article, observed, status, body, waiting, cache, frame, scrolled>>

(* Fault: one article becomes the next, as one component.                   *)
RenderFault ==
    /\ article # location.page
    /\ article' = location.page
    /\ IF article \in Guides /\ location.page \in Guides THEN UNCHANGED <<status, body>>
       ELSE status' = (IF location.page \in Guides THEN "loading" ELSE "ready") /\ body' = NoBody
    /\ observed' = FALSE /\ waiting' = {} /\ frame' = "none"
    /\ UNCHANGED <<location, cache, scrolled>>

(* Another article is another component, for its key: it begins anew, and   *)
(* the effects of the one before are undone.                                *)
Render ==
    /\ article # location.page
    /\ article' = location.page
    /\ status' = (IF location.page \in Guides THEN "loading" ELSE "ready")
    /\ body' = NoBody
    /\ observed' = FALSE /\ waiting' = {} /\ frame' = "none"
    /\ UNCHANGED <<location, cache, scrolled>>

(* observeResearchGuide, and load: a guide is imported once.                *)
Observe ==
    /\ article \in Guides /\ ~observed
    /\ observed' = TRUE
    /\ IF cache[article] = "ready"
       THEN /\ status' = "ready" /\ body' = article /\ frame' = "due"
            /\ UNCHANGED <<waiting, cache>>
       ELSE /\ status' = "loading" /\ body' = NoBody
            /\ waiting' = waiting \cup {article}
            /\ cache' = [cache EXCEPT ![article] = "pending"]
            /\ UNCHANGED frame
    /\ UNCHANGED <<location, article, scrolled>>

(* The import is done: whoever waits for the guide is told.                 *)
Arrive(g) ==
    /\ cache[g] = "pending"
    /\ cache' = [cache EXCEPT ![g] = "ready"]
    /\ waiting' = waiting \ {g}
    /\ IF g \in waiting THEN status' = "ready" /\ body' = g /\ frame' = "due"
       ELSE UNCHANGED <<status, body, frame>>
    /\ UNCHANGED <<location, article, observed, scrolled>>

(* Fault: the import that failed stays in the cache.                        *)
FailFault(g) ==
    /\ cache[g] = "pending"
    /\ waiting' = waiting \ {g}
    /\ IF g \in waiting THEN status' = "error" /\ body' = NoBody ELSE UNCHANGED <<status, body>>
    /\ UNCHANGED <<location, article, observed, cache, frame, scrolled>>

(* An import that failed is forgotten, so that it can be tried again.       *)
Fail(g) ==
    /\ cache[g] = "pending"
    /\ cache' = [cache EXCEPT ![g] = "none"]
    /\ waiting' = waiting \ {g}
    /\ IF g \in waiting THEN status' = "error" /\ body' = NoBody ELSE UNCHANGED <<status, body>>
    /\ UNCHANGED <<location, article, observed, frame, scrolled>>

(* onRetryBody: another attempt runs the effect again. *)
Retry ==
    /\ status = "error" /\ observed
    /\ observed' = FALSE
    /\ UNCHANGED <<location, article, status, body, waiting, cache, frame, scrolled>>

(* restoreGuideFragment: the address may be another by now.                 *)
Frame ==
    /\ frame = "due"
    /\ frame' = "none"
    /\ scrolled' = IF location.page = article /\ location.section
                   THEN <<article, location.page>> ELSE scrolled
    /\ UNCHANGED <<location, article, observed, status, body, waiting, cache>>

Next ==
    \/ \E where \in Locations : Go(where)
    \/ Render \/ Observe \/ Retry \/ Frame
    \/ \E g \in Guides : Arrive(g) \/ Fail(g)

-----------------------------------------------------------------------------
(* The bundle *)

(* Any bundle: a chunk imports others and contains guides, also more than   *)
(* one, or one that another contains as well.                               *)
BundleInit ==
    /\ bundle \in [Chunks -> [imports : SUBSET Chunks, guides : SUBSET BundledGuides]]
    /\ \A c \in Chunks : c \notin bundle[c].imports
    /\ loaded = {Entry} /\ asked = {}

(* Fault: the imports of the entry, not what they import.                   *)
InitialFault == {Entry} \cup bundle[Entry].imports

(* visit: the chunks reached from the entry by imports, which are those of  *)
(* every set that has it and whatever its chunks import.                    *)
Closed(S) == Entry \in S /\ \A c \in S : bundle[c].imports \subseteq S
Initial == {c \in Chunks : \A S \in SUBSET Chunks : Closed(S) => c \in S}

(* A guide has one chunk, which has no other and is not an initial one.     *)
Accepted ==
    /\ \A c \in Chunks : bundle[c].guides # {} =>
          Cardinality(bundle[c].guides) = 1 /\ c \notin Initial
    /\ \A c, d \in Chunks : c # d => bundle[c].guides \cap bundle[d].guides = {}
    /\ UNION {bundle[c].guides : c \in Chunks} = BundledGuides

(* The browser loads what a chunk it has imports.                           *)
Load ==
    \E c \in loaded : \E d \in bundle[c].imports \ loaded :
        loaded' = loaded \cup {d} /\ UNCHANGED <<bundle, asked>>

(* load, which an article calls: import("virtual:research-guide/...")       *)
Open(g) ==
    /\ Accepted /\ g \notin asked
    /\ asked' = asked \cup {g}
    /\ loaded' = loaded \cup {c \in Chunks : g \in bundle[c].guides}
    /\ UNCHANGED bundle

Rest == UNCHANGED build

BundleNext == Load \/ (\E g \in BundledGuides : Open(g)) \/ Rest

EitherPart == (Next /\ UNCHANGED build) \/ (BundleNext /\ UNCHANGED vars)

Spec == Init /\ BundleInit /\ [][EitherPart]_<<vars, build>>

-----------------------------------------------------------------------------
(* Properties *)

(* An article shows its own guide or none; one that waits is waiting for an *)
(* import that is under way; one that failed can be tried again, for its    *)
(* import is not in the cache; and the page is not moved to a section of an *)
(* article the reader has left (researchGuideLoading.js:8-10, 26, 31;       *)
(* App.jsx:1564).                                                           *)
GuideIsOfTheArticle ==
    /\ status = "ready" /\ article \in Guides => body = article
    /\ body # NoBody => body = article
    /\ status = "loading" /\ observed => article \in waiting /\ cache[article] = "pending"
    /\ status = "error" => cache[article] = "none"
    /\ scrolled[1] = scrolled[2]

(* In a bundle that is accepted the browser has no guide before one is      *)
(* asked for, however the chunks import each other, and afterwards has the  *)
(* guides that were asked for (research-public-projection.mjs:32, 36).      *)
GuidesAreDeferred ==
    Accepted =>
        /\ asked = {} => \A c \in loaded : bundle[c].guides = {}
        /\ asked \subseteq UNION {bundle[c].guides : c \in loaded}
=============================================================================

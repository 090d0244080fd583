---------------------------- MODULE ModelSearch -----------------------------
(***************************************************************************)
(* Finding a model on the hub: the search panel's state                    *)
(* (features/01-llm-provider/use-model-browser-store.ts), the lists it     *)
(* derives for display (ModelBrowser.tsx), and what the backend makes of   *)
(* a repository's files (src-tauri/src/commands/models.rs).                *)
(*                                                                         *)
(* Requests are asynchronous and nothing ties an answer to the panel that  *)
(* asked for it, so answers arrive in any order, also after the panel was  *)
(* closed.                                                                 *)
(***************************************************************************)
EXTENDS Naturals, FiniteSets

CONSTANTS
  Repos,      \* repositories the hub may answer with
  Tree,       \* Tree[r]: the files of repository r
  Owner,      \* Owner[r]: who published it
  Labels,     \* quantization labels
  Queries,    \* what the user may type
  NoQuery, NoRepo, NoLabel,
  MaxSearches \* bound: requests of one kind in flight

\* nested: not at the top level.  sharded: one part of several.
FileKinds == [nested : BOOLEAN, sharded : BOOLEAN, quant : Labels \cup {NoLabel}]

ASSUME SearchConstants ==
  /\ NoQuery \notin Queries /\ NoRepo \notin Repos /\ NoLabel \notin Labels
  /\ Tree \in [Repos -> SUBSET FileKinds]
  /\ Repos \subseteq DOMAIN Owner
  /\ MaxSearches \in Nat

VARIABLES
  submitted, \* hfSubmittedQuery
  sort,      \* hfSort
  results,   \* hfResults
  searched,  \* hfSearched
  searching, \* hfSearching
  searches,  \* searches in flight: query, order asked for, keepFacets
  selected,  \* hfSelectedRepo
  authors,   \* hfAuthors
  quants,    \* hfQuants
  listed,    \* hfRepoFiles: "none" when absent, "empty" after a failure
  loading,   \* hfLoadingRepos
  listings   \* listings in flight of each repository

panelVars == <<submitted, results, searched, selected, authors, quants>>
searchVars == <<submitted, sort, results, searched, searching, searches,
                selected, authors, quants, listed, loading, listings>>

Sorts == {"downloads", "likes"}
Search == [query : Queries, sort : Sorts, keep : BOOLEAN]
Owners == {Owner[r] : r \in Repos}

SearchTypeOK ==
  /\ submitted \in Queries \cup {NoQuery} /\ sort \in Sorts
  /\ results \in SUBSET Repos
  /\ searched \in BOOLEAN /\ searching \in BOOLEAN
  /\ searches \in SUBSET Search
  /\ selected \in Repos \cup {NoRepo}
  /\ authors \in SUBSET Owners /\ quants \in SUBSET Labels
  /\ listed \in [Repos -> {"none", "empty", "files"}]
  /\ loading \in SUBSET Repos
  /\ listings \in [Repos -> 0 .. MaxSearches]

SearchInit ==
  /\ submitted = NoQuery /\ sort = "downloads"
  /\ results = {} /\ searched = FALSE /\ searching = FALSE /\ searches = {}
  /\ selected = NoRepo /\ authors = {} /\ quants = {}
  /\ listed = [r \in Repos |-> "none"]
  /\ loading = {} /\ listings = [r \in Repos |-> 0]

-----------------------------------------------------------------------------
(* What the backend makes of a repository's files.                         *)

\* hf_list_gguf_files: the top level, shards included and marked.
ListedFiles(files) == {f \in files : ~f.nested}

\* build_hf_model: the labels of the files one can download; the slips label the
\* shards as well, or what has no label.
FacetLabelsUnlabelled(files) == {f.quant : f \in {g \in files : ~g.nested /\ ~g.sharded}}
FacetLabelsSharded(files) == {f.quant : f \in {g \in files : ~g.nested}} \ {NoLabel}
FacetLabels(files) ==
  {f.quant : f \in {g \in files : ~g.nested /\ ~g.sharded}} \ {NoLabel}

(* What the panel shows of the results.                                    *)

ByAuthor == {r \in results : authors = {} \/ Owner[r] \in authors}
Matching(rs) == {r \in rs : quants = {} \/ quants \cap FacetLabels(Tree[r]) # {}}
Visible == Matching(ByAuthor)

\* Each facet offers what the other one leaves, and what is picked already; a
\* slip offers what any result has.
QuantFacetsAll == (UNION {FacetLabels(Tree[r]) : r \in results}) \cup quants
AuthorFacets == {Owner[r] : r \in Matching(results)} \cup authors
QuantFacets == (UNION {FacetLabels(Tree[r]) : r \in ByAuthor}) \cup quants

ShowingResults == searched /\ selected = NoRepo

-----------------------------------------------------------------------------
(* runHfSearch, up to its await and after it.                              *)

RunSearch(q, order, keep) ==
  /\ Cardinality(searches) < MaxSearches
  /\ searches' = searches \cup {[query |-> q, sort |-> order, keep |-> keep]}
  /\ searching' = TRUE /\ selected' = NoRepo /\ sort' = order
  /\ authors' = IF keep THEN authors ELSE {}
  /\ quants' = IF keep THEN quants ELSE {}
  /\ UNCHANGED <<submitted, results, searched, listed, loading, listings>>

SubmitQuery == \E q \in Queries : RunSearch(q, sort, FALSE)

\* Re-sorting runs the query the results belong to, and keeps the picks.
SetSort ==
  \E order \in Sorts \ {sort} :
    IF submitted # NoQuery THEN RunSearch(submitted, order, TRUE)
    ELSE /\ sort' = order
         /\ UNCHANGED <<panelVars, searching, searches, listed, loading, listings>>

\* A failed search installs an empty result and leaves the picks alone.
SearchAnswered(s) ==
  /\ searches' = searches \ {s}
  /\ searching' = FALSE /\ searched' = TRUE /\ submitted' = s.query
  /\ \/ \E found \in SUBSET Repos :
          /\ results' = found
          /\ authors' = IF s.keep THEN authors \cap {Owner[r] : r \in found} ELSE authors
          /\ quants' = IF s.keep THEN quants \cap UNION {FacetLabels(Tree[r]) : r \in found}
                       ELSE quants
     \/ results' = {} /\ UNCHANGED <<authors, quants>>
  /\ UNCHANGED <<sort, selected, listed, loading, listings>>

-----------------------------------------------------------------------------
(* selectHfRepo and ensureHfRepoFiles.                                     *)

\* The slip asks again for what is already on its way.
NeedsListingCached(r) == listed[r] = "none"
NeedsListing(r) == listed[r] = "none" /\ r \notin loading

\* A row was clicked, or a repository's name typed.
SelectRepo(r) ==
  /\ selected' = r
  /\ listings[r] < MaxSearches
  /\ IF NeedsListing(r)
       THEN /\ loading' = loading \cup {r}
            /\ listings' = [listings EXCEPT ![r] = @ + 1]
       ELSE UNCHANGED <<loading, listings>>
  /\ UNCHANGED <<submitted, sort, results, searched, searching, searches, authors,
                 quants, listed>>

ListingAnswered(r) ==
  /\ listings[r] > 0
  /\ listings' = [listings EXCEPT ![r] = @ - 1]
  /\ \E answer \in {"files", "empty"} : listed' = [listed EXCEPT ![r] = answer]
  /\ loading' = loading \ {r}
  /\ UNCHANGED <<panelVars, sort, searching, searches>>

-----------------------------------------------------------------------------
Emptied ==
  /\ submitted' = NoQuery /\ results' = {} /\ searched' = FALSE
  /\ authors' = {} /\ quants' = {}

\* One level out: a repository's files, then the results, then the panel.
Back ==
  /\ IF selected # NoRepo
       THEN selected' = NoRepo /\ UNCHANGED <<submitted, results, searched, authors, quants>>
       ELSE Emptied /\ UNCHANGED selected
  /\ UNCHANGED <<sort, searching, searches, listed, loading, listings>>

ClosePanel ==
  /\ Emptied /\ selected' = NoRepo
  /\ UNCHANGED <<sort, searching, searches, listed, loading, listings>>

ToggleAuthor(a) ==
  /\ ShowingResults /\ a \in AuthorFacets
  /\ authors' = IF a \in authors THEN authors \ {a} ELSE authors \cup {a}
  /\ UNCHANGED <<submitted, sort, results, searched, searching, searches, selected,
                 quants, listed, loading, listings>>

ToggleQuant(q) ==
  /\ ShowingResults /\ q \in QuantFacets
  /\ quants' = IF q \in quants THEN quants \ {q} ELSE quants \cup {q}
  /\ UNCHANGED <<submitted, sort, results, searched, searching, searches, selected,
                 authors, listed, loading, listings>>

ClearFacets ==
  /\ ShowingResults /\ authors \cup quants # {}
  /\ authors' = {} /\ quants' = {}
  /\ UNCHANGED <<submitted, sort, results, searched, searching, searches, selected,
                 listed, loading, listings>>

SearchNext ==
  \/ SubmitQuery \/ SetSort \/ Back \/ ClosePanel \/ ClearFacets
  \/ \E s \in searches : SearchAnswered(s)
  \/ \E r \in Repos : SelectRepo(r) \/ ListingAnswered(r)
  \/ \E a \in Owners : ToggleAuthor(a)
  \/ \E q \in Labels \cup {NoLabel} : ToggleQuant(q)

SearchSpec == SearchInit /\ [][SearchNext]_searchVars

-----------------------------------------------------------------------------
(* What the code guarantees.                                               *)

\* Rows and file list both ask for a repository's files: it is asked for once
\* at a time, and never again once there is an answer.
OneListing ==
  \A r \in Repos :
    /\ listings[r] = IF r \in loading THEN 1 ELSE 0
    /\ r \in loading => listed[r] = "none"

\* "Picking across the two can't dead-end on an empty list": a pick that is
\* offered leaves something to see if there was something before, whatever was
\* searched for, re-sorted or picked earlier.
PickNeverDeadEnds ==
  [][ /\ Visible # {} /\ UNCHANGED results
      /\ \/ authors' # authors /\ authors \subseteq authors'
         \/ quants' # quants /\ quants \subseteq quants'
      => Visible' # {} ]_searchVars

\* "A facet can never promise a quant the file list won't show" as one that can
\* be downloaded, whatever the repository holds.
FacetKeepsPromise ==
  \A r \in results :
    FacetLabels(Tree[r]) \subseteq {f.quant : f \in {g \in ListedFiles(Tree[r]) : ~g.sharded}}

\* What the panel and its answers, in whatever order, keep to.
SearchSafe == OneListing /\ FacetKeepsPromise
=============================================================================

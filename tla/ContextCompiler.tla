-------------------------- MODULE ContextCompiler --------------------------
(***************************************************************************)
(* The context compiler (src/context-compiler.mjs): a manifest's facts and *)
(* the source excerpts it cites, rendered into the text a worker is given  *)
(* and an approval binds.  When the cited lines moved in their file, the   *)
(* compiler looks for the one shift of citations that reproduces the text  *)
(* approved.                                                               *)
(*                                                                         *)
(* A manifest is [facts, resources], a resource [path, startLine, endLine];*)
(* files map a path to its lines.  A text is the sequence of the excerpts  *)
(* it shows, its digest the text; bytes are counted in lines.              *)
(***************************************************************************)
EXTENDS Integers, Sequences, FiniteSets, Functions

Size(resource) == resource.endLine - resource.startLine + 1

(* parseContextManifest, and the sources compileContext reads for it.      *)
ManifestValid(manifest, files, limits) ==
    /\ Len(manifest.facts) <= limits.facts
    /\ Len(manifest.resources) <= limits.resources
    /\ IsInjective(manifest.resources)
    /\ \A i \in DOMAIN manifest.resources :
          LET resource == manifest.resources[i] IN
          /\ 1 <= resource.startLine /\ resource.startLine <= resource.endLine
          /\ resource.path \in DOMAIN files /\ Len(files[resource.path]) <= limits.source

(* A shift says by how many lines each citation is read away from its own. *)
Unmoved(manifest) == [i \in DOMAIN manifest.resources |-> 0]

Fits(manifest, files, shift) ==
    \A i \in DOMAIN manifest.resources :
        LET resource == manifest.resources[i] IN
        /\ resource.startLine + shift[i] >= 1
        /\ resource.endLine + shift[i] <= Len(files[resource.path])

Excerpt(resource, files, delta) ==
    [k \in 1..Size(resource) |-> files[resource.path][resource.startLine + delta + k - 1]]

(* numberedExcerpt and renderCompiledContext: the lines read under labels  *)
(* that follow the shift, or keep the recorded ones.                       *)
Labelled(manifest, files, shift, labels) ==
    [facts |-> manifest.facts,
     shows |-> [i \in DOMAIN manifest.resources |->
                  [path |-> manifest.resources[i].path, from |-> manifest.resources[i].startLine + labels[i],
                   lines |-> Excerpt(manifest.resources[i], files, shift[i])]],
     whole |-> <<>>]

Rendered(manifest, files, shift) == Labelled(manifest, files, shift, shift)
Relabelled(manifest, files, shift) == Labelled(manifest, files, shift, Unmoved(manifest))

(* The rendering of older approvals also names each cited file's digest.   *)
Legacy(manifest, files, shift) ==
    [Rendered(manifest, files, shift) EXCEPT
        !.whole = [i \in DOMAIN manifest.resources |-> files[manifest.resources[i].path]]]

(* The shifts findAnchoredShift tries: in one file, the citations from one *)
(* line on move together, as far as the file reaches.                      *)
Shifts(manifest, files) ==
    {shift \in UNION {
        LET moving == {i \in DOMAIN manifest.resources :
                          /\ manifest.resources[i].path = manifest.resources[first].path
                          /\ \/ manifest.resources[i].startLine > manifest.resources[first].startLine
                             \/ /\ manifest.resources[i].startLine = manifest.resources[first].startLine
                                /\ i >= first}
            longest == Len(files[manifest.resources[first].path])
        IN  {[i \in DOMAIN manifest.resources |-> IF i \in moving THEN delta ELSE 0] :
                delta \in (1 - manifest.resources[first].startLine..longest) \ {0}} :
        first \in DOMAIN manifest.resources} :
     Fits(manifest, files, shift)}

(* occurrences: where the lines a citation is read from stand in its file. *)
Occurrences(resource, files, delta) ==
    {at \in -resource.startLine + 1..Len(files[resource.path]) - resource.endLine :
        Excerpt(resource, files, at) = Excerpt(resource, files, delta)}

(* findAnchoredShift: the only shift that reproduces the approved text, if *)
(* each excerpt it moves occurs once and the search stays in its budget.   *)
Anchored(manifest, files, approved, limits) ==
    LET tried == Shifts(manifest, files)
        matching == {shift \in tried : Relabelled(manifest, files, shift) = approved}
    IN  {shift \in matching :
            /\ Cardinality(tried) <= limits.search
            /\ matching = {shift}
            /\ \A i \in DOMAIN manifest.resources :
                  shift[i] # 0 => Cardinality(Occurrences(manifest.resources[i], files, shift[i])) = 1}

NeedsAnchor(manifest, files, approved) ==
    ~Fits(manifest, files, Unmoved(manifest))
    \/ approved \notin {Rendered(manifest, files, Unmoved(manifest)), Legacy(manifest, files, Unmoved(manifest))}

(* How the citations are read: where they are recorded, unless only a move *)
(* reproduces what was approved.                                           *)
Reading(manifest, files, approved, limits) ==
    IF NeedsAnchor(manifest, files, approved) /\ Anchored(manifest, files, approved, limits) # {}
      THEN CHOOSE shift \in Anchored(manifest, files, approved, limits) : TRUE
      ELSE Unmoved(manifest)

LinesShown(text) == FoldFunction(LAMBDA excerpt, sum : Len(excerpt.lines) + sum, 0, text.shows)

(* compileContext: refused when a citation exceeds its file or the text its*)
(* limit; otherwise the text, its older form, and the moves if there are.  *)
Compiles(manifest, files, approved, limits) ==
    /\ ManifestValid(manifest, files, limits)
    /\ LET shift == Reading(manifest, files, approved, limits) IN
       Fits(manifest, files, shift) /\ LinesShown(Rendered(manifest, files, shift)) <= limits.rendered

Digests(manifest, files, approved, limits) ==
    LET shift == Reading(manifest, files, approved, limits) IN
    {Rendered(manifest, files, shift), Legacy(manifest, files, shift)}
      \cup (IF shift # Unmoved(manifest) THEN {approved} ELSE {})

(* contextDigestMatches: whether an approval still binds its context.      *)
Fresh(manifest, files, approved, limits) ==
    Compiles(manifest, files, approved, limits) /\ approved \in Digests(manifest, files, approved, limits)

-----------------------------------------------------------------------------
(* What an approval of what files show promises about a later reading.     *)

(* The worker is shown the lines that were approved: in whatever way a file *)
(* changed, a fresh approval's citations read, at the lines they are shown *)
(* under, what the approver saw (context-compiler.mjs:148-207), so an edit *)
(* of a cited line always costs the approval.                              *)
ShowsWhatWasApproved(manifest, files, later, limits) ==
    LET approved == Rendered(manifest, files, Unmoved(manifest))
        shift == Reading(manifest, later, approved, limits)
    IN  Fresh(manifest, later, approved, limits) =>
            \A i \in DOMAIN manifest.resources :
                LET resource == manifest.resources[i] IN
                /\ Excerpt(resource, later, shift[i]) = Excerpt(resource, files, 0)
                /\ Rendered(manifest, later, shift).shows[i].from = resource.startLine + shift[i]

(* A move keeps an approval only when nothing else explains it: each moved *)
(* citation stands once in its file, and no other block of citations moved *)
(* together shows the approved lines (docs/context-compiler.md:143).       *)
After(manifest, i, j) ==
    LET one == manifest.resources[i]
        other == manifest.resources[j]
    IN  /\ other.path = one.path
        /\ \/ other.startLine > one.startLine
           \/ other.startLine = one.startLine /\ j >= i

OneBlock(manifest, shift) ==
    \E first \in DOMAIN shift : shift[first] # 0 /\
        \A j \in DOMAIN shift : shift[j] = IF After(manifest, first, j) THEN shift[first] ELSE 0

AmbiguityIsStale(manifest, files, later, limits, distances) ==
    LET approved == Rendered(manifest, files, Unmoved(manifest))
        shift == Reading(manifest, later, approved, limits)
    IN  Fresh(manifest, later, approved, limits) /\ shift # Unmoved(manifest) =>
            /\ \A i \in DOMAIN shift :
                  shift[i] # 0 => Cardinality(Occurrences(manifest.resources[i], later, shift[i])) = 1
            /\ \A other \in [DOMAIN shift -> distances] \ {shift} :
                  OneBlock(manifest, other) /\ Fits(manifest, later, other) =>
                     \E i \in DOMAIN shift :
                        Excerpt(manifest.resources[i], later, other[i]) # Excerpt(manifest.resources[i], files, 0)

(* An older approval binds the whole of every file it cites.               *)
LegacyBindsFiles(manifest, files, later, limits) ==
    Fresh(manifest, later, Legacy(manifest, files, Unmoved(manifest)), limits) =>
        \A i \in DOMAIN manifest.resources : later[manifest.resources[i].path] = files[manifest.resources[i].path]
=============================================================================

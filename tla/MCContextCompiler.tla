------------------------- MODULE MCContextCompiler -------------------------
(***************************************************************************)
(* What an approval binds, checked for every pair of citations of a file   *)
(* of three lines and every edit that inserts or deletes one block of it.  *)
(***************************************************************************)
EXTENDS ContextCompiler

ContextLimits == [facts |-> 1, resources |-> 2, source |-> 6, rendered |-> 6, search |-> 20]

TextLines == {"x", "y", "z"}
Cited == {[path |-> p, startLine |-> a, endLine |-> b] : p \in {"f", "g"}, a \in 1..3, b \in 1..3}
Manifests == {m \in [facts : {<<"fact">>}, resources : {<<r>> : r \in Cited} \cup {<<r, s>> : r, s \in Cited}] :
                  m.resources[1].path = "f" /\ \A i \in DOMAIN m.resources : m.resources[i].startLine <= m.resources[i].endLine}
Before == {[f |-> lines, g |-> <<"x", "y", "z">>] : lines \in {<<"x", "y", "z">>, <<"x", "y", "x">>, <<"x", "x", "y">>}}

(* One block of at most two lines deleted or inserted after a line.        *)
Edited(lines) ==
    {SubSeq(lines, 1, at) \o block \o SubSeq(lines, at + gone + 1, Len(lines)) :
        at \in 0..Len(lines), gone \in 0..1, block \in {<<>>} \cup {<<a>> : a \in TextLines} \cup {<<"w", a>> : a \in TextLines}}

(* An approval of one citation survives a move when its lines stand only   *)
(* once in the file, and an ambiguous move never keeps it.                 *)
SurvivesAMove(manifest, files, later) ==
    LET approved == Rendered(manifest, files, Unmoved(manifest))
        resource == manifest.resources[1]
        places == {at \in 1 - resource.startLine..Len(later.f) - resource.endLine :
                      Excerpt(resource, later, at) = Excerpt(resource, files, 0)}
    IN  Len(manifest.resources) = 1 =>
            (Fresh(manifest, later, approved, ContextLimits) <=> 0 \in places \/ Cardinality(places) = 1)

ASSUME ContextBindsWhatItShows ==
    \A manifest \in Manifests, files \in Before :
        Compiles(manifest, files, Rendered(manifest, files, Unmoved(manifest)), ContextLimits) =>
            \A later \in {[files EXCEPT !.f = lines] : lines \in Edited(files.f)} :
                /\ ShowsWhatWasApproved(manifest, files, later, ContextLimits)
                /\ SurvivesAMove(manifest, files, later)
                /\ AmbiguityIsStale(manifest, files, later, ContextLimits, -4..4)
                /\ LegacyBindsFiles(manifest, files, later, ContextLimits)
=============================================================================

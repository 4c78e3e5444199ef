---------------------------- MODULE MCFileScope ----------------------------
(***************************************************************************)
(* What the file scope keeps out, checked against the filesystem itself:   *)
(* a root and one directory, each of which may or may not tell case and    *)
(* form apart, with the entries a project can have in them.                *)
(***************************************************************************)
EXTENDS FileScope, FiniteSets, TLC

Bases == {[letters |-> "e", cased |-> TRUE, composite |-> TRUE, is |-> "plain"],
          [letters |-> "1", cased |-> FALSE, composite |-> FALSE, is |-> "plain"],
          [letters |-> "key", cased |-> TRUE, composite |-> FALSE, is |-> "secret"]}
Names == {n \in [base : Bases, upper : BOOLEAN, decomposed : BOOLEAN] :
             (n.upper => n.base.cased) /\ (n.decomposed => n.base.composite)}
ScopePaths == {<<n>> : n \in Names} \cup {<<n, m>> : n, m \in Names}

(* The truth of one directory: whether it takes two spellings for one.     *)
Kinds == [case : BOOLEAN, unicode : BOOLEAN]
Directories(kind) ==
    {entries \in SUBSET [name : Names, kind : {"file", "link"}] :
        /\ Cardinality(entries) <= 2
        /\ Holds(kind, entries)}

(* The root holds one directory d and up to two files.                     *)
D == [base |-> [letters |-> "d", cased |-> TRUE, composite |-> FALSE, is |-> "plain"], upper |-> FALSE, decomposed |-> FALSE]
Spellings == Names \cup {D, [D EXCEPT !.upper = TRUE]}
Modes(rootKind, root, innerKind, inner) ==
    (<<>> :> ProbeOf(<<>>, rootKind, root \cup {[name |-> D, kind |-> "directory"]}, Spellings))
    @@ (<<D>> :> ProbeOf(<<D>>, innerKind, inner, Spellings))

Spelled == {<<d, n>> : d \in {D, [D EXCEPT !.upper = TRUE]}, n \in Names}
Nothing == [dependencyMounts |-> {}, protectedPaths |-> {}, inputPaths |-> {}, preparationPaths |-> {}]

(* A change that the filesystem would write to a reserved path, under any  *)
(* spelling of it, is never taken for another (file-scope.mjs:101-126,     *)
(* 160-216): what the probe answers of a directory is true of it, and what *)
(* it could not tell counts as the same name.                              *)
ASSUME AliasesAreCaught ==
    \A rootKind \in Kinds, innerKind \in Kinds : \A inner \in Directories(innerKind) :
        LET modes == Modes(rootKind, {}, innerKind, inner) IN
        \A path \in Spelled, boundary \in Spelled :
            NamesWithin(path, boundary, <<rootKind, innerKind>>) =>
                /\ Touches(path, boundary, modes)
                /\ Classify([path |-> path, change |-> "modified", before |-> "file", after |-> "file"],
                            [Nothing EXCEPT !.protectedPaths = {boundary}], modes) # "none"

(* Where the probe could tell, distinct spellings are not confused: the    *)
(* root, which holds a cased directory, tells its own kind.                *)
ASSUME DistinctNamesStayDistinct ==
    \A rootKind \in Kinds : \A root \in Directories(rootKind) :
        LET modes == Modes(rootKind, root, rootKind, {}) IN
        \A path \in {<<D>>, <<[D EXCEPT !.upper = TRUE]>>}, boundary \in {<<D>>} :
            Touches(path, boundary, modes) <=> NamesWithin(path, boundary, <<rootKind>>)

(* What is allowed is ordinary, of short paths in no known directory.      *)
ASSUME AllowedChanges ==
    \A path \in ScopePaths \cup {<<>>}, change \in {"created", "modified", "deleted", "type_changed"},
       before \in {"absent", "file", "link"}, after \in {"absent", "file", "link"}, reserved \in {<<D>>, <<D, D>>} :
        AllowedIsOrdinary([path |-> path, change |-> change, before |-> before, after |-> after],
                          [Nothing EXCEPT !.inputPaths = {reserved}], [d \in {} |-> {}])
=============================================================================

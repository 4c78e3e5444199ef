----------------------------- MODULE FileScope -----------------------------
(***************************************************************************)
(* Which changes a worker's candidate may hold (src/file-scope.mjs).  The  *)
(* source's directories are probed for whether they tell spellings apart   *)
(* that differ in case or in Unicode form; a change is refused when its    *)
(* path may name a reserved one, and what the probe could not tell counts  *)
(* against the change.                                                     *)
(*                                                                         *)
(* A name is [base, upper, decomposed]: its letters without case and form, *)
(* and its spelling; a base is [letters, cased, composite, is].  A path is *)
(* a sequence of names.  modes maps a directory to the two answers of the  *)
(* probe, each "yes", "no" or "unknown".                                   *)
(***************************************************************************)
EXTENDS Naturals, Sequences

(* unicodeCaseFold, rawCaseFold: equal bases fold alike; the parts of the  *)
(* difference are the case and the form.                                   *)
SameFold(name, other) == name.base = other.base
CaseDiffers(name, other) == name.upper # other.upper
FormDiffers(name, other) == name.decomposed # other.decomposed

AlternateCase(name) == [name EXCEPT !.upper = ~@]
AlternateForm(name) == [name EXCEPT !.decomposed = ~@]

IsInternal(path) == \E i \in DOMAIN path : path[i].base.is = "internal"
IsSecret(path) ==
    \E i \in DOMAIN path : path[i].base.is \in {"secret"} \cup (IF i < Len(path) THEN {"secret directory"} ELSE {})

(* summarizeModes: probes of one directory that disagree tell nothing.     *)
Agreed(answers) ==
    LET known == answers \ {"unknown"} IN
    IF known = {"yes"} THEN "yes" ELSE IF known = {"no"} THEN "no" ELSE "unknown"

(* What a lookup of another spelling of an entry answers: itself, another  *)
(* entry, a link, or nothing.                                              *)
Probe(entry, entries, alternate, finds) ==
    IF \E e \in entries : e.name = alternate THEN "no"
    ELSE IF \E e \in finds[alternate] : e.kind = "link" THEN "unknown"
    ELSE IF entry \in finds[alternate] THEN "yes" ELSE "no"

(* inspectDirectoryAliases: each entry that is no link and not reserved is *)
(* looked up under its other spellings.                                    *)
DirectoryModes(directory, entries, finds) ==
    LET probed == {e \in entries : e.kind # "link" /\ ~IsInternal(directory \o <<e.name>>) /\ ~IsSecret(directory \o <<e.name>>)}
    IN  [case |-> Agreed({Probe(e, entries, AlternateCase(e.name), finds) : e \in {p \in probed : p.name.base.cased}}),
         unicode |-> Agreed({Probe(e, entries, AlternateForm(e.name), finds) : e \in {p \in probed : p.name.base.composite}})]

(* modeForDifference: the directory under the path's spelling, else under  *)
(* the boundary's; one that was not probed tells nothing.                  *)
Mode(path, boundary, i, modes) ==
    LET own == SubSeq(path, 1, i - 1)
        reserved == SubSeq(boundary, 1, i - 1)
    IN  IF own \in DOMAIN modes THEN modes[own]
        ELSE IF reserved \in DOMAIN modes THEN modes[reserved]
        ELSE [case |-> "unknown", unicode |-> "unknown"]

(* componentsMayAlias                                                      *)
MayAlias(path, boundary, i, modes) ==
    /\ SameFold(path[i], boundary[i])
    /\ CaseDiffers(path[i], boundary[i]) => Mode(path, boundary, i, modes).case # "no"
    /\ FormDiffers(path[i], boundary[i]) => Mode(path, boundary, i, modes).unicode # "no"

(* touchesPath: one is the other or lies in it.                            *)
Touches(path, boundary, modes) ==
    \A i \in 1..Len(path) : i <= Len(boundary) => MayAlias(path, boundary, i, modes)

TouchesAny(path, boundaries, modes) == \E boundary \in boundaries : Touches(path, boundary, modes)

(* classifyFileScopeChange: why a change is refused, the first reason of   *)
(* the list that applies, "none" when it is allowed.                       *)
ScopeReasons == <<"noncanonical candidate path", "internal controller path", "credential or secret path",
             "dependency mount path", "protected contract file", "task packet input",
             "immutable preparation input", "file deletion is not authorized",
             "candidate identity is inconsistent", "filesystem type changes are not authorized">>

RefusalsOf(change, scope, modes) ==
    {k \in 1..10 :
        \/ k = 1 /\ change.path = <<>>
        \/ k = 2 /\ IsInternal(change.path)
        \/ k = 3 /\ IsSecret(change.path)
        \/ k = 4 /\ TouchesAny(change.path, scope.dependencyMounts, modes)
        \/ k = 5 /\ TouchesAny(change.path, scope.protectedPaths, modes)
        \/ k = 6 /\ TouchesAny(change.path, scope.inputPaths, modes)
        \/ k = 7 /\ TouchesAny(change.path, scope.preparationPaths, modes)
        \/ k = 8 /\ (change.change = "deleted" \/ change.after = "absent")
        \/ k = 9 /\ \/ change.change = "created" /\ change.before # "absent"
                    \/ change.change = "modified" /\ change.before = "absent"
        \/ k = 10 /\ (change.change = "type_changed" \/ change.before \notin {"absent", change.after}
                        \/ change.after # "file")}

Classify(change, scope, modes) ==
    LET refusals == RefusalsOf(change, scope, modes)
    IN  IF refusals = {} THEN "none" ELSE ScopeReasons[CHOOSE k \in refusals : \A j \in refusals : k <= j]

-----------------------------------------------------------------------------
(* What the scope promises, against what a filesystem does: a directory    *)
(* takes two spellings of a name for one, as its kind is.                  *)

SameIn(kind, name, other) ==
    /\ SameFold(name, other)
    /\ CaseDiffers(name, other) => kind.case
    /\ FormDiffers(name, other) => kind.unicode

(* What a lookup of a name in a directory of a kind finds.                 *)
LookedUp(kind, entries, name) == {e \in entries : SameIn(kind, e.name, name)}

(* The probe of a directory of a kind, which holds no name twice.          *)
Holds(kind, entries) == \A e, f \in entries : SameIn(kind, e.name, f.name) => e = f
ProbeOf(directory, kind, entries, spellings) ==
    DirectoryModes(directory, entries, [n \in spellings |-> LookedUp(kind, entries, n)])

(* One path names the other or a place in it, or the other way round, when *)
(* the directories on the way are of these kinds.                          *)
NamesWithin(path, boundary, kinds) ==
    \A i \in 1..Len(path) : i <= Len(boundary) => SameIn(kinds[i], path[i], boundary[i])

Reserved(scope) ==
    scope.dependencyMounts \cup scope.protectedPaths \cup scope.inputPaths \cup scope.preparationPaths

(* An allowed change creates a file that was absent or modifies one that is*)
(* there, in no reserved place, and every such change is allowed           *)
(* (file-scope.mjs 134-158).                                               *)
AllowedIsOrdinary(change, scope, modes) ==
    Classify(change, scope, modes) = "none"
      <=> /\ change.path # <<>> /\ ~IsInternal(change.path) /\ ~IsSecret(change.path)
          /\ \A boundary \in Reserved(scope) : ~Touches(change.path, boundary, modes)
          /\ change.after = "file"
          /\ \/ change.change = "created" /\ change.before = "absent"
             \/ change.change = "modified" /\ change.before = "file"
=============================================================================

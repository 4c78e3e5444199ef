------------------------- MODULE MCControllerStore -------------------------
(* Invocations, runs and contents for ControllerStore.  The first run      *)
(* changes two files; the second is a revision of it in one.               *)
EXTENDS ControllerStore, TLC

CONSTANTS a, b, c, d, f, g, first, revision, start

MCInitial == f :> start @@ g :> start
MCBefore  == first :> (f :> start @@ g :> start) @@ revision :> (g :> "first")
MCAfter   == first :> (f :> "first" @@ g :> "first") @@ revision :> (g :> "revised")
MCRun     == a :> first @@ b :> first @@ c :> revision @@ d :> None

(* Either an apply and its retry, or an apply, the apply of its revision   *)
(* and an operation of the record.                                         *)
Started == {p \in Procs : pc[p] # "idle"}
MCNext  == Next /\ (Started' \subseteq {a, b} \/ Started' \subseteq {a, c, d})
MCSpec  == Init /\ [][MCNext]_vars
=============================================================================

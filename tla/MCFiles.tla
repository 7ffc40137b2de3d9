------------------------------- MODULE MCFiles -------------------------------
(***************************************************************************)
(* Model checking instance of FileContent and FileTree.  The content of a  *)
(* file and the tree share no state, so a behaviour checks one of them and *)
(* leaves the other as it was: part says which.                            *)
(*                                                                         *)
(* One file that two opened; a tree of a root, two more objects, two       *)
(* names, an opened object, and a buffer na0 with na, a NUL and more.      *)
(***************************************************************************)
EXTENDS FileContent, TLC

CONSTANTS na, nb, na0, root, n1, n2, None, Dangling, MaxHeld

VARIABLES part, node, opened, failed

treeVars == <<node, opened, failed>>

MCOpened == {1, 2}
MCByte == {0, 7}
MCStatic == {<<>>, <<7, 7, 7>>}

MCNode == {root, n1, n2}
MCName == {na, nb, na0, "", ".", ".."}
MCText == [c \in MCName |-> IF c = na0 THEN na ELSE c]
MCPaths == {<<>>, <<"">>, <<na>>, <<nb>>, <<na0>>, <<na, nb>>, <<"..", na>>, <<na, "..">>,
            <<na, "..", nb>>}
MCArchive == <<<<na>>>>

T == INSTANCE FileTree WITH
    Node <- MCNode, Root <- root, Name <- MCName, Text <- MCText, Opened <- {1},
    Paths <- MCPaths, Archive <- MCArchive

ASSUME Assumptions == T!FileTreeAssumption

MCInit ==
    /\ part \in {"content", "tree"}
    /\ Init /\ T!Init
    /\ part # "content" => isHeap

MCNext ==
    /\ UNCHANGED part
    /\ \/ part = "content" /\ Next /\ UNCHANGED treeVars
       \/ part = "tree" /\ T!Next /\ UNCHANGED vars

MCSpec == MCInit /\ [][MCNext]_<<part, vars, treeVars>>

\* A state without the name of the root: the root is in no directory, so that no
\* call that changes the state and no property reads it.
Observed ==
    <<part, vars, opened, failed,
      [n \in MCNode |-> IF n = root THEN [node[n] EXCEPT !.name = None, !.cut = FALSE]
                        ELSE node[n]]>>

\* Two of the objects are interchangeable.
MCSymmetry == Permutations({n1, n2})

-----------------------------------------------------------------------------
(* The properties of the tree, stated in its module.                        *)

\* The objects form a tree in which every path names one object at most, up to
\* names with a NUL in them, and an object is kept exactly as long as somebody
\* refers to it, up to drift.
TreeKept == part = "tree" => T!StructureSound /\ T!ObjectsKept
====

--------------------------- MODULE MC_PathUtils ---------------------------
(***************************************************************************)
(* Checks the path functions of PathUtils over every path of at most      *)
(* MaxLen characters of Alphabet.  The state holds the inputs of one call *)
(* (a path and an absolute base directory); each step picks new inputs.   *)
(***************************************************************************)
EXTENDS PathUtils

CONSTANTS Alphabet,     \* characters paths are made of; contains "/" and "."
          MaxLen,       \* longest path checked
          MaxBaseLen,   \* longest base directory checked
          MaxViaLen     \* longest third directory of the triangle inequality

VARIABLES path, base

vars == <<path, base>>

Paths    == UNION {[1 .. n -> Alphabet] : n \in 1 .. MaxLen}
AbsPaths == {p \in Paths : IsAbsolute(p)}
Bases    == {b \in UNION {[1 .. n -> Alphabet] : n \in 1 .. MaxBaseLen} :
                 IsAbsolute(b)}
Vias     == {c \in Bases : Len(c) <= MaxViaLen}

Init == path \in Paths /\ base \in Bases

\* A caller passes a new path.
NewPath == \E p \in Paths : path' = p /\ UNCHANGED base

\* A caller passes a new base directory.
NewBase == \E b \in Bases : base' = b /\ UNCHANGED path

Next == NewPath \/ NewBase

Spec == Init /\ [][Next]_vars

(* tc_get_path_components, the left-to-right stack that applies "." and  *)
(* ".." lexically, yields the same components as the right-to-left        *)
(* reference resolution, for relative paths (leading ".." kept) and       *)
(* absolute ones (".." at the root dropped).                              *)
ComponentsMatchReference ==
    tc_get_path_components(path) = ReferenceComponents(path)

(* tc_path_normalize_s yields a fixed point of itself that names the same *)
(* file: same components and same absoluteness as the input.              *)
NormalizeIsCanonical ==
    LET n == tc_path_normalize_s(path)
    IN  /\ tc_path_normalize_s(n) = n
        /\ tc_get_path_components(n) = tc_get_path_components(path)
        /\ IsAbsolute(n) = IsAbsolute(path)

(* The path tc_path_rebase_s returns, walked from base (joined to it with *)
(* tc_path_join when relative), leads to the same file as path.           *)
RebaseReachesPath ==
    IsAbsolute(path) =>
        WalkFrom(base, tc_path_rebase_s(base, path)) = tc_path_normalize_s(path)

(* tc_path_distance_s between absolute paths is a metric on the directory *)
(* tree: zero from a path to itself, symmetric, and obeys the triangle    *)
(* inequality through any third directory.                                *)
DistanceIsTreeMetric ==
    IsAbsolute(path) =>
        /\ tc_path_distance_s(path, path) = 0
        /\ tc_path_distance_s(path, base) = tc_path_distance_s(base, path)
        /\ \A c \in Vias :
              tc_path_distance_s(path, base)
                <= tc_path_distance_s(path, c) + tc_path_distance_s(c, base)

(* tc_path_normalize may be given the same memory as path and buf       *)
(* (path_utils.h), and tc_path_join_s and tc_path_append normalize the   *)
(* joined path in the buffer that holds it: the component slices point   *)
(* into the bytes the output overwrites.  Still no component is          *)
(* overwritten before it is copied, and the buffer ends up holding the    *)
(* normalized path, for a path alone and for a join in either order.     *)
JoinInPlaceIsNormalized ==
    /\ NormalizeInPlace(path) = tc_path_normalize_s(path)
    /\ \A <<p1, p2>> \in {<<base, path>>, <<path, base>>} :
        tc_path_join_s(p1, p2)
            = tc_path_normalize_s(tc_path_append_impl(tc_path_append_impl(<<>>, p1), p2))

(* path_utils.h: tc_path_rebase makes path relative to base only when the *)
(* distance between them is smaller than the depth of path (its distance  *)
(* from "/"), and leaves it absolute otherwise; a relative result walks   *)
(* up and down exactly that distance.                                     *)
RebaseOnlyWhenShorter ==
    IsAbsolute(path) =>
        LET r == tc_path_rebase_s(base, path)
            d == tc_path_distance_s(base, path)
        IN  /\ IsAbsolute(r) <=> d >= tc_path_depth_s(path)
            /\ ~IsAbsolute(r) => Len(tc_get_path_components(r)) = d
=============================================================================

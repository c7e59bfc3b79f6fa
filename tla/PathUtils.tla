----------------------------- MODULE PathUtils -----------------------------
(***************************************************************************)
(* The pure path functions of src/tc_client/util/path_utils.cpp.          *)
(*                                                                         *)
(* A path is the byte string the code scans, as a sequence of one-        *)
(* character strings; a component (a util::Slice) is a sub-sequence of it. *)
(* Buffer capacities are not modelled: every buffer is large enough.      *)
(***************************************************************************)
EXTENDS Naturals, Sequences, SequencesExt

CONSTANT TC_PATH_MAX    \* the code's 4096; strnlen(path) >= TC_PATH_MAX is rejected

Slash  == "/"
Dot    == <<".">>
DotDot == <<".", ".">>

\* Outcome of tc_path_normalize_s on an empty slice: assert(!path.empty()).
AssertionFailure == "assert(!path.empty())"

\* Outcome of tc_path_distance_s from a relative src to an absolute dst.
SrcAssertionFailure == "assert(src.data[0] == '/')"

IsAbsolute(path) == Len(path) > 0 /\ path[1] = Slash

\* Slice::trim('/'): strip the separators at both ends.
RECURSIVE TrimLeft(_)
TrimLeft(s) == IF s # <<>> /\ Head(s) = Slash THEN TrimLeft(Tail(s)) ELSE s
Trim(s) == Reverse(TrimLeft(Reverse(TrimLeft(s))))

\* A util::Slice of path: its first position and its length.
Content(path, sl) == SubSeq(path, sl.pos, sl.pos + sl.len - 1)

\* The slices [beg, end) the scanning loop cuts at every '/' of t, a part
\* of the path that starts after its first off characters.
RECURSIVE SplitAtSlash(_, _)
SplitAtSlash(t, off) ==
    LET i == SelectInSeq(t, LAMBDA ch : ch = Slash)
    IN  IF i = 0 THEN <<[pos |-> off + 1, len |-> Len(t)]>>
        ELSE <<[pos |-> off + 1, len |-> i - 1]>>
             \o SplitAtSlash(SubSeq(t, i + 1, Len(t)), off + i)

Segments(t, off) == IF t = <<>> THEN <<>> ELSE SplitAtSlash(t, off)

\* Mutant: ".." always pops the previous component, even a kept "..".
PushComponentAlwaysPop(path, components, sl) ==
    LET comp == Content(path, sl) IN
    CASE comp = DotDot /\ components = <<>> ->
            IF IsAbsolute(path) THEN components ELSE Append(components, sl)
      [] comp = DotDot -> Front(components)
      [] comp \notin {<<>>, <<Slash>>, Dot} -> Append(components, sl)
      [] OTHER -> components

\* One iteration of the loop body of tc_get_path_components: the vector
\* holds slices of path, compared by content.
PushComponent(path, components, sl) ==
    LET comp == Content(path, sl) IN
    CASE comp = DotDot /\ components = <<>> ->
            IF IsAbsolute(path) THEN components ELSE Append(components, sl)
      [] comp = DotDot ->
            IF Content(path, Last(components)) # DotDot THEN Front(components)
            ELSE Append(components, sl)
      [] comp \notin {<<>>, <<Slash>>, Dot} -> Append(components, sl)
      [] OTHER -> components

\* The vector<Slice> tc_get_path_components returns.
tc_get_path_slices(path) ==
    FoldLeft(LAMBDA cs, sl : PushComponent(path, cs, sl), <<>>,
             Segments(Trim(path), Len(path) - Len(TrimLeft(path))))

\* The same components, as the strings they point to.
tc_get_path_components(path) ==
    LET S == tc_get_path_slices(path) IN [i \in DOMAIN S |-> Content(path, S[i])]

\* Components separated by '/', as the output loops of normalize and rebase.
RECURSIVE JoinComponents(_)
JoinComponents(cs) ==
    IF Len(cs) <= 1 THEN FlattenSeq(cs)
    ELSE Head(cs) \o <<Slash>> \o JoinComponents(Tail(cs))

tc_path_tokenize(path) ==
    IF Len(path) >= TC_PATH_MAX THEN -1 ELSE Len(tc_get_path_components(path))

\* The branch for a single "/" component is dead: "/" is never kept.
tc_path_depth_s(path) == Len(tc_get_path_components(path))

\* The length l of the common prefix of two component lists.
CommonPrefixLength(s, d) ==
    CHOOSE l \in 0 .. Len(s) :
        /\ l <= Len(d)
        /\ SubSeq(s, 1, l) = SubSeq(d, 1, l)
        /\ l = Len(s) \/ l = Len(d) \/ s[l + 1] # d[l + 1]

\* Mutant: the common prefix is not subtracted from the source side.
tc_path_distance_s_NoSrcPrefix(src, dst) ==
    LET s == tc_get_path_components(src)
        d == tc_get_path_components(dst)
        l == CommonPrefixLength(s, d)
    IN  CASE ~IsAbsolute(dst) -> Len(d)
          [] ~IsAbsolute(src) -> SrcAssertionFailure
          [] OTHER            -> Len(s) + Len(d) - l

\* Over absolute paths; the code's special case of a single "/" component
\* is dead, as in tc_path_depth_s.
tc_path_distance_s(src, dst) ==
    LET s == tc_get_path_components(src)
        d == tc_get_path_components(dst)
        l == CommonPrefixLength(s, d)
    IN  CASE ~IsAbsolute(dst) -> Len(d)
          [] ~IsAbsolute(src) -> SrcAssertionFailure
          [] OTHER            -> Len(s) - l + Len(d) - l

\* Append comp to the buffer, with a '/' unless the buffer is empty.
tc_path_append_impl(buf, comp) ==
    CASE comp = <<>> -> buf
      [] buf = <<>>  -> comp
      [] OTHER       -> buf \o <<Slash>> \o comp

\* Mutant: an empty component list of an absolute path yields ".".
tc_path_normalize_s_DotForRoot(path) ==
    IF path = <<>> THEN AssertionFailure
    ELSE LET cs == tc_get_path_components(path)
         IN  IF cs = <<>> THEN Dot
             ELSE (IF IsAbsolute(path) THEN <<Slash>> ELSE <<>>) \o JoinComponents(cs)

tc_path_normalize_s(path) ==
    IF path = <<>> THEN AssertionFailure
    ELSE LET cs == tc_get_path_components(path)
         IN  IF cs = <<>> THEN (IF IsAbsolute(path) THEN <<Slash>> ELSE Dot)
             ELSE (IF IsAbsolute(path) THEN <<Slash>> ELSE <<>>) \o JoinComponents(cs)

\* The public wrapper: -1 for an over-long path, else the normalized path.
tc_path_normalize(path) ==
    IF Len(path) >= TC_PATH_MAX THEN -1 ELSE tc_path_normalize_s(path)

(* The buffer as tc_path_normalize_s writes it when path and buf are the *)
(* same memory: b holds the bytes, out is where the next byte goes.      *)
\* buf_append_char.
AppendChar(st, ch) == [b |-> [st.b EXCEPT ![st.out] = ch], out |-> st.out + 1]

\* Mutant: the slice is copied one byte at a time from its last byte, as
\* a memcpy of overlapping memory may.
CopySliceFromEnd(b, sl, at) ==
    FoldLeft(LAMBDA bb, k : [bb EXCEPT ![at + k] = bb[sl.pos + k]], b,
             [i \in 1 .. sl.len |-> sl.len - i])

\* buf_append_slice(pbuf, components[i]): the bytes the slice points to, as
\* the buffer holds them now, are written from position at.
CopySlice(b, sl, at) ==
    [i \in DOMAIN b |-> IF at <= i /\ i < at + sl.len THEN b[sl.pos + i - at]
                        ELSE b[i]]

AppendSlice(st, sl) == [b |-> CopySlice(st.b, sl, st.out), out |-> st.out + sl.len]

(* tc_path_normalize(asstr(pbuf), pbuf->data, ...): the components are    *)
(* slices of the buffer, and the output loop overwrites the buffer from   *)
(* its first byte while later components are still to be copied.          *)
NormalizeInPlace(path) ==
    LET S   == tc_get_path_slices(path)
        st0 == [b |-> path, out |-> 1]
        abs == IF IsAbsolute(path) THEN AppendChar(st0, Slash) ELSE st0
        st  == IF S = <<>>
               THEN AppendChar(st0, IF IsAbsolute(path) THEN Slash ELSE ".")
               ELSE FoldLeft(LAMBDA x, i :
                               AppendSlice(IF i > 1 THEN AppendChar(x, Slash) ELSE x,
                                           S[i]),
                             abs, [i \in 1 .. Len(S) |-> i])
    IN  CASE path = <<>>            -> AssertionFailure
          [] Len(path) >= TC_PATH_MAX -> -1
          [] OTHER                  -> SubSeq(st.b, 1, st.out - 1)

\* tc_path_join_s: both paths appended to an empty buffer, then normalized
\* in place; tc_path_join rejects an over-long argument first.
tc_path_join_s(path1, path2) ==
    NormalizeInPlace(tc_path_append_impl(tc_path_append_impl(<<>>, path1), path2))

tc_path_join(path1, path2) ==
    IF Len(path1) >= TC_PATH_MAX \/ Len(path2) >= TC_PATH_MAX THEN -1
    ELSE tc_path_join_s(path1, path2)

\* tc_path_append: comp appended to the path held in the buffer, normalized
\* in place.
tc_path_append(buf, comp) == NormalizeInPlace(tc_path_append_impl(buf, comp))

\* Mutant: one ".." too few for the part of base below the common prefix.
tc_path_rebase_s_OneUpTooFew(base, path) ==
    LET b    == tc_get_path_components(base)
        p    == tc_get_path_components(path)
        l    == CommonPrefixLength(b, p)
        dist == Len(b) - l + Len(p) - l
        rel  == [i \in 1 .. Len(b) - l - 1 |-> DotDot] \o SubSeq(p, l + 1, Len(p))
    IN  CASE dist >= Len(p) -> path
          [] rel = <<>>     -> Dot
          [] OTHER          -> JoinComponents(rel)

\* Mutant: path is rebased also when the relative path is as long.
tc_path_rebase_s_RebaseOnTie(base, path) ==
    LET b    == tc_get_path_components(base)
        p    == tc_get_path_components(path)
        l    == CommonPrefixLength(b, p)
        dist == Len(b) - l + Len(p) - l
        rel  == [i \in 1 .. Len(b) - l |-> DotDot] \o SubSeq(p, l + 1, Len(p))
    IN  CASE dist > Len(p) -> path
          [] rel = <<>>    -> Dot
          [] OTHER         -> JoinComponents(rel)

\* path relative to base when that takes fewer components, else path as is.
tc_path_rebase_s(base, path) ==
    LET b    == tc_get_path_components(base)
        p    == tc_get_path_components(path)
        l    == CommonPrefixLength(b, p)
        dist == Len(b) - l + Len(p) - l
        rel  == [i \in 1 .. Len(b) - l |-> DotDot] \o SubSeq(p, l + 1, Len(p))
    IN  CASE dist >= Len(p) -> path
          [] rel = <<>>     -> Dot
          [] OTHER          -> JoinComponents(rel)

-----------------------------------------------------------------------------
(***************************************************************************)
(* Reference definition of lexical resolution, independent of the code's  *)
(* left-to-right stack: scan the segments right to left, counting the     *)
(* ".." still to be applied and skipping a name for each one; what is     *)
(* left over becomes leading ".." of a relative path and vanishes at the  *)
(* root of an absolute one.                                               *)
(***************************************************************************)
RECURSIVE Resolve(_, _)
Resolve(segs, pending) ==
    IF segs = <<>> THEN [i \in 1 .. pending |-> DotDot]
    ELSE LET c == Last(segs) IN
         CASE c \in {<<>>, Dot} -> Resolve(Front(segs), pending)
           [] c = DotDot        -> Resolve(Front(segs), pending + 1)
           [] pending > 0       -> Resolve(Front(segs), pending - 1)
           [] OTHER             -> Append(Resolve(Front(segs), 0), c)

\* Every segment of the raw path, '/'-separated, without trimming.
RawSegments(path) ==
    LET S == SplitAtSlash(path, 0) IN [i \in DOMAIN S |-> Content(path, S[i])]

ReferenceComponents(path) ==
    LET r == Resolve(RawSegments(path), 0)
    IN  IF IsAbsolute(path) THEN SelectSeq(r, LAMBDA c : c # DotDot) ELSE r

\* Where walking from directory base along r leads, as a normalized path.
WalkFrom(base, r) ==
    IF IsAbsolute(r) THEN tc_path_normalize_s(r) ELSE tc_path_join_s(base, r)
=============================================================================

------------------------------ MODULE AttrsTest ------------------------------
(***************************************************************************)
(* The set/get attributes tests AttrsTestPath and AttrsTestFileDesc of    *)
(* src/tc_client/tc/tc_test.cpp and the helpers they use: set_tc_attrs    *)
(* builds count attribute records with fixed values, tc_setattrsv writes  *)
(* them, set_attr_masks prepares zeroed records with the same masks,      *)
(* tc_getattrsv reads them back and compare decides whether the test      *)
(* passes.  The library under test is the environment: each of its calls  *)
(* may fail part way, and it may get one attribute wrong, which is what   *)
(* the test exists to catch.                                              *)
(***************************************************************************)
EXTENDS Integers, Bitwise

CONSTANTS Now,     \* what time(NULL) returns during the test
          Count,   \* count: the number of files
          IsPath,  \* isPath: files named by path (else opened descriptors)
          NULL     \* the null pointer

ASSUME Count \in 1 .. 3

VARIABLES pc,           \* the statement the test is at
          write_attrs,  \* write_attrs: the records set_tc_attrs returned
          server,       \* the attributes the server holds for each file
          read_attrs,   \* read_attrs: the records tc_getattrsv filled
          openFds,      \* descriptors set_tc_attrs opened and left open
          failures      \* the EXPECT_* checks that failed

vars == <<pc, write_attrs, server, read_attrs, openFds, failures>>

Files == 1 .. Count
AttrFields == {"mode", "size", "uid", "gid", "atime", "mtime",
               "rdev", "nlink", "ctime"}

\* S_IRUSR | S_IRGRP | S_IROTH, S_IRWXU | S_IRGRP | S_IXGRP | S_IROTH, S_IRWXU
ModeTab  == <<256 + 32 + 4, 448 + 32 + 8 + 4, 448>>
SizeTab  == <<256, 56, 125>>
UidTab   == <<2711, 456, 789>>
GidTab   == <<87, 4566, 2311>>
AtimeTab == <<Now, 1234, 567>>

\* The masks set_tc_attrs sets: rdev, nlink and ctime stay 0.
SetMasks == {"mode", "size", "atime", "mtime", "uid", "gid"}

Zero == [f \in AttrFields |-> 0]

\* The record set_tc_attrs fills for file i.
AttrsFor(i) ==
    [file  |-> i,
     attr  |-> [Zero EXCEPT !["mode"] = ModeTab[i], !["size"] = SizeTab[i],
                            !["uid"] = UidTab[i], !["gid"] = GidTab[i],
                            !["atime"] = AtimeTab[i], !["mtime"] = Now],
     masks |-> [f \in AttrFields |-> f \in SetMasks]]

\* A file left by the earlier tests: rw-r--r--, one link.
ExistingFile == [Zero EXCEPT !["mode"] = 420, !["nlink"] = 1]

Init ==
    /\ pc = "set_tc_attrs"
    /\ write_attrs = NULL
    /\ server = [i \in Files |-> ExistingFile]
    /\ read_attrs = NULL
    /\ openFds = {}
    /\ failures = {}

-----------------------------------------------------------------------------
(* set_tc_attrs(PATH, count, isPath) and EXPECT_FALSE(write_attrs ==      *)
(* NULL).  By descriptor, open(PATH[i]) may fail at any i: the array is   *)
(* freed and NULL returned, the descriptors opened before it left open.   *)
set_tc_attrs ==
    /\ pc = "set_tc_attrs"
    /\ \/ /\ write_attrs' = [i \in Files |-> AttrsFor(i)]
          /\ openFds' = IF IsPath THEN {} ELSE Files
          /\ UNCHANGED failures
       \/ /\ ~IsPath
          /\ \E bad \in Files :
                /\ write_attrs' = NULL
                /\ openFds' = 1 .. bad - 1
                /\ failures' = failures \cup {"write_attrs == NULL"}
    /\ pc' = "tc_setattrsv"
    /\ UNCHANGED <<server, read_attrs>>

\* The value the library stores or returns when it gets field f wrong.
Garbled(v) == v + 1

\* The attributes of a file after a SETATTR of record w.
Stored(old, w) == [f \in AttrFields |-> IF w.masks[f] THEN w.attr[f] ELSE old[f]]

(* tc_setattrsv(write_attrs, count, false); EXPECT_TRUE(res.okay).  The   *)
(* files 1 .. done are set, in order; if done < count the call failed.    *)
(* At most one stored attribute may be wrong.  A NULL array is            *)
(* dereferenced.                                                          *)
tc_setattrsv ==
    /\ pc = "tc_setattrsv"
    /\ IF write_attrs = NULL
       THEN pc' = "crashed" /\ UNCHANGED <<server, failures>>
       ELSE /\ \E done \in 0 .. Count :
                LET set == [i \in Files |->
                              IF i <= done THEN Stored(server[i], write_attrs[i])
                              ELSE server[i]]
                IN  /\ \/ server' = set
                       \/ \E i \in 1 .. done, f \in AttrFields :
                             /\ write_attrs[i].masks[f]
                             /\ server' = [set EXCEPT ![i][f] = Garbled(@)]
                    /\ failures' = IF done < Count
                                   THEN failures \cup {"setattrs okay"}
                                   ELSE failures
            /\ pc' = "set_attr_masks"
    /\ UNCHANGED <<write_attrs, read_attrs, openFds>>

(* read_attrs = calloc(count); set_attr_masks(write_attrs, read_attrs,    *)
(* count) copies the file and the nine masks of each record.              *)
set_attr_masks ==
    /\ pc = "set_attr_masks"
    /\ read_attrs' = [i \in Files |->
                        [file |-> write_attrs[i].file, attr |-> Zero,
                         masks |-> write_attrs[i].masks]]
    /\ pc' = "tc_getattrsv"
    /\ UNCHANGED <<write_attrs, server, openFds, failures>>

(* tc_getattrsv(read_attrs, count, false); EXPECT_TRUE(res.okay): the     *)
(* masked fields of files 1 .. done are filled from the server, the rest  *)
(* stay zero; at most one returned attribute may be wrong.                *)
tc_getattrsv ==
    /\ pc = "tc_getattrsv"
    /\ \E done \in 0 .. Count :
          LET got == [i \in Files |->
                        [read_attrs[i] EXCEPT !.attr =
                           IF i <= done
                           THEN [f \in AttrFields |->
                                   IF read_attrs[i].masks[f]
                                   THEN server[i][f] ELSE 0]
                           ELSE @]]
          IN  /\ \/ read_attrs' = got
                 \/ \E i \in 1 .. done, f \in AttrFields :
                       /\ read_attrs[i].masks[f]
                       /\ read_attrs' = [got EXCEPT ![i].attr[f] = Garbled(@)]
              /\ failures' = IF done < Count
                             THEN failures \cup {"getattrs okay"} ELSE failures
    /\ pc' = "compare"
    /\ UNCHANGED <<write_attrs, server, openFds>>

(* compare's test of field f: `!written->mode & read->mode` for the mode  *)
(* (! binds first, so it is (written mode = 0) & read mode), inequality   *)
(* (or memcmp) for rdev, nlink, uid, gid, atime and mtime.  Size and      *)
(* ctime are not compared.                                                *)
FieldMismatch(f, w, r) ==
    CASE f = "mode" -> ((IF w.attr["mode"] = 0 THEN 1 ELSE 0) & r.attr["mode"]) # 0
      [] f \in {"rdev", "nlink", "uid", "gid", "atime", "mtime"} ->
            w.attr[f] # r.attr[f]
      [] OTHER -> FALSE

\* compare(usr, check, count): false at the first masked field that differs.
compare(usr, check, n) ==
    \A i \in 1 .. n, f \in AttrFields :
        usr[i].masks[f] => ~FieldMismatch(f, usr[i], check[i])

(* EXPECT_TRUE(compare(write_attrs, read_attrs, count)); then the         *)
(* descriptors are closed (by descriptor) and both arrays freed.          *)
CompareStep ==
    /\ pc = "compare"
    /\ failures' = IF compare(write_attrs, read_attrs, Count) THEN failures
                   ELSE failures \cup {"compare"}
    /\ openFds' = {}
    /\ pc' = "done"
    /\ UNCHANGED <<write_attrs, server, read_attrs>>

Next == set_tc_attrs \/ tc_setattrsv \/ set_attr_masks \/ tc_getattrsv
        \/ CompareStep

Spec == Init /\ [][Next]_vars

-----------------------------------------------------------------------------
(* The test passes (no EXPECT fails) only if every attribute it set reads *)
(* back as written: a library that stores or returns a wrong mode, size,  *)
(* uid, gid or time is caught by AttrsTestPath / AttrsTestFileDesc.       *)
PassMeansRoundTrip ==
    pc = "done" /\ failures = {} =>
        \A i \in Files, f \in AttrFields :
            write_attrs[i].masks[f] => write_attrs[i].attr[f] = read_attrs[i].attr[f]
=============================================================================

---------------------------- MODULE SecnfsHandle ----------------------------
(***************************************************************************)
(* The object-handle methods of the stackable SECNFS FSAL,                *)
(* src/src/FSAL/Stackable_FSALs/FSAL_SECNFS/handle.c.  Every SECNFS       *)
(* handle wraps one handle of the next FSAL layer (next_handle); a method *)
(* calls the next layer and, when it yields a new next handle, wraps it   *)
(* with make_handle_from_next.                                            *)
(*                                                                         *)
(* Handles are identities from two pools; a pool running dry is an        *)
(* allocation failure.  The next layer is an environment whose calls may  *)
(* fail.  The server's attributes of the object behind a next handle may  *)
(* change through other clients.  Undefined behaviour of the code (an     *)
(* uninitialized pointer or status) is a choice over what the build can   *)
(* produce.                                                               *)
(***************************************************************************)
EXTENDS Naturals, FiniteSets

CONSTANTS SecIds,        \* memory for secnfs_fsal_obj_handle objects
          NextIds,       \* memory for next-layer handles
          RootSec,       \* the export's root handle, held for good
          RootNext,      \* the next-layer handle the root wraps
          Garbage,       \* an uninitialized next_hdl pointer
          MaxAttr,       \* attribute versions are 0 .. MaxAttr
          MkdirMayFail   \* whether the next layer's mkdir may fail

AllSec  == SecIds \cup {RootSec}
AllNext == NextIds \cup {RootNext}
Attrs   == 0 .. MaxAttr

VARIABLES secState,   \* secnfs handle memory: "free" or "live"
          wraps,      \* secnfs handle -> its next_handle
          secAttr,    \* obj_handle.attributes of the secnfs handle
          held,       \* secnfs handles the caller (cache_inode) received
          nextState,  \* next-layer handle: "free" or "live"
          nextAttr,   \* attributes cached in the next-layer handle
          serverAttr, \* attributes on the server of each next handle's object
          nextArgs    \* object handles the last step passed to the next layer

hdlVars == <<secState, wraps, secAttr, held, nextState, nextAttr, serverAttr>>
vars == <<hdlVars, nextArgs>>

Init ==
    /\ secState = [s \in AllSec |-> IF s = RootSec THEN "live" ELSE "free"]
    /\ wraps = [s \in AllSec |-> RootNext]
    /\ secAttr = [s \in AllSec |-> 0]
    /\ held = {RootSec}
    /\ nextState = [n \in AllNext |-> IF n = RootNext THEN "live" ELSE "free"]
    /\ nextAttr = [n \in AllNext |-> 0]
    /\ serverAttr = [n \in AllNext |-> 0]
    /\ nextArgs = {}

-----------------------------------------------------------------------------
\* The attributes alloc_handle copies from next_hdl: those cached in it, or
\* anything for an uninitialized pointer.
AttrsOf(n) == IF n = Garbage THEN Attrs ELSE {nextAttr'[n]}

\* next_hdl's memory marked st, every other next handle unchanged.
NextMarked(n, st) == [m \in AllNext |-> IF m = n THEN st ELSE nextState[m]]

\* Mutant: on allocation failure next_hdl is not released.
MakeHandleFromNextNoRelease(n, toCaller) ==
    \/ /\ \A s \in SecIds : secState[s] # "free"
       /\ nextState' = NextMarked(n, "live")
       /\ UNCHANGED <<secState, wraps, secAttr, held>>
    \/ \E s \in SecIds, a \in AttrsOf(n) :
          /\ secState[s] = "free"
          /\ secState' = [secState EXCEPT ![s] = "live"]
          /\ wraps' = [wraps EXCEPT ![s] = n]
          /\ secAttr' = [secAttr EXCEPT ![s] = a]
          /\ held' = IF toCaller THEN held \cup {s} ELSE held
          /\ nextState' = NextMarked(n, "live")

(* make_handle_from_next: alloc_handle copies next_hdl->attributes into a *)
(* new secnfs handle wrapping next_hdl; when allocation fails, next_hdl   *)
(* is released and ENOMEM returned.  toCaller: the method returns the new *)
(* handle to the caller with a success status.                            *)
MakeHandleFromNext(n, toCaller) ==
    \/ /\ \A s \in SecIds : secState[s] # "free"
       /\ nextState' = NextMarked(n, "free")
       /\ UNCHANGED <<secState, wraps, secAttr, held>>
    \/ \E s \in SecIds, a \in AttrsOf(n) :
          /\ secState[s] = "free"
          /\ secState' = [secState EXCEPT ![s] = "live"]
          /\ wraps' = [wraps EXCEPT ![s] = n]
          /\ secAttr' = [secAttr EXCEPT ![s] = a]
          /\ held' = IF toCaller THEN held \cup {s} ELSE held
          /\ nextState' = NextMarked(n, "live")

\* The next layer's lookup/create/mkdir/... succeeds with a fresh handle n,
\* its attributes read from the server, and make_handle_from_next wraps it.
WrapNew(n, toCaller) ==
    /\ nextState[n] = "free"
    /\ nextAttr' = [nextAttr EXCEPT ![n] = serverAttr[n]]
    /\ MakeHandleFromNext(n, toCaller)
    /\ UNCHANGED serverAttr

\* The caller passes a handle it holds as parent or object.
Usable(h) == h \in held /\ secState[h] = "live"

(* The shape of lookup, makenode, makesymlink, secnfs_lookup_path and    *)
(* secnfs_create_handle: call the next layer, return its error unchanged, *)
(* or wrap the handle it yields and return that.                          *)
NextYieldsHandle ==
    \/ UNCHANGED hdlVars
    \/ \E n \in NextIds : WrapNew(n, TRUE)

\* The method calls the next layer with the object handles hs.
Passes(hs) == nextArgs' = hs

lookup(parent) ==
    Usable(parent) /\ Passes({wraps[parent]}) /\ NextYieldsHandle

makenode(dir_hdl) ==
    Usable(dir_hdl) /\ Passes({wraps[dir_hdl]}) /\ NextYieldsHandle

makesymlink(dir_hdl) ==
    Usable(dir_hdl) /\ Passes({wraps[dir_hdl]}) /\ NextYieldsHandle

\* The export methods take no parent handle.
secnfs_lookup_path == Passes({}) /\ NextYieldsHandle

secnfs_create_handle == Passes({}) /\ NextYieldsHandle

(* create: as lookup, then the status of write_keyfile is returned, and   *)
(* write_keyfile returns its uninitialized local st: a success or an      *)
(* error, whatever the stack holds.                                       *)
create(dir_hdl) ==
    /\ Usable(dir_hdl)
    /\ Passes({wraps[dir_hdl]})
    /\ \/ UNCHANGED hdlVars
       \/ \E n \in NextIds, keyfileOk \in BOOLEAN : WrapNew(n, keyfileOk)

(* makedir: the status of the next layer's mkdir is never tested, so on   *)
(* failure make_handle_from_next wraps the uninitialized next_hdl.        *)
makedir(dir_hdl) ==
    /\ Usable(dir_hdl)
    /\ Passes({wraps[dir_hdl]})
    /\ \/ \E n \in NextIds : WrapNew(n, TRUE)
       \/ /\ MkdirMayFail
          /\ \E g \in AllNext \cup {Garbage} :
                /\ nextAttr' = nextAttr
                /\ MakeHandleFromNext(g, TRUE)
                /\ UNCHANGED serverAttr

\* Mutant: the next handle is released even when the handle is busy.
releaseIgnoringBusy(obj_hdl) ==
    /\ Usable(obj_hdl) /\ obj_hdl # RootSec
    /\ Passes({wraps[obj_hdl]})
    /\ \/ /\ nextState' = NextMarked(wraps[obj_hdl], "free")
          /\ UNCHANGED <<secState, wraps, secAttr, held, nextAttr, serverAttr>>
       \/ /\ secState' = [secState EXCEPT ![obj_hdl] = "free"]
          /\ held' = held \ {obj_hdl}
          /\ nextState' = NextMarked(wraps[obj_hdl], "free")
          /\ UNCHANGED <<wraps, secAttr, nextAttr, serverAttr>>

(* release: fsal_obj_handle_uninit fails on a busy handle (ERR_FSAL_DELAY *)
(* and nothing is freed); otherwise the secnfs handle is freed and then   *)
(* its next handle released.                                              *)
release(obj_hdl) ==
    /\ Usable(obj_hdl) /\ obj_hdl # RootSec
    /\ \/ Passes({}) /\ UNCHANGED hdlVars
       \/ /\ Passes({wraps[obj_hdl]})
          /\ secState' = [secState EXCEPT ![obj_hdl] = "free"]
          /\ held' = held \ {obj_hdl}
          /\ nextState' = NextMarked(wraps[obj_hdl], "free")
          /\ UNCHANGED <<wraps, secAttr, nextAttr, serverAttr>>

(* getattrs: the next layer refreshes next_hdl->attributes from the       *)
(* server (or fails); obj_hdl->attributes is left as it was.  Through an  *)
(* uninitialized next_hdl the call can only be taken to fail.             *)
getattrs(obj_hdl) ==
    /\ Usable(obj_hdl)
    /\ Passes({wraps[obj_hdl]})
    /\ \/ UNCHANGED hdlVars
       \/ /\ wraps[obj_hdl] \in AllNext
          /\ nextAttr' = [nextAttr EXCEPT ![wraps[obj_hdl]] = serverAttr[wraps[obj_hdl]]]
          /\ UNCHANGED <<secState, wraps, secAttr, held, nextState, serverAttr>>

(* setattrs: the next layer sets the attributes on the server and in      *)
(* next_hdl; on success they are copied into obj_hdl->attributes.        *)
setattrs(obj_hdl) ==
    /\ Usable(obj_hdl)
    /\ Passes({wraps[obj_hdl]})
    /\ \/ UNCHANGED hdlVars
       \/ \E a \in Attrs :
             /\ wraps[obj_hdl] \in AllNext
             /\ serverAttr' = [serverAttr EXCEPT ![wraps[obj_hdl]] = a]
             /\ nextAttr' = [nextAttr EXCEPT ![wraps[obj_hdl]] = a]
             /\ secAttr' = [secAttr EXCEPT ![obj_hdl] = a]
             /\ UNCHANGED <<secState, wraps, held, nextState>>

(* Another client changes the attributes of a file on the server.         *)
ServerChange ==
    \E n \in AllNext :
        /\ nextState[n] = "live"
        /\ serverAttr[n] < MaxAttr
        /\ serverAttr' = [serverAttr EXCEPT ![n] = serverAttr[n] + 1]
        /\ Passes({})
        /\ UNCHANGED <<secState, wraps, secAttr, held, nextState, nextAttr>>

(* The methods that only forward to the next layer: readsymlink,          *)
(* read_dirents, file_unlink, handle_digest and handle_to_key pass        *)
(* next_handle of their one handle, renamefile of both directories.  The *)
(* directory contents they read or change are not modelled.              *)
Forward(hs) == Passes(hs) /\ UNCHANGED hdlVars

readsymlink(obj_hdl) == Usable(obj_hdl) /\ Forward({wraps[obj_hdl]})

read_dirents(dir_hdl) == Usable(dir_hdl) /\ Forward({wraps[dir_hdl]})

file_unlink(dir_hdl) == Usable(dir_hdl) /\ Forward({wraps[dir_hdl]})

handle_digest(obj_hdl) == Usable(obj_hdl) /\ Forward({wraps[obj_hdl]})

handle_to_key(obj_hdl) == Usable(obj_hdl) /\ Forward({wraps[obj_hdl]})

renamefile(olddir_hdl, newdir_hdl) ==
    /\ Usable(olddir_hdl) /\ Usable(newdir_hdl)
    /\ Forward({wraps[olddir_hdl], wraps[newdir_hdl]})

(* linkfile: next_handle(obj_hdl) is passed, but destdir_hdl, the SECNFS  *)
(* handle of the target directory, is passed to the next layer's link as *)
(* it is.                                                                 *)
linkfile(obj_hdl, destdir_hdl) ==
    /\ Usable(obj_hdl) /\ Usable(destdir_hdl)
    /\ Forward({wraps[obj_hdl], destdir_hdl})

Next ==
    \/ \E h \in AllSec :
          \/ lookup(h) \/ makenode(h) \/ makesymlink(h)
          \/ create(h) \/ makedir(h)
          \/ release(h) \/ getattrs(h) \/ setattrs(h)
          \/ readsymlink(h) \/ read_dirents(h) \/ file_unlink(h)
          \/ handle_digest(h) \/ handle_to_key(h)
          \/ \E h2 \in AllSec : renamefile(h, h2) \/ linkfile(h, h2)
    \/ secnfs_lookup_path \/ secnfs_create_handle
    \/ ServerChange

Spec == Init /\ [][Next]_vars

-----------------------------------------------------------------------------
LiveSec == {s \in AllSec : secState[s] = "live"}

(* Every live SECNFS handle wraps a live next-layer handle of its own: no *)
(* next handle is released while a SECNFS handle still uses it, and no    *)
(* two SECNFS handles share one (release frees each next handle once).    *)
WrapsOwnLiveNext ==
    \A s \in LiveSec :
        /\ wraps[s] \in AllNext
        /\ nextState[wraps[s]] = "live"
        /\ \A t \in LiveSec \ {s} : wraps[t] # wraps[s]

(* No next-layer handle leaks: each live one is wrapped by a live SECNFS  *)
(* handle, through every failure path of lookup, create and makedir.      *)
NoOrphanNext ==
    \A n \in AllNext : nextState[n] = "live" => \E s \in LiveSec : wraps[s] = n

(* Every live SECNFS handle was returned to the caller with a success     *)
(* status, so the caller can release it: none is lost.                    *)
CallerHoldsEveryLiveHandle == LiveSec \subseteq held

(* The attributes a caller reads from a SECNFS handle are those its next  *)
(* handle holds, after every method returns.                              *)
HandleAttrsMatchNext ==
    \A s \in LiveSec : wraps[s] \in AllNext => secAttr[s] = nextAttr[wraps[s]]

(* The next layer is only ever handed its own object handles, each live  *)
(* when the method passes it: every SECNFS method unwraps its handles     *)
(* with next_handle before calling next_ops (handle.c).                   *)
NextLayerGetsOwnLiveHandles ==
    [][\A x \in nextArgs' : x \in AllNext /\ nextState[x] = "live"]_vars
=============================================================================

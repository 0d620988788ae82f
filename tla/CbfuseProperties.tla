-------------------------- MODULE CbfuseProperties --------------------------
(***************************************************************************)
(* What cbfuse promises, or should.  The README says which property is     *)
(* checked under which assumptions (how many mounts, crashes, faults), and *)
(* which of them the code breaks.                                          *)
(***************************************************************************)
EXTENDS Cbfuse

\* No handler is under way.
AtRest == \A m \in Mounts : pc[m] \in Rest

\* This step ends mount m's request of the given kind.
Ends(m, op) == req[m].op = op /\ pc[m] # "idle" /\ pc'[m] = "idle"

\* This step is one of mount m: every step of a handler moves its pc.
Moves(m) == pc'[m] # pc[m]

-----------------------------------------------------------------------------
(***************************************************************************)
(* StatAnchors: a stat document anchors everything stored for a path.  A   *)
(* name in a directory entry, a directory entry and a block of data each   *)
(* have the stat document of their path, of a suiting type, whatever the   *)
(* call between which a mount dies: cbfuse_create and cbfuse_mkdir insert  *)
(* the stat document first, cbfuse_unlink and cbfuse_rmdir remove it last, *)
(* so that a path left half made or half removed can be removed again.     *)
(***************************************************************************)
ListedHaveStat ==
  \A d, c \in Paths :
    Lists(d, c) => d = dirname[c] /\ c # Root /\ Exists(stats, c)

DentriesHaveStat ==
  \A p \in Paths :
    Exists(dentries, p) => Exists(stats, p) /\ stats[p].type # "reg"

BlocksHaveStat == \A p \in Paths : Exists(blocks, p) => IsReg(p)

StatAnchors == ListedHaveStat /\ DentriesHaveStat /\ BlocksHaveStat

\* add_child_to_dentry appends without looking for the name: that readdir
\* shows no name twice rests on insert_stat having failed for a path in use,
\* and on removals not forgetting the name.
NoDuplicateChildren ==
  \A d, c \in Paths : Lists(d, c) => dentries[d][c] = 1

\* Wherever an earlier process was stopped, main finds the root directory or
\* can create it: it does not end with EXIT_FAILURE.
RestartSucceeds == \A m \in Mounts : fresult[m] # "EXIT_FAILURE"

\* With nobody dying and no call failing, the tree is complete between
\* requests: each stat document but the root's is named by its parent's
\* directory entry, and each directory has a directory entry.
TreeComplete ==
  AtRest =>
    \A p \in Paths : Exists(stats, p) =>
      /\ p # Root => Lists(dirname[p], p)
      /\ IsDir(p) => Exists(dentries, p)

\* Between requests the st_size that getattr reports of a file with data is
\* the length of the block that read_data and update_block go by.
SizeMatchesBlock ==
  AtRest => \A p \in Paths : Exists(blocks, p) => stats[p].size = blocks[p]

\* A write_data that reports success left a block and an st_size that reach
\* as far as the data written.
WriteVisible ==
  [][\A m \in Mounts :
       Ends(m, "write") /\ fresult'[m] = "ok" =>
         LET p == req[m].path
         IN  /\ blocks'[p] # Absent /\ blocks'[p] >= Nupdate(req[m])
             /\ stats'[p] # Absent /\ stats'[p].size >= Nupdate(req[m])]_vars

\* What a return value of 0 vouches for, whichever calls fail, in the library or
\* at the server, carried out or not: create and mkdir have stored all of their
\* documents, chmod the permission bits, write a block that reaches the end of
\* what was written, truncate the size, and to zero it has removed the block;
\* after unlink and rmdir the stat document is gone.  It does not vouch for the
\* removals whose failure unlink and rmdir ignore, for the block of other
\* truncations, or for the size after a write (UnlinkLeavesNothing,
\* TruncateCutsBlock and WriteVisible, which failures break).
SuccessIsStored ==
  [][\A m \in Mounts :
       LET p == req[m].path
       IN  fresult'[m] = "ok" =>
             /\ Ends(m, "create") \/ Ends(m, "mkdir") =>
                  /\ stats'[p] # Absent
                  /\ dentries'[dirname[p]] # Absent
                  /\ dentries'[dirname[p]][p] > 0
             /\ Ends(m, "mkdir") => dentries'[p] # Absent
             /\ Ends(m, "unlink") \/ Ends(m, "rmdir") => stats'[p] = Absent
             /\ Ends(m, "chmod") =>
                  stats'[p] # Absent /\ stats'[p].perm = req[m].perm
             /\ Ends(m, "write") =>
                  blocks'[p] # Absent /\ blocks'[p] >= Nupdate(req[m])
             /\ Ends(m, "truncate") =>
                  /\ stats'[p] # Absent /\ stats'[p].size = req[m].off
                  /\ req[m].off = 0 => blocks'[p] = Absent]_vars

\* No update of a stat document is lost: whatever mounts share the bucket and
\* whatever calls fail, a stored document only ever changes by one mount's
\* chmod, utimens, read, write or truncate applied to the document as it
\* stands (the CAS of the update_stat functions).
KeepsStatUpdates ==
  \A p \in Paths :
    stats[p] # Absent /\ stats'[p] \notin {Absent, stats[p]} =>
      \E m \in Mounts :
        /\ pc[m] = "replace_stat"
        /\ req[m].path = p
        /\ stats'[p] = UpdatedStat(req[m], stats[p])

NoLostStatUpdate == [][KeepsStatUpdates]_vars

\* A process that starts, main and insert_root, changes no document there is,
\* even if another process creates the root directory and works in it between
\* its look-up and its inserts.
BootstrapNeverClobbers ==
  [][\A m \in Mounts :
       req[m].op = "mount" /\ Moves(m) =>
         /\ \A p \in Paths :
              /\ Exists(stats, p) => stats'[p] = stats[p]
              /\ Exists(dentries, p) => dentries'[p] = dentries[p]
         /\ blocks' = blocks]_vars

\* Every handler returns, whatever calls fail and whatever other mounts do to
\* the documents it works on: no update is retried for ever.
EveryRequestReturns ==
  \A m \in Mounts : pc[m] \notin Rest ~> pc[m] \in Rest

-----------------------------------------------------------------------------
(***************************************************************************)
(* What comments in the code say and the code does not do, and what it     *)
(* leaves undone on purpose.                                               *)
(***************************************************************************)

\* cbfuse.c:567 "VERIFY OR INSTALL ROOT DIR": once main has done so, the root
\* directory has its stat document and its directory entry.
MountedRootReady ==
  \A m \in Mounts : pc[m] = "idle" => IsDir(Root) /\ Exists(dentries, Root)

\* data.c:275-277 "Strategy here is just to truncate existing data if smaller":
\* update_block does not lengthen a block for a truncation.
TruncateNeverGrowsBlock ==
  [][\A m \in Mounts :
       req[m].op = "truncate" /\ pc[m] = "store_block" /\ Moves(m) =>
         blocks'[req[m].path] <= result[m]]_vars

\* The same comment: a truncate_data that returns 0 leaves no data past the
\* offset it was given.
TruncateCutsBlock ==
  [][\A m \in Mounts :
       Ends(m, "truncate") /\ fresult'[m] = "ok" =>
         LET left == blocks'[req[m].path]
         IN  left # Absent => left <= req[m].off]_vars

\* data.c:284 "truncating to zero is equivalent to removing all data for the
\* file": a truncate_data to zero that has no data to remove succeeds.
TruncateToZeroSucceeds ==
  [][\A m \in Mounts :
       Ends(m, "truncate") /\ pc[m] # "getattr" /\ req[m].off = 0 =>
         fresult'[m] = "ok"]_vars

\* data.c:78-80 "if a block wasn't found: ... allocate memory to store the new
\* data": the block update_block stores for a write is no shorter than the one
\* there is.
WriteKeepsBlock ==
  [][\A m \in Mounts :
       /\ req[m].op = "write" /\ pc[m] = "store_block" /\ Moves(m)
       /\ Exists(blocks, req[m].path)
       => blocks'[req[m].path] >= blocks[req[m].path]]_vars

\* data.c:276-278 (of truncate_data) "If larger ... New blocks will just be
\* allocated on future writes": the size a truncation set is not lost by the
\* next write_data.
WriteNeverShrinks ==
  [][\A m \in Mounts :
       req[m].op = "write" /\ pc[m] = "replace_stat" /\ Moves(m)
         /\ Exists(stats, req[m].path) =>
           stats'[req[m].path].size >= stats[req[m].path].size]_vars

\* What cbfuse.c:217 "others can fail silently" lets go by: when cbfuse_unlink
\* returns 0, it has made the three removals of cbfuse.c:208-214.
UnlinkLeavesNothing ==
  [][\A m \in Mounts :
       Ends(m, "unlink") /\ fresult'[m] = "ok" =>
         LET p == req[m].path
         IN  /\ stats'[p] = Absent
             /\ blocks'[p] = Absent
             /\ dentries'[dirname[p]] # Absent
                  => dentries'[dirname[p]][p] = 0]_vars

\* cbfuse.c:274 "Change the permission bits of a file": cbfuse_chmod does not
\* make a directory a regular file or the other way round.
ChmodKeepsType ==
  [][\A m \in Mounts :
       LET p == req[m].path
       IN  req[m].op = "chmod" /\ Moves(m) /\ Exists(stats, p) =>
             stats'[p].type = stats[p].type]_vars

=============================================================================

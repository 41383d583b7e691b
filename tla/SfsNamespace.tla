---------------------------- MODULE SfsNamespace ----------------------------
(***************************************************************************)
(* The operations of SFS on files: create, unlink, link and rename, with   *)
(* lookups of what the dentry cache lost, over replicas that keep their    *)
(* changes in memory until they are synced or committed, and that lose the *)
(* rest in a crash.                                                        *)
(*                                                                         *)
(* VFS holds the i_mutex of the directories, so one operation runs at a    *)
(* time; it is the sequence todo of calls into the replicas, and commits   *)
(* and crashes happen between any two of them.                             *)
(***************************************************************************)
EXTENDS SfsFiles

CONSTANTS
    SPAN_THRESHOLD,
    InitDirs,     \* the replicas that hold a directory at first
    Ops,          \* the operations applications use
    MayCommit,    \* whether a replica commits its journal by itself
    MayCrash,     \* without crashes, disk and allowed are not followed
    MayFail       \* whether calls into the replicas may fail

ASSUME NamespaceAssumption ==
    /\ SPAN_THRESHOLD \in Nat \ {0}
    /\ InitDirs \in [Dirs -> SUBSET Replicas]
    /\ Ops \subseteq {"create", "unlink", "link", "rename", "replace"}

VARIABLES
    mem, disk,   \* the replicas, in memory and on disk
    cache,       \* the ids SFS keeps in the dentry of a path
    op,          \* the operation that runs
    todo,        \* what is left of it
    ns,          \* the namespace as the applications have made it
    allowed,     \* the namespaces a crash may leave
    tangled,     \* history: a link was left on another name of its inode
    skipped,     \* history: write_inode_now has found a clean inode, and what
                 \* it was called for stayed in memory
    exposed      \* history: paths whose meta file is on disk without links,
                 \* as its replica has committed it before it got them

history == <<tangled, skipped, exposed>>
vars    == <<mem, disk, cache, op, todo, ns, allowed, history>>

Negative == [known |-> TRUE, replica |-> None, meta |-> None]
Ids(r, m) == [known |-> TRUE, replica |-> r, meta |-> m]
Idle == [kind |-> "idle", p |-> None, q |-> None, data |-> Absent,
         old |-> NoIds, new |-> NoIds]
Positive(p) == cache[p].replica # None

Empty(r) == [dirs |-> {d \in Dirs : r \in InitDirs[d]}, normal |-> {},
             file |-> [p \in Paths |-> NoFile]]

Init ==
    /\ mem = [r \in Replicas |-> Empty(r)] /\ disk = mem
    /\ cache = [p \in Paths |-> NoIds]
    /\ op = Idle /\ todo = <<>>
    /\ ns = [p \in Paths |-> Absent] /\ allowed = {ns}
    /\ tangled = FALSE /\ skipped = FALSE /\ exposed = {}

\* A rename to a path that does not exist, or to one that does.
Renames == {"rename", "replace"}

\* The namespace w after operation o.
After(o, w) ==
    CASE o.kind = "create" -> [w EXCEPT ![o.p] = o.data]
      [] o.kind = "unlink" -> [w EXCEPT ![o.p] = Absent]
      [] o.kind = "link"   -> [w EXCEPT ![o.q] = o.data]
      [] o.kind \in Renames -> [w EXCEPT ![o.q] = o.data, ![o.p] = Absent]
      [] OTHER -> w

-----------------------------------------------------------------------------
(* Normal directories (can_turn2normal, create_replica_dir).                *)

NormalDirs(d) == {r \in Replicas : d \in mem[r].normal}
Threshold     == IF SPAN_THRESHOLD > N THEN N ELSE SPAN_THRESHOLD

can_turn2normal(d, r) == r \in NormalDirs(d) \/ Cardinality(NormalDirs(d)) < Threshold

create_replica_dir(p, r, normal) ==
    (IF HasDir(mem, r, p) THEN <<>> ELSE <<MkDir(r, p)>>)
    \o (IF normal /\ r \notin NormalDirs(Parent[p]) THEN <<Mark(r, p)>> ELSE <<>>)

\* local_dispatch: a replica that is not normal yet, or one that is.
local_dispatch(d) ==
    IF Cardinality(NormalDirs(d)) < Threshold THEN Replicas \ NormalDirs(d)
    ELSE NormalDirs(d)

Done(r, m) == Step("done", r, None, m, <<>>)

-----------------------------------------------------------------------------
(* rename2non and rename2exist: p in replica r, with meta file om, becomes  *)
(* q; what is at q is in replica er, with meta file em.                     *)

\* Mutant: replica_id and meta_id are exchanged.
Cleanup_Swapped(p, r, om, m) ==
    IF om # None THEN Tried(Delete(om, p, <<>>), <<Done(m, r)>>) ELSE <<Done(m, r)>>

\* The end of both: the meta file of the source goes.
Cleanup(p, r, om, m) ==
    IF om # None THEN Tried(Delete(om, p, <<>>), <<Done(r, m)>>) ELSE <<Done(r, m)>>

rename2non_turn(p, q, r, om) ==
    (IF om # None THEN <<Put(r, p, Only("RENAME", r)), Sync(r)>> ELSE <<>>)
    \o <<Move(r, p, q, <<>>), Sync(r)>>
    \o (IF om # None THEN Tried(Put(r, q, NoLinks), Cleanup(p, r, om, None))
        ELSE Cleanup(p, r, om, None))

\* Mutant: the meta file is created behind the rename.
rename2non_meta_Late(p, q, r, om, m) ==
    <<Move(r, p, q, <<>>), Sync(r),
      CreateAt(m, q, Meta), Put(m, q, Only("POINTER", r)), Sync(m)>>
    \o Tried(Put(r, q, Only("POINTER", m)), Cleanup(p, r, om, m))

rename2non_meta(p, q, r, om, m) ==
    <<CreateAt(m, q, Meta), Put(m, q, Only("POINTER", r)), Sync(m),
      Put(r, p, Only("RENAME", m)), Sync(r),
      Move(r, p, q, <<>>), Sync(r)>>
    \o Tried(Put(r, q, Only("POINTER", m)), Cleanup(p, r, om, m))

\* Condition 1.1: the rename replaces the data or the meta file of q.
rename2exist_overwrite(p, q, r, om, er, em) ==
    LET rest == Tried(Put(r, q, NoLinks), Cleanup(p, r, om, None))
    IN  <<Put(r, p, Only("RENAME", r)),
          Move(r, p, q, <<Modify(r, p, "RENAME")>>), Sync(r)>>
        \o (IF r = em THEN <<Delete(er, q, Cleanup(p, r, om, None)), Sync(er)>> ELSE <<>>)
        \o rest

\* Mutants: the file of q is not hidden; it is deleted first.
rename2exist_hide_NoHidden(p, q, r, om, er, em) ==
    <<Put(r, p, Only("STALE", er)), Sync(r), Move(r, p, q, <<>>), Sync(r),
      Delete(er, q, <<>>), Sync(er)>> \o Cleanup(p, r, om, None)
rename2exist_hide_Early(p, q, r, om, er, em) ==
    <<Delete(er, q, <<>>), Sync(er), Move(r, p, q, <<>>), Sync(r)>> \o Cleanup(p, r, om, None)

\* Condition 1.2: it hides the file of q in another replica.
rename2exist_hide(p, q, r, om, er, em) ==
    LET h   == IF em # None THEN em ELSE er
        out == Cleanup(p, r, om, None)
    IN  <<Put(r, p, Only("STALE", h)), Sync(r),
          Put(h, q, Only("HIDDEN", r)), Sync(h),
          Move(r, p, q, Tried(Modify(r, p, "STALE"), <<Modify(h, q, "HIDDEN")>>)), Sync(r)>>
        \o (IF em # None THEN <<Delete(em, q, out), Sync(em)>> ELSE <<>>)
        \o <<Delete(er, q, out), Sync(er)>>
        \o Tried(Put(r, q, NoLinks), out)

\* Condition 2: the file of q becomes the meta file.
rename2exist_meta(p, q, r, om, er, em) ==
    LET x   == IF em # None THEN em ELSE er
        out == Cleanup(p, r, om, x)
    IN  <<Put(x, q, Only("RENAME", r)), Sync(x),
          Put(r, p, Only("RENAME", x)), Sync(r),
          Move(r, p, q, <<>>), Sync(r)>>
        \o (IF em # None /\ er # r THEN <<Delete(er, q, out), Sync(er)>> ELSE <<>>)
        \o Tried(Put(r, q, Only("POINTER", x)), Tried(Put(x, q, Only("POINTER", r)), out))

\* What sfs_rename_other does once source and destination are validated.
rename_steps(o) ==
    LET r    == o.old.replica
        om   == o.old.meta
        er   == o.new.replica
        em   == o.new.meta
        turn == can_turn2normal(Parent[o.q], r)
        pre  == create_replica_dir(o.q, r, turn)
        ways == CASE er = None /\ turn -> {rename2non_turn(o.p, o.q, r, om)}
                  [] er = None /\ ~turn ->
                       {rename2non_meta(o.p, o.q, r, om, m) : m \in NormalDirs(Parent[o.q])}
                  [] er # None /\ turn /\ r \in {er, em} ->
                       {rename2exist_overwrite(o.p, o.q, r, om, er, em)}
                  [] er # None /\ turn /\ r \notin {er, em} ->
                       {rename2exist_hide(o.p, o.q, r, om, er, em)}
                  [] OTHER -> {rename2exist_meta(o.p, o.q, r, om, er, em)}
    IN  {pre \o w : w \in ways}

-----------------------------------------------------------------------------
(* The other operations.                                                    *)

create_steps(o) ==
    {create_replica_dir(o.p, r, TRUE) \o <<CreateAt(r, o.p, o.data), Done(r, None)>> :
        r \in local_dispatch(Parent[o.p])}

\* Mutant: the meta file stays.
unlink_steps_DataOnly(o) == {<<Delete(o.old.replica, o.p, <<>>), Done(None, None)>>}

unlink_steps(o) ==
    {<<Delete(o.old.replica, o.p, <<>>)>>
     \o (IF o.old.meta # None THEN <<Delete(o.old.meta, o.p, <<>>)>> ELSE <<>>)
     \o <<Done(None, None)>>}

\* Mutant: the directory of the new name is not made normal.
link_steps_Shadow(o) ==
    {create_replica_dir(o.q, o.old.replica, FALSE)
     \o <<LinkAt(o.old.replica, o.p, o.q), Done(o.old.replica, None)>>}

link_steps(o) ==
    LET r == o.old.replica
    IN  IF can_turn2normal(Parent[o.q], r)
        THEN {create_replica_dir(o.q, r, TRUE) \o <<LinkAt(r, o.p, o.q), Done(r, None)>>}
        ELSE {create_replica_dir(o.q, m, TRUE) \o create_replica_dir(o.q, r, FALSE)
              \o <<CreateAt(m, o.q, Meta), Put(m, o.q, Only("POINTER", r)),
                   LinkAt(r, o.p, o.q), Put(r, o.q, Only("POINTER", m)), Done(r, m)>> :
                m \in NormalDirs(Parent[o.q])}

Steps(o) ==
    CASE o.kind = "create" -> create_steps(o)
      [] o.kind = "unlink" -> unlink_steps(o)
      [] o.kind = "link"   -> link_steps(o)
      [] o.kind \in Renames -> rename_steps(o)

\* validate_file, for unlink and rename; the other operations take the ids
\* as they are.
validate_file(p, kind) ==
    IF Positive(p) /\ kind \in Renames \cup {"unlink"}
    THEN validate_partitioned_file(mem, p,
             IF cache[p].meta # None THEN cache[p].meta ELSE cache[p].replica, cache[p])
    ELSE Result(<<>>, cache[p].replica, cache[p].meta, {})

Prepared == Step("prepared", None, None, None, <<>>)

Fresh(d) ==
    /\ \A r \in Replicas, p \in Paths : d \notin {mem[r].file[p].data, disk[r].file[p].data}
    /\ \A w \in allowed \cup {ns} : \A p \in Paths : w[p] # d

Begin(kind, p, q, d) ==
    LET v == validate_file(p, kind)
        w == validate_file(q, kind)
    IN  /\ op = Idle /\ kind \in Ops /\ ~tangled
        /\ cache[p].known /\ cache[q].known
        /\ p = q <=> kind \in {"create", "unlink"}
        /\ kind = "create" <=> ~Positive(p)
        /\ kind \in {"link", "rename"} => ~Positive(q)
        /\ kind = "replace" => Positive(q)
        /\ IF kind = "create" THEN d \in Data /\ Fresh(d) ELSE d = ns[p]
        /\ ~Crashes(mem, p, v) /\ ~Crashes(mem, q, w)
        /\ op' = [kind |-> kind, p |-> p, q |-> q, data |-> d,
                  old |-> Ids(v.replica, v.meta), new |-> Ids(w.replica, w.meta)]
        /\ todo' = v.steps \o (IF p # q THEN w.steps ELSE <<>>) \o <<Prepared>>
        /\ UNCHANGED <<mem, disk, cache, ns, allowed, history>>

\* A path that is not in the dentry cache is looked up.
Lookup(p) ==
    LET v == sfs_lookup(mem, p)
    IN  /\ op = Idle /\ ~cache[p].known
        /\ ~Crashes(mem, p, v)
        /\ op' = [Idle EXCEPT !.kind = "lookup", !.p = p, !.q = p]
        /\ todo' = v.steps \o <<Done(v.replica, v.meta)>>
        /\ UNCHANGED <<mem, disk, cache, ns, allowed, history>>

-----------------------------------------------------------------------------
Finish == todo' = <<>> /\ op' = Idle

\* The paths in which replica r has a meta file that leads nowhere.
Bare(fs, r) == {p \in Paths : fs[r].file[p] = [data |-> Meta, ptr |-> NoLinks]}

\* Of the paths ps, those with such a file on disk.
StillBare(ps) == ps \cap UNION {Bare(disk', r) : r \in Replicas}

\* The call leaves a link that is meant for one name of an inode on another:
\* it points one of two names, or removes or adds a name of a linked file.
Tangles(e) ==
    LET f == mem[e.r].file
    IN  \/ /\ \/ e.act = "put" /\ e.x.POINTER # None
              \/ e.act = "delete" /\ f[e.p].ptr # NoLinks
           /\ f[e.p].data \in Data
           /\ \E q \in Paths \ {e.p} : SameFile(mem[e.r], e.p, q)
        \/ e.act = "link" /\ f[e.x].ptr # NoLinks

\* One call into a replica that succeeds.
Call ==
    /\ todo # <<>> /\ Head(todo).act \notin {"prepared", "done"}
    /\ ~Refused(mem, Head(todo))
    /\ mem' = Apply(mem, Head(todo))
    /\ disk' = IF Head(todo).act = "sync" /\ MayCrash
               THEN [disk EXCEPT ![Head(todo).r] = mem[Head(todo).r]] ELSE disk
    /\ todo' = Tail(todo)
    /\ op' = IF Tail(todo) = <<>> THEN Idle ELSE op
    /\ tangled' = (tangled \/ Tangles(Head(todo)))
    /\ exposed' = StillBare(exposed)
    /\ UNCHANGED <<cache, ns, allowed, skipped>>

\* write_inode_now returns at once when the inode is not dirty, as ext3 leaves
\* an inode whose changes are in the journal; nothing is committed.
SyncSkips ==
    /\ MayCrash /\ todo # <<>> /\ Head(todo).act = "sync"
    /\ disk[Head(todo).r] # mem[Head(todo).r]
    /\ todo' = Tail(todo)
    /\ op' = IF Tail(todo) = <<>> THEN Idle ELSE op
    /\ skipped' = TRUE
    /\ UNCHANGED <<mem, disk, cache, ns, allowed, tangled, exposed>>

\* One that fails: the rest is given up, or what els says is done.
CallFails ==
    /\ todo # <<>> /\ Head(todo).act \notin {"prepared", "done", "sync"}
    /\ MayFail \/ Refused(mem, Head(todo))
    /\ todo' = Head(todo).els
    /\ op' = IF Head(todo).els = <<>> THEN Idle ELSE op
    /\ UNCHANGED <<mem, disk, cache, ns, allowed, history>>

\* Source and destination are validated: the operation itself begins.
Validated ==
    /\ todo # <<>> /\ Head(todo).act = "prepared"
    /\ todo' \in Steps(op)
    /\ cache' = [cache EXCEPT ![op.p] = op.old, ![op.q] = IF op.p = op.q THEN op.old ELSE op.new]
    /\ UNCHANGED <<mem, disk, op, ns, allowed, history>>

\* The operation has succeeded.  A rename moves the dentry.
Complete ==
    /\ todo # <<>> /\ Head(todo).act = "done"
    /\ Finish
    /\ cache' = [cache EXCEPT ![op.p] = IF op.kind \in Renames THEN NoIds ELSE @,
                              ![op.q] = Ids(Head(todo).r, Head(todo).x)]
    /\ ns' = After(op, ns)
    /\ allowed' = LET done == {After(op, w) : w \in allowed}
                  IN  IF ~MayCrash THEN allowed
                      ELSE IF op.kind \in Renames THEN done ELSE allowed \cup done
    /\ UNCHANGED <<mem, disk, history>>

-----------------------------------------------------------------------------
(* The dentry cache, the journals below and crashes.                        *)

Evict(p) ==
    /\ op = Idle /\ cache[p].known
    /\ cache' = [cache EXCEPT ![p] = NoIds]
    /\ UNCHANGED <<mem, disk, op, todo, ns, allowed, history>>

SyncAll ==
    /\ MayCrash /\ op = Idle /\ disk # mem
    /\ disk' = mem /\ allowed' = {ns}
    /\ exposed' = StillBare(exposed)
    /\ UNCHANGED <<mem, cache, op, todo, ns, tangled, skipped>>

HostCommit(r) ==
    /\ MayCommit /\ disk[r] # mem[r]
    /\ disk' = [disk EXCEPT ![r] = mem[r]]
    /\ exposed' = StillBare(exposed \cup Bare(mem, r))
    /\ UNCHANGED <<mem, cache, op, todo, ns, allowed, tangled, skipped>>

Crash ==
    /\ MayCrash
    /\ mem' = disk /\ cache' = [p \in Paths |-> NoIds]
    /\ Finish
    /\ ns' = View(disk) /\ allowed' = {ns'}
    /\ UNCHANGED <<disk, history>>

Next ==
    \/ \E kind \in Ops, p, q \in Paths, d \in Data \cup {Meta} : Begin(kind, p, q, d)
    \/ \E p \in Paths : Lookup(p) \/ Evict(p)
    \/ Call \/ SyncSkips \/ CallFails \/ Validated \/ Complete
    \/ SyncAll \/ Crash
    \/ \E r \in Replicas : HostCommit(r)

Spec == Init /\ [][Next]_vars

-----------------------------------------------------------------------------
(* Between operations a lookup that finds nothing cached sees the namespace *)
(* that the operations have made: no file is lost, hidden by a left-over or *)
(* shown under two names, partitioned or not.  The exception is a file with *)
(* hard links that becomes partitioned or is replaced: the links that       *)
(* sfs_link or a rename puts on one name are on the others too, as they are *)
(* one inode, and stay there.  It assumes that write_inode_now commits:     *)
(* when it finds the inode clean and skips it, a crash may leave files of   *)
(* two replicas in one path, and the second shows when the first is gone.   *)
LookupAgrees == op = Idle /\ ~tangled /\ ~skipped => View(mem) = ns

(* The ids cached in a dentry lead to the data of the file, and a dentry    *)
(* without them stands for a path that does not exist.                      *)
CacheAgrees ==
    op = Idle /\ ~tangled => \A p \in Paths :
        cache[p].known =>
            /\ Positive(p) <=> ns[p] # Absent
            /\ Positive(p) => mem[cache[p].replica].file[p].data = ns[p]

(* Between operations, without failures and crashes, nothing is left behind *)
(* in the replicas: a path that exists has one data file and, if it is      *)
(* partitioned, the one meta file that leads to it; a path that does not    *)
(* exist has none.                                                          *)
NoLeftovers ==
    op = Idle /\ ~tangled => \A p \in Paths :
        LET v == sfs_lookup(mem, p)
        IN  {r \in Replicas : Has(mem, r, p)} = {v.replica, v.meta} \ {None}

\* What a lookup after a crash may find in p if w is the namespace: also an
\* empty file, where a commit has separated a meta file from its links.
Tolerated(w, p) ==
    {w[p]} \cup (IF p \in exposed THEN {Meta} ELSE {})

(* Whenever the system crashes, the lookups after the restart show the      *)
(* namespace before or after the operation that ran: a rename is atomic,    *)
(* and durable when it returns ("Make the changes of the rename             *)
(* persistent"); only creations and deletions that nobody synced may be     *)
(* lost.  The replicas commit their journals whenever they like.  The       *)
(* property assumes that write_inode_now commits, which it does only when   *)
(* it finds the inode dirty.  The code has one exception: a commit between  *)
(* the creation of a meta file and the put of its POINTER is followed, if   *)
(* the system crashes then, by an empty file in the new path.               *)
CrashSafe ==
    ~skipped =>
        \E w \in allowed \cup {After(op, v) : v \in allowed} :
            \A p \in Paths : View(disk)[p] \in Tolerated(w, p)
=============================================================================

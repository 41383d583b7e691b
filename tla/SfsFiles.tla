------------------------------ MODULE SfsFiles ------------------------------
(***************************************************************************)
(* What SFS (sfs16) stores in the file systems below, its replicas, and    *)
(* how sfs_lookup and validate_partitioned_file make a file out of it.     *)
(* There are no variables here: the state of the replicas is an argument.  *)
(*                                                                         *)
(* A file of SFS is a file of the same path in one replica, under a        *)
(* directory marked normal.  A partitioned file has two: a meta file under *)
(* a normal directory, whose POINTER leads to the replica that holds the   *)
(* data file, under a directory that is not normal.  The other links of    *)
(* the extended attribute trusted.sfs.meta only exist during a rename.     *)
(***************************************************************************)
EXTENDS Integers, Sequences, FiniteSets, FiniteSetsExt, SequencesExt

CONSTANTS
    N,                   \* replica_count
    Dirs, Paths,         \* directories and paths of files
    Parent,              \* the directory of a path
    Data,                \* contents of files, one value for each file created
    Meta, Absent, Oops   \* an empty meta file, no file, a NULL dereference

Replicas == 0 .. N - 1
None     == -1

ASSUME FilesAssumption ==
    /\ N \in Nat \ {0}
    /\ Parent \in [Paths -> Dirs]
    /\ {Meta, Absent, Oops} \cap Data = {}
    /\ Meta # Absent /\ Oops \notin {Meta, Absent}

\* The attribute trusted.sfs.meta; a file without it behaves as with NoLinks.
Links   == [POINTER : Replicas \cup {None}, RENAME : Replicas \cup {None},
            HIDDEN : Replicas \cup {None}, STALE : Replicas \cup {None}]
NoLinks == [POINTER |-> None, RENAME |-> None, HIDDEN |-> None, STALE |-> None]

Object  == [data : Data \cup {Meta, Absent}, ptr : Links]
NoFile  == [data |-> Absent, ptr |-> NoLinks]
Replica == [dirs : SUBSET Dirs, normal : SUBSET Dirs, file : [Paths -> Object]]

Has(fs, r, p)   == fs[r].file[p].data # Absent
HasDir(fs, r, p) == Parent[p] \in fs[r].dirs

-----------------------------------------------------------------------------
(* Steps: the calls into the replicas an operation makes, in their order.   *)
(* els is what is left to do when the call fails.                           *)

Step(act, r, p, x, els) == [act |-> act, r |-> r, p |-> p, x |-> x, els |-> els]

Put(r, p, x)       == Step("put", r, p, x, <<>>)
Modify(r, p, k)    == Step("modify", r, p, k, <<>>)
CreateAt(r, p, d)  == Step("create", r, p, d, <<>>)
LinkAt(r, p, q)    == Step("link", r, q, p, <<>>)
Move(r, p, q, els) == Step("move", r, q, p, els)
Delete(r, p, els)  == Step("delete", r, p, None, els)
MkDir(r, p)        == Step("mkdir", r, p, None, <<>>)
Mark(r, p)         == Step("mark", r, p, None, <<>>)
Sync(r)            == Step("sync", r, None, None, <<>>)
\* A put or a deletion whose result is ignored.
Tried(step, rest)  == <<[step EXCEPT !.els = rest]>> \o rest

\* The names of one inode share its attribute.
SameFile(s, p, q) == p = q \/ (s.file[p].data \in Data /\ s.file[p].data = s.file[q].data)
SetLinks(s, p, x) ==
    [s EXCEPT !.file = [q \in Paths |->
        IF SameFile(s, p, q) /\ s.file[q] # NoFile
        THEN [s.file[q] EXCEPT !.ptr = x] ELSE s.file[q]]]

Apply(fs, e) ==
    LET s == fs[e.r]
        t == CASE e.act = "put"    -> SetLinks(s, e.p, e.x)
               [] e.act = "modify" -> SetLinks(s, e.p, [s.file[e.p].ptr EXCEPT ![e.x] = None])
               [] e.act = "create" -> [s EXCEPT !.file[e.p] = [data |-> e.x, ptr |-> NoLinks]]
               [] e.act = "link"   -> [s EXCEPT !.file[e.p] = s.file[e.x]]
               [] e.act = "move"   -> [s EXCEPT !.file[e.p] = s.file[e.x], !.file[e.x] = NoFile]
               [] e.act = "delete" -> [s EXCEPT !.file[e.p] = NoFile]
               [] e.act = "mkdir"  -> [s EXCEPT !.dirs = @ \cup {Parent[e.p]}]
               [] e.act = "mark"   -> [s EXCEPT !.normal = @ \cup {Parent[e.p]}]
               [] OTHER            -> s
    IN  [fs EXCEPT ![e.r] = t]

\* ext3 does not create a second entry of the same name.
Refused(fs, e) == e.act \in {"create", "link"} /\ Has(fs, e.r, e.p)

-----------------------------------------------------------------------------
(* validate_partitioned_file for the file of path p found in replica local: *)
(* the steps it takes, the replica_id and meta_id it leaves in the dentry   *)
(* that held ids, and the replicas whose parent directory it dereferences.  *)

Only(k, r) == [NoLinks EXCEPT ![k] = r]

DeleteIfThere(fs, r, p) == IF Has(fs, r, p) THEN <<Delete(r, p, <<>>)>> ELSE <<>>
DeleteAndSync(fs, r, p) == IF Has(fs, r, p) THEN <<Delete(r, p, <<>>), Sync(r)>> ELSE <<>>

Result(steps, replica, meta, uses) ==
    [steps |-> steps, replica |-> replica, meta |-> meta, uses |-> uses \ {None}]

\* Condition 0: the file that this one replaces is deleted.
Stale(fs, p, local, ids, ptr) ==
    LET s == ptr.STALE
        t == IF Has(fs, s, p) THEN fs[s].file[p].ptr.POINTER ELSE None
    IN  Result((IF t # None THEN DeleteAndSync(fs, t, p) ELSE <<>>)
                 \o DeleteAndSync(fs, s, p) \o <<Put(local, p, NoLinks)>>,
               local, ids.meta, {s, t})

\* Condition 1.1: the file that hides this one is in place.
Hidden(fs, p, local, ids, ptr) ==
    LET h == ptr.HIDDEN
        t == ptr.POINTER
    IN  Result((IF t # None THEN DeleteIfThere(fs, t, p) ELSE <<>>)
                 \o <<Delete(local, p, <<>>), Sync(local), Put(h, p, NoLinks)>>,
               h, ids.meta, {h, t})

\* Condition 2.1: the data file this one shall point to is in place.
Renamed(fs, p, local, ids, ptr, pre) ==
    LET n == ptr.RENAME
        t == ptr.POINTER
    IN  IF n = local
        THEN Result(pre \o <<Put(local, p, NoLinks)>>, local, ids.meta, {})
        ELSE Result(pre \o (IF t # None THEN DeleteIfThere(fs, t, p) ELSE <<>>)
                        \o <<Put(local, p, Only("POINTER", n))>>, n, local, {n, t})

\* Condition 3: a partitioned file or a data file.
Normal(fs, p, local, ids, ptr, pre) ==
    LET t == ptr.POINTER
    IN  CASE t = None -> Result(pre, local, ids.meta, {})
          [] t # None /\ ~Has(fs, t, p) ->
                Result(pre \o <<Delete(local, p, <<>>)>>, ids.replica, ids.meta, {t})
          [] OTHER ->
                Result(pre \o (IF fs[t].file[p].ptr.POINTER = local THEN <<>>
                               ELSE <<Put(t, p, Only("POINTER", local))>>),
                       t, local, {t})

validate_partitioned_file(fs, p, local, ids) ==
    LET ptr    == fs[local].file[p].ptr
        there(r) == r # None /\ Has(fs, r, p)
        \* Conditions 1.2 and 2.2: a link without the file it announces is dropped.
        drop(k) == IF ptr[k] # None THEN <<Modify(local, p, k)>> ELSE <<>>
        seen   == IF ptr.HIDDEN # None THEN [ids EXCEPT !.replica = local] ELSE ids
        also(v, rs) == [v EXCEPT !.uses = @ \cup (rs \ {None})]
    IN  IF ptr.STALE # None THEN Stale(fs, p, local, ids, ptr)
        ELSE IF there(ptr.HIDDEN) THEN Hidden(fs, p, local, ids, ptr)
        ELSE IF there(ptr.RENAME)
        THEN also(Renamed(fs, p, local, seen, ptr, drop("HIDDEN")), {ptr.HIDDEN})
        ELSE also(Normal(fs, p, local, seen, ptr, drop("HIDDEN") \o drop("RENAME")),
                  {ptr.HIDDEN, ptr.RENAME})

Crashes(fs, p, v) == \E r \in v.uses : ~HasDir(fs, r, p)

\* The replicas in which sfs_lookup looks for path p and finds a file.
Found(fs, p) ==
    {r \in Replicas : Parent[p] \in fs[r].normal /\ HasDir(fs, r, p) /\ Has(fs, r, p)}

NoIds == [known |-> FALSE, replica |-> None, meta |-> None]

\* What sfs_lookup makes of path p when nothing is cached.
sfs_lookup(fs, p) ==
    IF Found(fs, p) = {} THEN Result(<<>>, None, None, {})
    ELSE validate_partitioned_file(fs, p, Min(Found(fs, p)), NoIds)

\* The contents an application then sees.
Visible(fs, p) ==
    LET v == sfs_lookup(fs, p)
    IN  IF Crashes(fs, p, v) THEN Oops
        ELSE IF v.replica = None THEN Absent
        ELSE FoldLeft(Apply, fs, v.steps)[v.replica].file[p].data

View(fs) == [p \in Paths |-> Visible(fs, p)]
=============================================================================

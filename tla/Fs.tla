--------------------------------- MODULE Fs ----------------------------------
(***************************************************************************)
(* The tables of TASK_FS: the root directory and the maps of inodes and    *)
(* sectors on the disk, the inode cache and the file descriptors in        *)
(* memory, under open, create, close, unlink, fork, exit and a reboot.     *)
(*                                                                         *)
(* FS answers one request before it takes the next, so a request is a      *)
(* step; but MM copies the descriptors of a parent into its child on its   *)
(* own, and only then asks FS to count them.                               *)
(*                                                                         *)
(* Simplified: bit 0 of the sector map is reserved and bit b stands for    *)
(* sector b - 1 of the data area; there is one terminal; cmd.tar is as     *)
(* long as any file; root is used only as the directory; contents,         *)
(* positions and sizes of files are left out.                              *)
(***************************************************************************)
EXTENDS Naturals, FiniteSets

CONSTANTS Proc,         \* the processes
          Name,         \* the names of files in use, without "."
          TTY, TAR,     \* the names mkfs() makes: a terminal, and cmd.tar
          Long,         \* the names of MAX_FILENAME_LEN characters
          Inode,        \* inode numbers, as many as are needed (disks have 4096)
          Fd,           \* the indices of filp[]
          Desc,         \* the slots of f_desc_table
          NR_INODE,     \* the slots of inode_table
          FILE_SECTS,   \* NR_DEFAULT_FILE_SECTS
          NR_SECTS,     \* the bits of the sector map
          TAR_START,    \* the first bit of cmd.tar
          PER_SECT,     \* the directory entries in a sector
          White,        \* open_white_list
          Protected,    \* protected_file
          RefusedUnlink,\* may unlink name a file that is open, or a terminal?
          LastUnlink,   \* may unlink take the last entry of a directory with holes?
          NO_PROC, NO_NAME

ROOT_INODE == 1
Bits       == 0 .. NR_SECTS - 1
Slots      == 1 .. Cardinality(Name) + 2

ASSUME FsAssumption ==
    /\ TTY \in Name /\ TAR \in Name \ {TTY} /\ Long \subseteq Name
    /\ Inode \subseteq Nat /\ 1 .. 3 \subseteq Inode /\ 0 \notin Inode /\ IsFiniteSet(Inode)
    /\ Fd \subseteq Nat /\ Desc \subseteq Nat \ {0}
    /\ {NR_INODE, FILE_SECTS, NR_SECTS, TAR_START, PER_SECT} \subseteq Nat \ {0}
    /\ FILE_SECTS < TAR_START /\ TAR_START + FILE_SECTS <= NR_SECTS
    /\ White \subseteq Proc /\ Protected \subseteq Name
    /\ RefusedUnlink \in BOOLEAN /\ LastUnlink \in BOOLEAN
    /\ NO_PROC \notin Proc /\ NO_NAME \notin Name
    /\ IsFiniteSet(Proc) /\ IsFiniteSet(Name) /\ IsFiniteSet(Fd)

VARIABLES imap, smap,       \* the bits that are set in the maps
          inode,            \* inode_array on the disk, and what the cache holds of it
          dir,              \* the entries of the root directory
          nr_dir_entries,   \* how many of them its i_size covers
          i_cnt,            \* i_cnt[n]: 0 if inode n is not in inode_table
          f_desc_table, filp,
          forking,          \* a child that MM has copied and FS has not counted
          state             \* "runs", "panic", or "assert" when an assertion failed

disk   == <<imap, smap, inode, dir, nr_dir_entries>>
memory == <<i_cnt, f_desc_table, filp, forking>>
vars   == <<disk, memory, state>>

-----------------------------------------------------------------------------
Empty      == [inode_nr |-> 0, name |-> NO_NAME]
NoInode    == [i_mode |-> "none", i_start_sect |-> 0]
Unused     == [fd_inode |-> 0, fd_cnt |-> 0]
NotForking == [parent |-> NO_PROC, child |-> NO_PROC]

Least(S) == CHOOSE x \in S : \A y \in S : x <= y

\* The bits of the sectors that start at bit b.
Run(b) == b .. b + FILE_SECTS - 1

HasSectors(n) == inode[n].i_mode \in {"regular", "directory"}

\* mkfs()
Init ==
    /\ imap = 0 .. 3
    /\ smap = {0} \cup Run(1) \cup Run(TAR_START)
    /\ inode = [n \in Inode |->
                  CASE n = ROOT_INODE -> [i_mode |-> "directory", i_start_sect |-> 1]
                    [] n = 2 -> [i_mode |-> "char", i_start_sect |-> 0]
                    [] n = 3 -> [i_mode |-> "regular", i_start_sect |-> TAR_START]
                    [] OTHER -> NoInode]
    /\ dir = [s \in Slots |->
                CASE s = 1 -> [inode_nr |-> ROOT_INODE, name |-> NO_NAME]
                  [] s = 2 -> [inode_nr |-> 2, name |-> TTY]
                  [] s = 3 -> [inode_nr |-> 3, name |-> TAR]
                  [] OTHER -> Empty]
    /\ nr_dir_entries = 3
    /\ i_cnt = [n \in Inode |-> IF n = ROOT_INODE THEN 1 ELSE 0]
    /\ f_desc_table = [d \in Desc |-> Unused]
    /\ filp = [p \in Proc |-> [fd \in Fd |-> 0]]
    /\ forking = NotForking
    /\ state = "runs"

\* p runs, and is not in the middle of a fork.
Caller(p) == state = "runs" /\ p \notin {forking.parent, forking.child}

-----------------------------------------------------------------------------
(* search_file *)

\* The entries search_file() looks at: it compares before it counts, and so sees
\* one entry beyond the end, unless that is in the next sector.
Examined ==
    {s \in Slots : s <= nr_dir_entries + 1
                   /\ s <= PER_SECT * ((nr_dir_entries + PER_SECT - 1) \div PER_SECT)}

search_file(name) ==
    LET matches == {s \in Examined : dir[s].name = name}
    IN  IF matches = {} THEN 0 ELSE dir[Least(matches)].inode_nr

-----------------------------------------------------------------------------
(* do_open and do_close.  Faulty variants of the definitions that follow them   *)
(* are named after their fault; no property below survives its variant.         *)

FreeFds(p) == {fd \in Fd : filp[p][fd] = 0}
FreeDescs  == {d \in Desc : f_desc_table[d].fd_inode = 0}

\* get_inode() finds n in inode_table, or a slot for it.
InodeSlot(n) == i_cnt[n] > 0 \/ Cardinality({k \in Inode : i_cnt[k] > 0}) < NR_INODE

\* The first free descriptor of p and the first free slot of f_desc_table now
\* stand for inode n.
Connect(p, n) ==
    LET d == Least(FreeDescs)
    IN  /\ filp' = [filp EXCEPT ![p][Least(FreeFds(p))] = d]
        /\ f_desc_table' = [f_desc_table EXCEPT ![d] = [fd_inode |-> n, fd_cnt |-> 1]]

Denied(p, name) == p \notin White /\ name \in Protected

do_open(p, name) ==
    /\ Caller(p)
    /\ FreeFds(p) # {} /\ FreeDescs # {}
    /\ search_file(name) # 0 /\ InodeSlot(search_file(name))
    /\ ~Denied(p, name)
    /\ i_cnt' = [i_cnt EXCEPT ![search_file(name)] = @ + 1]
    /\ Connect(p, search_file(name))
    /\ UNCHANGED <<disk, forking, state>>

\* A table is full: filp[], f_desc_table, or inode_table (which unlink needs too).
TableFull(p, name) ==
    /\ Caller(p)
    /\ \/ FreeFds(p) = {} \/ FreeDescs = {}
       \/ search_file(name) # 0 /\ ~InodeSlot(search_file(name))
    /\ state' = "panic"
    /\ UNCHANGED <<disk, memory>>

alloc_imap_bit == Least(Inode \ imap)

\* The run that starts at the first free bit of the sector map.
alloc_smap_bit == Run(Least(Bits \ smap))

\* Each bit of the run is asserted to be free, and the map to be long enough.
SectorsFree == Bits \ smap # {} /\ alloc_smap_bit \subseteq Bits \ smap

\* Where new_dir_entry() puts an entry: the first hole, or the end.
NewSlotOnLast ==
    LET holes == {s \in 1 .. nr_dir_entries : dir[s].inode_nr = 0}
    IN  IF holes = {} THEN nr_dir_entries ELSE Least(holes)

NewSlot ==
    LET holes == {s \in 1 .. nr_dir_entries : dir[s].inode_nr = 0}
    IN  IF holes = {} THEN nr_dir_entries + 1 ELSE Least(holes)

\* strcpy() of a name of full length ends in the next entry's inode_nr.
new_dir_entry(n, name) ==
    /\ dir' = [s \in Slots |->
                 IF s = NewSlot THEN [inode_nr |-> n, name |-> name]
                 ELSE IF name \in Long /\ s = NewSlot + 1 /\ NewSlot % PER_SECT # 0
                 THEN [dir[s] EXCEPT !.inode_nr = 0]
                 ELSE dir[s]]
    /\ nr_dir_entries' = IF NewSlot > nr_dir_entries THEN NewSlot ELSE nr_dir_entries

Creates(p, name) ==
    /\ Caller(p)
    /\ FreeFds(p) # {} /\ FreeDescs # {}
    /\ search_file(name) = 0
    /\ Inode \ imap # {} /\ NewSlot \in Slots

create_file(p, name) ==
    /\ Creates(p, name)
    /\ SectorsFree /\ InodeSlot(alloc_imap_bit)
    /\ imap' = imap \cup {alloc_imap_bit}
    /\ smap' = smap \cup alloc_smap_bit
    /\ inode' = [inode EXCEPT ![alloc_imap_bit] =
                    [i_mode |-> "regular", i_start_sect |-> Least(Bits \ smap)]]
    /\ i_cnt' = [i_cnt EXCEPT ![alloc_imap_bit] = 1]
    /\ new_dir_entry(alloc_imap_bit, name)
    /\ Connect(p, alloc_imap_bit)
    /\ UNCHANGED <<forking, state>>

create_fileFails(p, name) ==
    /\ Creates(p, name)
    /\ ~(SectorsFree /\ InodeSlot(alloc_imap_bit))
    /\ state' = IF SectorsFree THEN "panic" ELSE "assert"
    /\ UNCHANGED <<disk, memory>>

\* One reference less to slot d of f_desc_table.
Dropped(d) ==
    IF f_desc_table[d].fd_cnt = 1 THEN Unused
    ELSE [f_desc_table[d] EXCEPT !.fd_cnt = @ - 1]

do_closeForgetsInode(p, fd) ==
    /\ Caller(p)
    /\ filp[p][fd] # 0
    /\ LET d == filp[p][fd]
       IN  /\ f_desc_table' = [f_desc_table EXCEPT ![d] = Dropped(d)]
           /\ i_cnt' = [i_cnt EXCEPT ![f_desc_table[d].fd_inode] =
                            IF f_desc_table[d].fd_cnt = 1 THEN @ - 1 ELSE @]
    /\ filp' = [filp EXCEPT ![p][fd] = 0]
    /\ UNCHANGED <<disk, forking, state>>

do_close(p, fd) ==
    /\ Caller(p)
    /\ filp[p][fd] # 0
    /\ LET d == filp[p][fd]
       IN  /\ f_desc_table' = [f_desc_table EXCEPT ![d] = Dropped(d)]
           /\ i_cnt' = [i_cnt EXCEPT ![f_desc_table[d].fd_inode] = @ - 1]
    /\ filp' = [filp EXCEPT ![p][fd] = 0]
    /\ UNCHANGED <<disk, forking, state>>

-----------------------------------------------------------------------------
(* do_unlink *)

RemovableThoughOpen(n) == inode[n].i_mode = "regular"

\* A regular file that nobody has open.
Removable(n) == inode[n].i_mode = "regular" /\ i_cnt[n] = 0

EntriesOf(n)     == {s \in 1 .. nr_dir_entries : dir[s].inode_nr = n}
LiveBefore(slot) == {s \in 1 .. slot - 1 : dir[s].inode_nr # 0}

\* What the runs may cut: refusals, and the last entry of a directory with holes.
MayUnlink(n) ==
    /\ RefusedUnlink \/ Removable(n)
    /\ \/ LastUnlink
       \/ dir[nr_dir_entries].inode_nr # n
       \/ LiveBefore(nr_dir_entries) = 1 .. nr_dir_entries - 1

\* The bits in the maps and the entry, which do_unlink() asserts to be there.
Listed(n) == n \in imap /\ Run(inode[n].i_start_sect) \subseteq smap /\ EntriesOf(n) # {}

ClearSectorsButLast(n) == smap' = smap \ (Run(inode[n].i_start_sect) \ {inode[n].i_start_sect + FILE_SECTS - 1})

ClearSectors(n) == smap' = smap \ Run(inode[n].i_start_sect)

ClearEntryMiscounts(slot) ==
    /\ dir' = [dir EXCEPT ![slot] = Empty]
    /\ nr_dir_entries' =
          IF slot = nr_dir_entries THEN Cardinality(LiveBefore(slot)) - 1 ELSE nr_dir_entries

\* When the last entry goes, the size becomes that of the live entries before it.
ClearEntry(slot) ==
    /\ dir' = [dir EXCEPT ![slot] = Empty]
    /\ nr_dir_entries' =
          IF slot = nr_dir_entries THEN Cardinality(LiveBefore(slot)) ELSE nr_dir_entries

Remove(n) ==
    /\ imap' = imap \ {n}
    /\ ClearSectors(n)
    /\ inode' = [inode EXCEPT ![n] = NoInode]
    /\ ClearEntry(Least(EntriesOf(n)))
    /\ UNCHANGED <<memory, state>>

\* What is refused stays in the inode cache: put_inode() is not called.
Refuse(n) ==
    /\ i_cnt' = [i_cnt EXCEPT ![n] = @ + 1]
    /\ UNCHANGED <<disk, f_desc_table, filp, forking, state>>

do_unlink(p, name) ==
    /\ Caller(p)
    /\ LET n == search_file(name)
       IN  /\ n # 0 /\ InodeSlot(n) /\ MayUnlink(n)
           /\ IF ~Removable(n) THEN Refuse(n)
              ELSE IF Listed(n) THEN Remove(n)
              ELSE state' = "assert" /\ UNCHANGED <<disk, memory>>

-----------------------------------------------------------------------------
(* fork, exit and a reboot *)

\* do_fork of MM: the child has the descriptors of its parent.
ForkCopy(p, c) ==
    /\ Caller(p) /\ forking = NotForking
    /\ c # p /\ FreeFds(c) = Fd
    /\ filp' = [filp EXCEPT ![c] = filp[p]]
    /\ forking' = [parent |-> p, child |-> c]
    /\ UNCHANGED <<disk, i_cnt, f_desc_table, state>>

\* The descriptors of p that stand for slot d, and those that stand for inode n.
FdsOn(p, d) == {fd \in Fd : filp[p][fd] = d}
FdsOf(p, n) == {fd \in Fd : filp[p][fd] # 0 /\ f_desc_table[filp[p][fd]].fd_inode = n}

fs_fork ==
    /\ state = "runs" /\ forking # NotForking
    /\ f_desc_table' = [d \in Desc |->
           [f_desc_table[d] EXCEPT !.fd_cnt = @ + Cardinality(FdsOn(forking.child, d))]]
    /\ i_cnt' = [n \in Inode |-> i_cnt[n] + Cardinality(FdsOf(forking.child, n))]
    /\ forking' = NotForking
    /\ UNCHANGED <<disk, filp, state>>

fs_exitFreesDescs(p) ==
    /\ Caller(p)
    /\ i_cnt' = [n \in Inode |-> i_cnt[n] - Cardinality(FdsOf(p, n))]
    /\ f_desc_table' = [d \in Desc |-> IF FdsOn(p, d) # {} THEN Unused ELSE f_desc_table[d]]
    /\ filp' = [filp EXCEPT ![p] = [fd \in Fd |-> 0]]
    /\ UNCHANGED <<disk, forking, state>>

fs_exit(p) ==
    /\ Caller(p)
    /\ i_cnt' = [n \in Inode |-> i_cnt[n] - Cardinality(FdsOf(p, n))]
    /\ f_desc_table' = [d \in Desc |->
           LET left == f_desc_table[d].fd_cnt - Cardinality(FdsOn(p, d))
           IN  IF left = 0 THEN Unused ELSE [f_desc_table[d] EXCEPT !.fd_cnt = left]]
    /\ filp' = [filp EXCEPT ![p] = [fd \in Fd |-> 0]]
    /\ UNCHANGED <<disk, forking, state>>

\* init_fs(): the disk is as it was left, the tables are empty.
init_fs ==
    /\ i_cnt' = [n \in Inode |-> IF n = ROOT_INODE THEN 1 ELSE 0]
    /\ f_desc_table' = [d \in Desc |-> Unused]
    /\ filp' = [p \in Proc |-> [fd \in Fd |-> 0]]
    /\ forking' = NotForking
    /\ state' = "runs"
    /\ UNCHANGED disk

-----------------------------------------------------------------------------
Next ==
    \/ \E p \in Proc :
          \/ \E name \in Name :
                \/ do_open(p, name) \/ TableFull(p, name)
                \/ create_file(p, name) \/ create_fileFails(p, name)
                \/ do_unlink(p, name)
          \/ \E fd \in Fd : do_close(p, fd)
          \/ \E c \in Proc : ForkCopy(p, c)
          \/ fs_exit(p)
    \/ fs_fork \/ init_fs

Spec == Init /\ [][Next]_vars

-----------------------------------------------------------------------------
(* Properties *)

\* Type invariant.
TypeOK ==
    /\ imap \subseteq Inode \cup {0} /\ smap \subseteq Bits
    /\ inode \in [Inode -> [i_mode : {"none", "regular", "char", "directory"}, i_start_sect : Nat]]
    /\ dir \in [Slots -> [inode_nr : Inode \cup {0}, name : Name \cup {NO_NAME}]]
    /\ nr_dir_entries \in Slots
    /\ i_cnt \in [Inode -> Nat]
    /\ f_desc_table \in [Desc -> [fd_inode : Inode \cup {0}, fd_cnt : Nat]]
    /\ filp \in [Proc -> [Fd -> Desc \cup {0}]]
    /\ forking \in {NotForking} \cup [parent : Proc, child : Proc]
    /\ state \in {"runs", "panic", "assert"}

\* Whose descriptors FS has counted.
Counted == Proc \ {forking.child}

\* "fd_cnt: How many procs share this desc", through whichever of open, fork,
\* close and exit it went: the slot is taken exactly while some process has it.
DescriptorsCounted ==
    \A d \in Desc :
        /\ f_desc_table[d].fd_cnt =
              Cardinality({pf \in Counted \X Fd : filp[pf[1]][pf[2]] = d})
        /\ f_desc_table[d].fd_cnt = 0 <=> f_desc_table[d].fd_inode = 0

\* "i_cnt: How many procs share this inode": a closed file can be removed, and
\* its slot of inode_table be used again, and those of an open one cannot.
InodesCounted ==
    \A n \in Inode \ {ROOT_INODE} :
        i_cnt[n] = Cardinality({pf \in Counted \X Fd : pf[2] \in FdsOf(pf[1], n)})

\* Whoever has a file open, a child that is being made included, has one that
\* exists: it is in the map and in the directory.
OpenFilesExist ==
    \A p \in Proc, fd \in Fd :
        filp[p][fd] # 0 =>
            LET n == f_desc_table[filp[p][fd]].fd_inode
            IN  n \in imap /\ inode[n].i_mode # "none" /\ EntriesOf(n) # {}

\* The sector map is exactly what the files have, and no two share a sector.
SectorsApart ==
    /\ smap = {0} \cup UNION {Run(inode[n].i_start_sect) : n \in {k \in imap \ {0} : HasSectors(k)}}
    /\ \A n, k \in {j \in imap \ {0} : HasSectors(j)} :
          n # k => Run(inode[n].i_start_sect) \cap Run(inode[k].i_start_sect) = {}

\* Each inode in use has one entry in the directory, under a name by which it is
\* found, and the directory names no other: what was created can be used until it is removed.
FilesAreFound ==
    /\ \A n \in imap \ {0, ROOT_INODE} :
          \E s \in Slots : EntriesOf(n) = {s} /\ search_file(dir[s].name) = n
    /\ \A s \in Slots : dir[s].inode_nr # 0 => dir[s].inode_nr \in imap /\ s <= nr_dir_entries

\* What is known of a file by its name.
File(name) == LET n == search_file(name) IN IF n = 0 THEN NoInode ELSE inode[n]

\* No request creates, removes or moves more than one file.
OneFileAtATime ==
    [][Cardinality({name \in Name : File(name)' # File(name)}) <= 1]_vars

\* The assertions of alloc_smap_bit() (the run it finds is free) and of
\* do_unlink() (what it removes is in the maps and in the directory).
AssertionsHold == state # "assert"
=============================================================================

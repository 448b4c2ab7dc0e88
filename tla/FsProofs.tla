------------------------------- MODULE FsProofs -------------------------------
(* Proofs about module Fs, for every set of processes, names, inodes,          *)
(* descriptors and sectors.  What the sector map and the slots of f_desc_table *)
(* say is so whatever happens; the rest supposes what the runs show to be      *)
(* needed (NoCuts).                                                            *)
EXTENDS Fs, FiniteSetTheorems, WellFoundedInduction, TLAPS

\* unlink names no open file and no terminal, and not the last entry of a directory
\* with holes; no name is of full length.
NoCuts == ~RefusedUnlink /\ ~LastUnlink /\ Long = {}

-----------------------------------------------------------------------------
(* The inductive invariants: the sectors *)

\* The inodes that have sectors.
WithSectors == {n \in imap \ {0} : HasSectors(n)}

\* SectorsApart, bit by bit.
SInv ==
    /\ imap \subseteq Inode \cup {0} /\ smap \subseteq Bits
    /\ inode \in [Inode -> [i_mode : {"none", "regular", "char", "directory"}, i_start_sect : Nat]]
    /\ dir \in [Slots -> [inode_nr : Inode \cup {0}, name : Name \cup {NO_NAME}]]
    /\ \A n \in WithSectors : 0 \notin Run(inode[n].i_start_sect)
    /\ \A b : b \in smap <=> b = 0 \/ \E n \in WithSectors : b \in Run(inode[n].i_start_sect)
    /\ \A n, k \in WithSectors : \A b :
           b \in Run(inode[n].i_start_sect) /\ b \in Run(inode[k].i_start_sect) => n = k

-----------------------------------------------------------------------------
(* The descriptors *)

Holders(d) == {pf \in Counted \X Fd : filp[pf[1]][pf[2]] = d}

\* A child that is not counted has the descriptors of its parent.
ForkState ==
    \/ forking = NotForking
    \/ /\ forking \in [parent : Proc, child : Proc] /\ forking.parent # forking.child
       /\ filp[forking.child] = filp[forking.parent]

\* DescriptorsCounted.
FInv ==
    /\ f_desc_table \in [Desc -> [fd_inode : Inode \cup {0}, fd_cnt : Nat]]
    /\ filp \in [Proc -> [Fd -> Desc \cup {0}]]
    /\ ForkState
    /\ \A d \in Desc :
           /\ f_desc_table[d].fd_cnt = Cardinality(Holders(d))
           /\ f_desc_table[d].fd_cnt = 0 <=> f_desc_table[d].fd_inode = 0

-----------------------------------------------------------------------------
(* The directory, and who uses what is in it *)

Users(n) == {pf \in Counted \X Fd : pf[2] \in FdsOf(pf[1], n)}

\* The files: root is not opened.
Files == imap \ {0, ROOT_INODE}

\* What is in the directory is in the map, at one place, under one name.
Entries ==
    /\ ROOT_INODE \in imap /\ dir[1] = [inode_nr |-> ROOT_INODE, name |-> NO_NAME]
    /\ \A s \in Slots \ {1} : dir[s] = Empty \/ (dir[s].inode_nr \in Files /\ dir[s].name \in Name)
    /\ \A s \in Slots : s > nr_dir_entries => dir[s] = Empty
    /\ \A s, t \in Slots :
           s # t => /\ dir[s].inode_nr # 0 => dir[s].inode_nr # dir[t].inode_nr
                    /\ dir[s].name \in Name => dir[s].name # dir[t].name

\* What is in the map is in the directory, and is a file or a directory.
Existing ==
    \A n \in imap \ {0} : inode[n].i_mode # "none" /\ \E s \in Slots : dir[s].inode_nr = n

\* InodesCounted.
Counts == \A n \in Inode \ {ROOT_INODE} : i_cnt[n] = Cardinality(Users(n))

IInv ==
    /\ nr_dir_entries \in Slots
    /\ i_cnt \in [Inode -> Nat]
    /\ state \in {"runs", "panic", "assert"}
    /\ Entries
    /\ Existing
    /\ \A d \in Desc : f_desc_table[d].fd_inode \in Files \cup {0}
    /\ Counts

-----------------------------------------------------------------------------
(* Numbers *)

\* Every set of numbers that is not empty has a least one.
LEMMA LeastIs ==
    ASSUME NEW S, S \subseteq Nat, S # {}
    PROVE  Least(S) \in S /\ \A y \in S : Least(S) <= y
<1> DEFINE R == {ss \in Nat \X Nat : ss[1] < ss[2]}
<1>1. IsWellFoundedOn(R, Nat)
  BY NatLessThanWellFounded DEF OpToRel
<1>2. \A x, y \in Nat : <<y, x>> \in R <=> y < x
  OBVIOUS
<1> HIDE DEF R
<1>3. PICK x \in S : \A y \in S : ~(<<y, x>> \in R)
  BY <1>1, WFMin
<1>4. ASSUME NEW y \in S PROVE x <= y
  <2>1. x \in Nat /\ y \in Nat
    OBVIOUS
  <2>2. ~(y < x)
    BY <1>2, <1>3, <2>1
  <2>. QED BY <2>1, <2>2
<1>. QED BY <1>4 DEF Least

\* The entries of the directory are numbered.
LEMMA SlotsAre == Cardinality(Name) \in Nat /\ Slots \subseteq Nat \ {0}
<1>1. Cardinality(Name) \in Nat
  BY FS_CardinalityType, FsAssumption
<1>. QED BY <1>1 DEF Slots

\* What search_file finds is the inode in an entry of that name.
LEMMA SearchFinds ==
    ASSUME NEW name, search_file(name) # 0
    PROVE  \E s \in Examined : dir[s].name = name /\ search_file(name) = dir[s].inode_nr
<1> DEFINE matches == {s \in Examined : dir[s].name = name}
<1>1. matches # {} /\ search_file(name) = dir[Least(matches)].inode_nr
  BY DEF search_file
<1>2. matches \subseteq Nat
  BY SlotsAre DEF Examined
<1>3. Least(matches) \in matches
  BY <1>1, <1>2, LeastIs
<1>. QED BY <1>1, <1>3

-----------------------------------------------------------------------------
(* Sectors *)

\* The bits of a file.
LEMMA RunIs == ASSUME NEW x \in Nat, NEW b PROVE b \in Run(x) <=> b \in Nat /\ x <= b /\ b < x + FILE_SECTS
BY FsAssumption DEF Run

\* mkfs() gives root and cmd.tar sectors of their own.
LEMMA SectorsInit == Init => SInv
<1> SUFFICES ASSUME Init PROVE SInv
  OBVIOUS
<1> USE FsAssumption
<1>1. imap \subseteq Inode \cup {0}
  BY DEF Init
<1>2. smap \subseteq Bits
  BY DEF Init, Bits, Run
<1>3. inode \in [Inode -> [i_mode : {"none", "regular", "char", "directory"}, i_start_sect : Nat]]
  BY DEF Init, NoInode
<1>4. dir \in [Slots -> [inode_nr : Inode \cup {0}, name : Name \cup {NO_NAME}]]
  BY DEF Init, Empty, ROOT_INODE
<1>5. /\ WithSectors = {1, 3}
      /\ inode[1].i_start_sect = 1 /\ inode[3].i_start_sect = TAR_START
  BY DEF Init, WithSectors, HasSectors, ROOT_INODE, NoInode
<1>6. smap = {0} \cup Run(1) \cup Run(TAR_START)
  BY DEF Init
<1>7. \A b : ~(b \in Run(1) /\ b \in Run(TAR_START))
  BY DEF Run
<1>8. 0 \notin Run(1) /\ 0 \notin Run(TAR_START)
  BY DEF Run
<1>. QED BY <1>1, <1>2, <1>3, <1>4, <1>5, <1>6, <1>7, <1>8 DEF SInv

\* A new file gets an inode and sectors that nobody has.
LEMMA SectorsCreate ==
    ASSUME SInv, NEW p \in Proc, NEW name \in Name, create_file(p, name)
    PROVE  SInv'
<1> USE FsAssumption
<1>1. PICK n \in Inode \ imap : n = alloc_imap_bit
  <2>1. Inode \ imap \subseteq Nat /\ Inode \ imap # {}
    BY DEF create_file, Creates
  <2>. QED BY <2>1, LeastIs DEF alloc_imap_bit
<1>2. PICK b \in Bits \ smap : b = Least(Bits \ smap)
  <2>1. Bits \ smap \subseteq Nat /\ Bits \ smap # {}
    BY DEF create_file, SectorsFree, Bits
  <2>. QED BY <2>1, LeastIs
<1>3. n \in Inode /\ n \notin imap /\ n # 0 /\ b \in Nat /\ b # 0
  BY DEF SInv, Bits
<1>4. Run(b) \subseteq Bits /\ Run(b) \cap smap = {}
  BY <1>2 DEF create_file, SectorsFree, alloc_smap_bit
<1>5. /\ imap' = imap \cup {n}
      /\ smap' = smap \cup Run(b)
      /\ inode' = [inode EXCEPT ![n] = [i_mode |-> "regular", i_start_sect |-> b]]
  BY <1>1, <1>2 DEF create_file, alloc_smap_bit
<1>6. /\ inode' \in [Inode -> [i_mode : {"none", "regular", "char", "directory"}, i_start_sect : Nat]]
      /\ inode'[n].i_mode = "regular" /\ inode'[n].i_start_sect = b
      /\ \A k \in Inode : k # n => inode'[k] = inode[k]
  BY <1>3, <1>5 DEF SInv
<1>7. WithSectors' = WithSectors \cup {n}
  BY <1>3, <1>5, <1>6 DEF WithSectors, HasSectors, SInv
<1>8. ASSUME NEW k \in WithSectors PROVE k \in Inode /\ k # n /\ inode'[k] = inode[k]
  <2>1. k \in imap /\ k \in Inode
    BY DEF WithSectors, SInv
  <2>. QED BY <1>3, <1>6, <2>1
<1>9. dir' \in [Slots -> [inode_nr : Inode \cup {0}, name : Name \cup {NO_NAME}]]
  BY <1>1 DEF create_file, new_dir_entry, SInv
<1>10. \A k \in WithSectors' : 0 \notin Run(inode'[k].i_start_sect)
  BY <1>3, <1>6, <1>7, <1>8, RunIs DEF SInv
<1>11. ASSUME NEW x
       PROVE  x \in smap' <=> x = 0 \/ \E k \in WithSectors' : x \in Run(inode'[k].i_start_sect)
  BY <1>5, <1>6, <1>7, <1>8 DEF SInv
<1>12. ASSUME NEW k \in WithSectors', NEW l \in WithSectors', NEW x,
              x \in Run(inode'[k].i_start_sect), x \in Run(inode'[l].i_start_sect)
       PROVE  k = l
  <2>1. \A j \in WithSectors : x \in Run(inode'[j].i_start_sect) => x \in smap
    BY <1>8 DEF SInv
  <2>2. ~(x \in Run(b) /\ x \in smap)
    BY <1>4
  <2>3. k \in WithSectors /\ l \in WithSectors => k = l
    BY <1>8, <1>12 DEF SInv
  <2>. QED BY <1>6, <1>7, <1>12, <2>1, <2>2, <2>3
<1>13. imap' \subseteq Inode \cup {0} /\ smap' \subseteq Bits
  BY <1>3, <1>4, <1>5 DEF SInv
<1>. QED BY <1>6, <1>9, <1>10, <1>11, <1>12, <1>13 DEF SInv

\* A removed file gives back its sectors, and no other's.
LEMMA SectorsRemove ==
    ASSUME SInv, NEW n \in Inode, Removable(n), Listed(n), Remove(n)
    PROVE  SInv'
<1> USE FsAssumption
<1>1. n # 0 /\ n \in WithSectors
  BY DEF Removable, Listed, WithSectors, HasSectors
<1>2. /\ imap' = imap \ {n}
      /\ smap' = smap \ Run(inode[n].i_start_sect)
      /\ inode' = [inode EXCEPT ![n] = NoInode]
      /\ dir' = [dir EXCEPT ![Least(EntriesOf(n))] = Empty]
  BY DEF Remove, ClearSectors, ClearEntry
<1>3. /\ inode' \in [Inode -> [i_mode : {"none", "regular", "char", "directory"}, i_start_sect : Nat]]
      /\ \A k \in Inode : k # n => inode'[k] = inode[k]
  BY <1>2 DEF SInv, NoInode
<1>4. WithSectors' = WithSectors \ {n}
  BY <1>2, <1>3 DEF WithSectors, HasSectors, SInv
<1>5. \A k \in WithSectors' : k \in WithSectors /\ k # n /\ inode'[k] = inode[k]
  BY <1>3, <1>4 DEF WithSectors, SInv
<1>6. dir' \in [Slots -> [inode_nr : Inode \cup {0}, name : Name \cup {NO_NAME}]]
  BY <1>2 DEF SInv, Empty
<1>7. \A k \in WithSectors' : 0 \notin Run(inode'[k].i_start_sect)
  BY <1>5 DEF SInv
<1>8. ASSUME NEW x
      PROVE  x \in smap' <=> x = 0 \/ \E k \in WithSectors' : x \in Run(inode'[k].i_start_sect)
  <2>1. x \in smap' <=> x \in smap /\ x \notin Run(inode[n].i_start_sect)
    BY <1>2
  <2>2. x \in smap <=> x = 0 \/ \E k \in WithSectors : x \in Run(inode[k].i_start_sect)
    BY DEF SInv
  <2>3. 0 \notin Run(inode[n].i_start_sect)
    BY <1>1 DEF SInv
  <2>4. \A k \in WithSectors :
            x \in Run(inode[k].i_start_sect) /\ x \in Run(inode[n].i_start_sect) => k = n
    BY <1>1 DEF SInv
  <2>. QED BY <1>1, <1>4, <1>5, <2>1, <2>2, <2>3, <2>4
<1>9. ASSUME NEW k \in WithSectors', NEW l \in WithSectors', NEW x,
             x \in Run(inode'[k].i_start_sect), x \in Run(inode'[l].i_start_sect)
      PROVE  k = l
  BY <1>5, <1>9 DEF SInv
<1>10. imap' \subseteq Inode \cup {0} /\ smap' \subseteq Bits
  BY <1>2 DEF SInv
<1>. QED BY <1>3, <1>6, <1>7, <1>8, <1>9, <1>10 DEF SInv

\* The disk changes with a file.
LEMMA DiskSteps ==
    ASSUME SInv, [Next]_vars
    PROVE  \/ \E p \in Proc, name \in Name : create_file(p, name)
           \/ \E p \in Proc, name \in Name, n \in Inode :
                  /\ do_unlink(p, name) /\ n = search_file(name) /\ MayUnlink(n)
                  /\ Removable(n) /\ Listed(n) /\ Remove(n)
           \/ UNCHANGED disk
<1>1. ASSUME NEW p \in Proc, NEW name \in Name, do_unlink(p, name)
      PROVE  \/ UNCHANGED disk
             \/ \E n \in Inode : /\ n = search_file(name) /\ MayUnlink(n)
                                  /\ Removable(n) /\ Listed(n) /\ Remove(n)
  <2>1. search_file(name) # 0
    BY <1>1 DEF do_unlink
  <2>2. search_file(name) \in Inode
    BY <2>1, SearchFinds DEF SInv, Examined
  <2>. QED BY <1>1, <2>2 DEF do_unlink, Refuse
<1>. QED
   BY <1>1
   DEF Next, vars, do_open, TableFull, create_fileFails, do_close, ForkCopy, fs_exit, fs_fork, init_fs

\* No step makes the sectors of two files meet, or the map tell anything else than the files.
THEOREM SectorInvariance == Spec => []SInv
<1>1. SInv /\ [Next]_vars => SInv'
  <2> SUFFICES ASSUME SInv, [Next]_vars PROVE SInv'
    OBVIOUS
  <2>1. CASE UNCHANGED disk
    BY <2>1 DEF SInv, disk, WithSectors, HasSectors
  <2>. QED BY <2>1, DiskSteps, SectorsCreate, SectorsRemove
<1>. QED BY <1>1, SectorsInit, PTL DEF Spec

\* SectorsApart: the sector map is exactly what the files have, and no two files share
\* a sector, whatever is refused, cut off or lost.
THEOREM SectorsNeverShared == Spec => []SectorsApart
<1>1. SInv => SectorsApart
  <2> SUFFICES ASSUME SInv PROVE SectorsApart
    OBVIOUS
  <2>1. smap = {0} \cup UNION {Run(inode[n].i_start_sect) : n \in WithSectors}
    BY DEF SInv
  <2>2. \A n, k \in WithSectors :
            n # k => Run(inode[n].i_start_sect) \cap Run(inode[k].i_start_sect) = {}
    BY DEF SInv
  <2>. QED BY <2>1, <2>2 DEF SectorsApart, WithSectors
<1>. QED BY <1>1, SectorInvariance, PTL

-----------------------------------------------------------------------------
(* Counting *)

\* There are as many pairs with p as there are things to pair it with.
LEMMA PairsWith ==
    ASSUME NEW p, NEW F, IsFiniteSet(F)
    PROVE  IsFiniteSet({p} \X F) /\ Cardinality({p} \X F) = Cardinality(F)
<1>1. IsFiniteSet({p}) /\ Cardinality({p}) = 1
  BY FS_Singleton
<1>2. IsFiniteSet({p} \X F) /\ Cardinality({p} \X F) = 1 * Cardinality(F)
  BY <1>1, FS_Product
<1>3. Cardinality(F) \in Nat
  BY FS_CardinalityType
<1>4. \A k \in Nat : 1 * k = k
  OBVIOUS
<1>. QED BY <1>2, <1>3, <1>4

\* Sets that have nothing in common add up.
LEMMA Plus ==
    ASSUME NEW S, NEW T, IsFiniteSet(S), IsFiniteSet(T), S \cap T = {}
    PROVE  /\ IsFiniteSet(S \cup T) /\ Cardinality(S) \in Nat /\ Cardinality(T) \in Nat
           /\ Cardinality(S \cup T) = Cardinality(S) + Cardinality(T)
<1>1. Cardinality(S) \in Nat /\ Cardinality(T) \in Nat
  BY FS_CardinalityType
<1>2. Cardinality(S \cup T) = Cardinality(S) + Cardinality(T) - Cardinality({})
  BY FS_Union
<1>3. Cardinality({}) = 0
  BY FS_EmptySet
<1>. QED BY <1>1, <1>2, <1>3, FS_Union

\* The descriptors F of process p.
With(p, F) == {p} \X F

\* The pairs with p come on top of those without.
LEMMA AndPairsWith ==
    ASSUME NEW T, NEW p, NEW F, IsFiniteSet(T), IsFiniteSet(F), \A f \in F : <<p, f>> \notin T
    PROVE  /\ Cardinality(T) \in Nat /\ Cardinality(F) \in Nat
           /\ Cardinality(T \cup With(p, F)) = Cardinality(T) + Cardinality(F)
<1> DEFINE U == With(p, F)
<1>1. T \cap U = {}
  BY DEF With
<1>2. IsFiniteSet(U) /\ Cardinality(U) = Cardinality(F)
  BY PairsWith DEF With
<1> HIDE DEF U
<1>3. /\ Cardinality(T) \in Nat /\ Cardinality(U) \in Nat
      /\ Cardinality(T \cup U) = Cardinality(T) + Cardinality(U)
  BY <1>1, <1>2, Plus
<1>. QED BY <1>2, <1>3 DEF U

\* Two sets of pairs are equal if they have the same pairs.
LEMMA SamePairs ==
    ASSUME NEW A, NEW B, NEW S, NEW T, S \subseteq A \X B, T \subseteq A \X B,
           \A q \in A, g \in B : <<q, g>> \in S <=> <<q, g>> \in T
    PROVE  S = T
<1>1. ASSUME NEW x \in A \X B PROVE x \in S <=> x \in T
  <2>1. PICK q \in A, g \in B : x = <<q, g>>
    OBVIOUS
  <2>. QED BY <2>1
<1>. QED BY <1>1

\* There are finitely many descriptors.
LEMMA FinitelyMany ==
    /\ \A p, d : IsFiniteSet(FdsOn(p, d))
    /\ \A p, n : IsFiniteSet(FdsOf(p, n))
    /\ \A d : IsFiniteSet(Holders(d)) /\ Cardinality(Holders(d)) \in Nat
    /\ \A n : IsFiniteSet(Users(n)) /\ Cardinality(Users(n)) \in Nat
<1> USE FsAssumption
<1>1. IsFiniteSet(Counted) /\ IsFiniteSet(Fd)
  BY FS_Subset DEF Counted
<1>2. IsFiniteSet(Counted \X Fd)
  BY <1>1, FS_Product
<1>3. \A d : Holders(d) \in SUBSET (Counted \X Fd)
  BY DEF Holders
<1>4. \A n : Users(n) \in SUBSET (Counted \X Fd)
  BY DEF Users
<1>5. \A p, d : FdsOn(p, d) \in SUBSET Fd
  BY DEF FdsOn
<1>6. \A p, n : FdsOf(p, n) \in SUBSET Fd
  BY DEF FdsOf
<1>7. \A d : IsFiniteSet(Holders(d))
  BY <1>2, <1>3, FS_Subset
<1>8. \A n : IsFiniteSet(Users(n))
  BY <1>2, <1>4, FS_Subset
<1>. QED BY <1>1, <1>5, <1>6, <1>7, <1>8, FS_Subset, FS_CardinalityType

\* Who holds nothing.
LEMMA NobodyHolds ==
    ASSUME FInv, NEW d \in Desc, f_desc_table[d].fd_inode = 0 \/ f_desc_table[d].fd_cnt = 0
    PROVE  Holders(d) = {}
BY FinitelyMany, FS_EmptySet DEF FInv

-----------------------------------------------------------------------------
(* The slots of f_desc_table *)

NothingOpen ==
    /\ f_desc_table = [d \in Desc |-> Unused]
    /\ filp = [p \in Proc |-> [fd \in Fd |-> 0]]
    /\ forking = NotForking

\* Nobody has a file open at first, and after a reboot.
LEMMA DescriptorsInit == NothingOpen => FInv
<1> SUFFICES ASSUME NothingOpen PROVE FInv
  OBVIOUS
<1> USE FsAssumption DEF NothingOpen
<1>1. \A d \in Desc : Holders(d) = {}
  BY DEF Holders, Counted
<1>2. \A d \in Desc : Cardinality(Holders(d)) = 0
  BY <1>1, FS_EmptySet
<1>. QED BY <1>2 DEF FInv, ForkState, Unused

\* A process that has just opened a file is the only one that has it by this slot.
LEMMA DescriptorsConnect ==
    ASSUME FInv, NEW p \in Proc, Caller(p), NEW n \in Inode,
           FreeFds(p) # {}, FreeDescs # {}, Connect(p, n), UNCHANGED forking
    PROVE  /\ FInv'
           /\ \E f \in Fd, d \in Desc :
                  /\ filp[p][f] = 0 /\ Holders(d) = {}
                  /\ f_desc_table'[d].fd_inode = n
                  /\ \A e \in Desc \ {d} : f_desc_table'[e] = f_desc_table[e]
                  /\ \A q \in Proc, g \in Fd :
                         filp'[q][g] = IF q = p /\ g = f THEN d ELSE filp[q][g]
<1> USE FsAssumption
<1>1. PICK d \in Desc : d = Least(FreeDescs) /\ f_desc_table[d].fd_inode = 0
  <2>1. FreeDescs \subseteq Nat
    BY DEF FreeDescs
  <2>. QED BY <2>1, LeastIs DEF FreeDescs
<1>2. PICK f \in Fd : f = Least(FreeFds(p)) /\ filp[p][f] = 0
  <2>1. FreeFds(p) \subseteq Nat
    BY DEF FreeFds
  <2>. QED BY <2>1, LeastIs DEF FreeFds
<1>3. /\ filp' = [filp EXCEPT ![p][f] = d]
      /\ f_desc_table' = [f_desc_table EXCEPT ![d] = [fd_inode |-> n, fd_cnt |-> 1]]
  BY <1>1, <1>2 DEF Connect
<1>4. /\ filp' \in [Proc -> [Fd -> Desc \cup {0}]]
      /\ \A q \in Proc, g \in Fd :
             filp'[q][g] = IF q = p /\ g = f THEN d ELSE filp[q][g]
  BY <1>3 DEF FInv
<1>5. /\ f_desc_table' \in [Desc -> [fd_inode : Inode \cup {0}, fd_cnt : Nat]]
      /\ f_desc_table'[d].fd_inode = n /\ f_desc_table'[d].fd_cnt = 1
      /\ \A e \in Desc \ {d} : f_desc_table'[e] = f_desc_table[e]
  BY <1>3 DEF FInv
<1>6. Holders(d) = {} /\ p \in Counted /\ Counted' = Counted
  BY <1>1, NobodyHolds DEF Caller, Counted
<1>7. Holders(d)' = {<<p, f>>}
  <2>1. \A q \in Counted, g \in Fd : filp[q][g] # d
    <3> SUFFICES ASSUME NEW q \in Counted, NEW g \in Fd, filp[q][g] = d PROVE FALSE
      OBVIOUS
    <3>1. <<q, g>> \in Holders(d)
      BY DEF Holders
    <3>. QED BY <1>6, <3>1
  <2>2. \A q \in Counted, g \in Fd : <<q, g>> \in Holders(d)' <=> <<q, g>> = <<p, f>>
    BY <1>4, <1>6, <2>1 DEF Holders, Counted
  <2>3. Holders(d)' \subseteq Counted \X Fd /\ {<<p, f>>} \subseteq Counted \X Fd
    BY <1>6 DEF Holders
  <2>. QED BY ONLY <2>2, <2>3, SamePairs
<1>8. ASSUME NEW e \in Desc \ {d} PROVE Holders(e)' = Holders(e)
  <2>1. \A q \in Counted, g \in Fd : <<q, g>> \in Holders(e)' <=> <<q, g>> \in Holders(e)
    BY <1>2, <1>4, <1>6 DEF Holders, Counted
  <2>2. Holders(e)' \subseteq Counted \X Fd /\ Holders(e) \subseteq Counted \X Fd
    BY <1>6 DEF Holders
  <2>. QED BY ONLY <2>1, <2>2, SamePairs
<1>9. Cardinality(Holders(d)') = 1
  BY <1>7, FS_Singleton
<1>10. ForkState'
  BY <1>4 DEF FInv, ForkState, Caller
<1>11. FInv'
  <2>1. ASSUME NEW e \in Desc
        PROVE  /\ f_desc_table'[e].fd_cnt = Cardinality(Holders(e)')
               /\ f_desc_table'[e].fd_cnt = 0 <=> f_desc_table'[e].fd_inode = 0
    <3>1. CASE e = d
      BY <1>5, <1>9, <3>1
    <3>2. CASE e # d
      BY <1>5, <1>8, <3>2 DEF FInv
    <3>. QED BY <3>1, <3>2
  <2>2. /\ f_desc_table' \in [Desc -> [fd_inode : Inode \cup {0}, fd_cnt : Nat]]
        /\ filp' \in [Proc -> [Fd -> Desc \cup {0}]]
    BY <1>4, <1>5
  <2>. QED BY <1>10, <2>1, <2>2 DEF FInv
<1>12. /\ f \in Fd /\ d \in Desc
       /\ filp[p][f] = 0 /\ Holders(d) = {}
       /\ f_desc_table'[d].fd_inode = n
       /\ \A e \in Desc \ {d} : f_desc_table'[e] = f_desc_table[e]
       /\ \A q \in Proc, g \in Fd :
              filp'[q][g] = IF q = p /\ g = f THEN d ELSE filp[q][g]
  BY <1>1, <1>2, <1>4, <1>5, <1>6
<1>. QED BY <1>11, <1>12


\* A process that closes a file no longer has it by this slot.
LEMMA DescriptorsClose ==
    ASSUME FInv, NEW p \in Proc, NEW fd \in Fd, do_close(p, fd)
    PROVE  FInv'
<1> USE FsAssumption
<1>0. PICK d \in Desc : d = filp[p][fd]
  BY DEF FInv, do_close
<1>1. d # 0 /\ p \in Counted /\ Counted' = Counted
  BY DEF do_close, Caller, Counted
<1>2. /\ filp' = [filp EXCEPT ![p][fd] = 0]
      /\ f_desc_table' = [f_desc_table EXCEPT ![d] = Dropped(d)]
  BY <1>0 DEF do_close
<1>3. /\ filp' \in [Proc -> [Fd -> Desc \cup {0}]]
      /\ \A q \in Proc, g \in Fd :
             filp'[q][g] = IF q = p /\ g = fd THEN 0 ELSE filp[q][g]
  BY <1>2 DEF FInv
<1>4. <<p, fd>> \in Holders(d)
  BY <1>0, <1>1 DEF Holders
<1>5. /\ IsFiniteSet(Holders(d)) /\ Cardinality(Holders(d)) \in Nat \ {0}
      /\ Cardinality(Holders(d) \ {<<p, fd>>}) = Cardinality(Holders(d)) - 1
  BY <1>4, FinitelyMany, FS_EmptySet, FS_RemoveElement
<1>6. f_desc_table[d].fd_cnt = Cardinality(Holders(d)) /\ f_desc_table[d].fd_inode # 0
      /\ f_desc_table[d] \in [fd_inode : Inode \cup {0}, fd_cnt : Nat]
  BY <1>1, <1>5 DEF FInv
<1>7. /\ Dropped(d) \in [fd_inode : Inode \cup {0}, fd_cnt : Nat]
      /\ Dropped(d).fd_cnt = Cardinality(Holders(d)) - 1
      /\ Dropped(d).fd_cnt = 0 <=> Dropped(d).fd_inode = 0
  BY <1>5, <1>6 DEF Dropped, Unused
<1>8. /\ f_desc_table' \in [Desc -> [fd_inode : Inode \cup {0}, fd_cnt : Nat]]
      /\ f_desc_table'[d] = Dropped(d)
      /\ \A e \in Desc \ {d} : f_desc_table'[e] = f_desc_table[e]
  BY <1>1, <1>2, <1>7 DEF FInv
<1>9. Holders(d)' = Holders(d) \ {<<p, fd>>}
  <2>1. \A q \in Counted, g \in Fd :
            <<q, g>> \in Holders(d)' <=> <<q, g>> \in Holders(d) \ {<<p, fd>>}
    BY <1>1, <1>3 DEF Holders, Counted
  <2>2. Holders(d)' \subseteq Counted \X Fd /\ Holders(d) \ {<<p, fd>>} \subseteq Counted \X Fd
    BY <1>1 DEF Holders
  <2>. QED BY ONLY <2>1, <2>2, SamePairs
<1>10. ASSUME NEW e \in Desc \ {d} PROVE Holders(e)' = Holders(e)
  <2>1. \A q \in Counted, g \in Fd : <<q, g>> \in Holders(e)' <=> <<q, g>> \in Holders(e)
    BY <1>0, <1>1, <1>3 DEF Holders, Counted
  <2>2. Holders(e)' \subseteq Counted \X Fd /\ Holders(e) \subseteq Counted \X Fd
    BY <1>1 DEF Holders
  <2>. QED BY ONLY <2>1, <2>2, SamePairs
<1>11. ForkState'
  BY <1>3 DEF FInv, ForkState, do_close, Caller
<1>12. ASSUME NEW e \in Desc
       PROVE  /\ f_desc_table'[e].fd_cnt = Cardinality(Holders(e)')
              /\ f_desc_table'[e].fd_cnt = 0 <=> f_desc_table'[e].fd_inode = 0
  <2>1. CASE e = d
    BY <1>5, <1>7, <1>8, <1>9, <2>1
  <2>2. CASE e # d
    BY <1>8, <1>10, <2>2 DEF FInv
  <2>. QED BY <2>1, <2>2
<1>. QED BY <1>3, <1>8, <1>11, <1>12 DEF FInv


\* While MM copies a parent, the child is not counted.
LEMMA DescriptorsCopy ==
    ASSUME FInv, NEW p \in Proc, NEW c \in Proc, ForkCopy(p, c)
    PROVE  FInv'
<1> USE FsAssumption
<1>1. /\ Counted = Proc /\ Counted' = Proc \ {c}
      /\ forking' = [parent |-> p, child |-> c] /\ p # c
      /\ f_desc_table' = f_desc_table
      /\ \A g \in Fd : filp[c][g] = 0
  BY DEF ForkCopy, Counted, NotForking, FreeFds
<1>2. /\ filp' \in [Proc -> [Fd -> Desc \cup {0}]]
      /\ \A q \in Proc : filp'[q] = IF q = c THEN filp[p] ELSE filp[q]
  BY DEF ForkCopy, FInv
<1>3. ASSUME NEW d \in Desc PROVE Holders(d)' = Holders(d)
  <2>1. \A q \in Proc, g \in Fd : <<q, g>> \in Holders(d)' <=> <<q, g>> \in Holders(d)
    BY <1>1, <1>2 DEF Holders
  <2>2. Holders(d)' \subseteq Proc \X Fd /\ Holders(d) \subseteq Proc \X Fd
    BY <1>1 DEF Holders
  <2>. QED BY ONLY <2>1, <2>2, SamePairs
<1>4. ForkState'
  BY <1>1, <1>2 DEF ForkState
<1>. QED BY <1>1, <1>2, <1>3, <1>4 DEF FInv

\* When FS hears of a fork, it counts what the child has, which is what the parent has.
LEMMA DescriptorsFork ==
    ASSUME FInv, fs_fork
    PROVE  FInv'
<1> USE FsAssumption
<1>1. PICK c \in Proc, r \in Proc : 
         /\ c = forking.child /\ r # c /\ filp[c] = filp[r] /\ r \in Counted
         /\ Counted = Proc \ {c} /\ Counted' = Proc
  BY DEF fs_fork, FInv, ForkState, Counted, NotForking
<1>2. filp' = filp /\ forking' = NotForking
  BY DEF fs_fork
<1>3. ASSUME NEW d \in Desc
      PROVE  /\ f_desc_table'[d] \in [fd_inode : Inode \cup {0}, fd_cnt : Nat]
             /\ f_desc_table'[d].fd_cnt = Cardinality(Holders(d)')
             /\ f_desc_table'[d].fd_cnt = 0 <=> f_desc_table'[d].fd_inode = 0
  <2> DEFINE F == FdsOn(c, d)
  <2>1. Holders(d)' = Holders(d) \cup With(c, F)
    <3>1. \A q \in Proc, g \in Fd :
              <<q, g>> \in Holders(d)' <=> <<q, g>> \in Holders(d) \cup With(c, F)
      BY <1>1, <1>2 DEF Holders, FdsOn, With
    <3>2. Holders(d)' \subseteq Proc \X Fd /\ Holders(d) \cup With(c, F) \subseteq Proc \X Fd
      BY <1>1 DEF Holders, FdsOn, With
    <3>. QED BY ONLY <3>1, <3>2, SamePairs
  <2>2. \A g \in F : <<c, g>> \notin Holders(d)
    BY <1>1 DEF Holders
  <2>3. /\ Cardinality(Holders(d)) \in Nat /\ Cardinality(F) \in Nat
        /\ Cardinality(Holders(d)') = Cardinality(Holders(d)) + Cardinality(F)
    <3>1. IsFiniteSet(Holders(d)) /\ IsFiniteSet(F)
      BY FinitelyMany
    <3> HIDE DEF F
    <3>. QED BY ONLY <2>1, <2>2, <3>1, AndPairsWith
  <2>4. Holders(d) = {} => F = {}
    <3>1. \A g \in F : <<r, g>> \in Holders(d)
      BY <1>1 DEF Holders, FdsOn, With
    <3>. QED BY <3>1
  <2>5. Cardinality(Holders(d)) = 0 => Cardinality(F) = 0
    BY <2>4, FinitelyMany, FS_EmptySet
  <2>6. /\ f_desc_table'[d].fd_inode = f_desc_table[d].fd_inode
        /\ f_desc_table'[d].fd_cnt = f_desc_table[d].fd_cnt + Cardinality(F)
        /\ f_desc_table'[d] = [f_desc_table[d] EXCEPT !.fd_cnt = @ + Cardinality(F)]
    BY <1>1 DEF fs_fork, FInv
  <2> HIDE DEF F
  <2>7. /\ f_desc_table[d] \in [fd_inode : Inode \cup {0}, fd_cnt : Nat]
        /\ f_desc_table[d].fd_cnt = Cardinality(Holders(d))
        /\ f_desc_table[d].fd_cnt = 0 <=> f_desc_table[d].fd_inode = 0
    BY DEF FInv
  <2>. QED BY <2>3, <2>5, <2>6, <2>7
<1>4. f_desc_table' \in [Desc -> [fd_inode : Inode \cup {0}, fd_cnt : Nat]]
  BY <1>3 DEF fs_fork
<1>. QED BY <1>2, <1>3, <1>4 DEF FInv, ForkState

\* A process that exits gives back what it has, by however many descriptors.
LEMMA DescriptorsExit ==
    ASSUME FInv, NEW p \in Proc, fs_exit(p)
    PROVE  FInv'
<1> USE FsAssumption
<1>1. p \in Counted /\ Counted' = Counted
  BY DEF fs_exit, Caller, Counted
<1>2. /\ filp' \in [Proc -> [Fd -> Desc \cup {0}]]
      /\ \A q \in Proc, g \in Fd : filp'[q][g] = IF q = p THEN 0 ELSE filp[q][g]
  BY DEF fs_exit, FInv
<1>3. ASSUME NEW d \in Desc
      PROVE  /\ f_desc_table'[d] \in [fd_inode : Inode \cup {0}, fd_cnt : Nat]
             /\ f_desc_table'[d].fd_cnt = Cardinality(Holders(d)')
             /\ f_desc_table'[d].fd_cnt = 0 <=> f_desc_table'[d].fd_inode = 0
  <2> DEFINE F == FdsOn(p, d)
  <2>1. Holders(d) = Holders(d)' \cup With(p, F)
    <3>1. \A q \in Counted, g \in Fd :
              <<q, g>> \in Holders(d) <=> <<q, g>> \in Holders(d)' \cup With(p, F)
      BY <1>1, <1>2 DEF Holders, FdsOn, With, Counted
    <3>2. Holders(d) \subseteq Counted \X Fd /\ Holders(d)' \cup With(p, F) \subseteq Counted \X Fd
      BY <1>1 DEF Holders, FdsOn, With
    <3>. QED BY ONLY <3>1, <3>2, SamePairs
  <2>2. \A g \in F : <<p, g>> \notin Holders(d)'
    BY <1>1, <1>2 DEF Holders
  <2>3. IsFiniteSet(Holders(d)') /\ IsFiniteSet(F)
    BY <2>1, FinitelyMany, FS_Subset
  <2>4. /\ Cardinality(Holders(d)') \in Nat /\ Cardinality(F) \in Nat
        /\ Cardinality(Holders(d)) = Cardinality(Holders(d)') + Cardinality(F)
    <3> HIDE DEF F
    <3>. QED BY ONLY <2>1, <2>2, <2>3, AndPairsWith
  <2> HIDE DEF F
  <2>5. /\ f_desc_table[d] \in [fd_inode : Inode \cup {0}, fd_cnt : Nat]
        /\ f_desc_table[d].fd_cnt = Cardinality(Holders(d))
        /\ f_desc_table[d].fd_cnt = 0 <=> f_desc_table[d].fd_inode = 0
    BY DEF FInv
  <2>6. f_desc_table[d].fd_cnt - Cardinality(F) = Cardinality(Holders(d)')
    BY <2>4, <2>5
  <2>7. f_desc_table'[d] = IF Cardinality(Holders(d)') = 0 THEN Unused
                           ELSE [f_desc_table[d] EXCEPT !.fd_cnt = Cardinality(Holders(d)')]
    BY <2>6 DEF fs_exit, F
  <2>8. CASE Cardinality(Holders(d)') = 0
    BY <2>7, <2>8 DEF Unused
  <2>9. CASE Cardinality(Holders(d)') # 0
    BY <2>4, <2>5, <2>7, <2>9
  <2>. QED BY <2>8, <2>9
<1>4. f_desc_table' \in [Desc -> [fd_inode : Inode \cup {0}, fd_cnt : Nat]]
  BY <1>3 DEF fs_exit
<1>5. ForkState'
  BY <1>2 DEF FInv, ForkState, fs_exit, Caller
<1>. QED BY <1>2, <1>3, <1>4, <1>5 DEF FInv


\* What the requests do to the descriptors.
LEMMA DescriptorsStep == SInv /\ FInv /\ [Next]_vars => FInv'
<1> SUFFICES ASSUME SInv, FInv, [Next]_vars PROVE FInv'
  OBVIOUS
<1> USE FsAssumption
<1>1. ASSUME UNCHANGED <<f_desc_table, filp, forking>> PROVE FInv'
  <2>1. \A d : Holders(d)' = Holders(d)
    BY <1>1 DEF Holders, Counted
  <2>2. ForkState'
    BY <1>1 DEF FInv, ForkState
  <2>. QED BY <1>1, <2>1, <2>2 DEF FInv
<1>2. ASSUME NEW p \in Proc, NEW name \in Name, do_open(p, name) PROVE FInv'
  <2>1. search_file(name) \in Inode
    BY <1>2, SearchFinds DEF do_open, SInv, Examined
  <2>. QED BY <1>2, <2>1, DescriptorsConnect DEF do_open
<1>3. ASSUME NEW p \in Proc, NEW name \in Name, create_file(p, name) PROVE FInv'
  <2>1. alloc_imap_bit \in Inode
    <3>1. Inode \ imap \subseteq Nat /\ Inode \ imap # {}
      BY <1>3 DEF create_file, Creates
    <3>. QED BY <3>1, LeastIs DEF alloc_imap_bit
  <2>. QED BY <1>3, <2>1, DescriptorsConnect DEF create_file, Creates
<1>4. ASSUME NEW p \in Proc, NEW name \in Name, do_unlink(p, name) PROVE FInv'
  BY <1>1, <1>4 DEF do_unlink, Refuse, Remove, memory
<1>5. ASSUME NEW p \in Proc, NEW name \in Name, TableFull(p, name) \/ create_fileFails(p, name)
      PROVE  FInv'
  BY <1>1, <1>5 DEF TableFull, create_fileFails, memory
<1>6. CASE init_fs
  <2>1. NothingOpen'
    BY <1>6 DEF init_fs, NothingOpen
  <2>. QED BY <2>1, DescriptorsInit, PTL
<1>7. CASE UNCHANGED vars
  BY <1>1, <1>7 DEF vars, memory
<1>. QED
   BY <1>2, <1>3, <1>4, <1>5, <1>6, <1>7,
      DescriptorsClose, DescriptorsCopy, DescriptorsFork, DescriptorsExit DEF Next

\* The slots of f_desc_table and the descriptors of the processes fit together.
THEOREM DescriptorInvariance == Spec => []FInv
<1>1. Init => FInv
  BY DescriptorsInit DEF Init, NothingOpen
<1>. QED BY <1>1, DescriptorsStep, SectorInvariance, PTL DEF Spec

\* DescriptorsCounted: fd_cnt is how many descriptors stand for the slot, and the slot is
\* free exactly when none does, whatever open, close, fork and exit came before.
THEOREM DescriptorsShared == Spec => []DescriptorsCounted
<1>1. FInv => DescriptorsCounted
  BY DEF FInv, DescriptorsCounted, Holders
<1>. QED BY <1>1, DescriptorInvariance, PTL


-----------------------------------------------------------------------------
(* The directory *)

\* search_file looks at every entry that the size of the directory covers.
LEMMA ExaminedAll == nr_dir_entries \in Slots => 1 .. nr_dir_entries \subseteq Examined
<1> SUFFICES ASSUME nr_dir_entries \in Slots PROVE 1 .. nr_dir_entries \subseteq Examined
  OBVIOUS
<1>1. \A k \in Nat, m \in Nat \ {0} : k <= m * ((k + m - 1) \div m)
  OBVIOUS
<1>2. nr_dir_entries <= PER_SECT * ((nr_dir_entries + PER_SECT - 1) \div PER_SECT)
  BY <1>1, FsAssumption, SlotsAre
<1>3. ASSUME NEW s \in 1 .. nr_dir_entries PROVE s \in Slots /\ s <= nr_dir_entries
  BY SlotsAre DEF Slots
<1>4. PER_SECT * ((nr_dir_entries + PER_SECT - 1) \div PER_SECT) \in Int
  BY FsAssumption, SlotsAre
<1>. QED BY <1>2, <1>3, <1>4, SlotsAre DEF Examined

\* A file is found by its name, and a name that is not found is in no entry.
Search ==
    \A name \in Name :
        \/ search_file(name) = 0 /\ \A s \in Slots : dir[s].name # name
        \/ \E s \in Slots \ {1} :
               /\ s <= nr_dir_entries /\ dir[s].name = name
               /\ search_file(name) = dir[s].inode_nr /\ search_file(name) \in Files

LEMMA Searches == IInv => Search
<1> SUFFICES ASSUME IInv, NEW name \in Name
             PROVE  \/ search_file(name) = 0 /\ \A s \in Slots : dir[s].name # name
                    \/ \E s \in Slots \ {1} :
                           /\ s <= nr_dir_entries /\ dir[s].name = name
                           /\ search_file(name) = dir[s].inode_nr /\ search_file(name) \in Files
  BY DEF Search
<1>1. ASSUME NEW s \in Slots, dir[s].name = name
      PROVE  s # 1 /\ dir[s].inode_nr \in Files /\ s <= nr_dir_entries
  BY <1>1, FsAssumption, SlotsAre DEF IInv, Entries, Empty
<1> DEFINE matches == {s \in Examined : dir[s].name = name}
<1>2. matches \subseteq Nat /\ matches \subseteq Slots
  BY SlotsAre DEF Examined
<1>3. CASE matches = {}
  <2>1. search_file(name) = 0
    BY <1>3 DEF search_file
  <2>2. \A s \in Slots : dir[s].name # name
    <3> SUFFICES ASSUME NEW s \in Slots, dir[s].name = name PROVE FALSE
      OBVIOUS
    <3>1. s \in 1 .. nr_dir_entries
      BY <1>1, SlotsAre DEF IInv
    <3>2. s \in Examined
      BY <3>1, ExaminedAll DEF IInv
    <3>. QED BY <1>3, <3>2
  <2>. QED BY <2>1, <2>2
<1>4. CASE matches # {}
  <2>1. PICK s \in matches : s = Least(matches)
    BY <1>2, <1>4, LeastIs
  <2>2. search_file(name) = dir[s].inode_nr /\ s \in Slots /\ dir[s].name = name
    BY <1>2, <1>4, <2>1 DEF search_file
  <2>. QED BY <1>1, <2>2
<1>. QED BY <1>3, <1>4

\* A new entry goes where nothing is, and leaves no gap beyond the end.
LEMMA NewSlotIs ==
    ASSUME IInv, NewSlot \in Slots
    PROVE  /\ NewSlot # 1 /\ dir[NewSlot] = Empty
           /\ NewSlot > nr_dir_entries => NewSlot = nr_dir_entries + 1
<1> DEFINE holes == {s \in 1 .. nr_dir_entries : dir[s].inode_nr = 0}
<1>1. nr_dir_entries \in Nat \ {0} /\ nr_dir_entries \in Slots
  BY SlotsAre DEF IInv
<1>2. CASE holes = {}
  BY <1>1, <1>2 DEF NewSlot, IInv, Entries
<1>3. CASE holes # {}
  <2>1. holes \subseteq Nat
    OBVIOUS
  <2>2. PICK s \in holes : s = Least(holes)
    BY <1>3, <2>1, LeastIs
  <2>3. NewSlot = s /\ s \in Slots /\ s <= nr_dir_entries /\ dir[s].inode_nr = 0
    BY <1>1, <1>3, <2>2 DEF NewSlot
  <2>4. dir[s] = Empty /\ s # 1
    BY <2>3, FsAssumption DEF IInv, Entries, Files, ROOT_INODE
  <2>. QED BY <1>1, <2>3, <2>4
<1>. QED BY <1>2, <1>3


\* What a created file changes on the disk: an inode that was free, and an entry that was.
LEMMA CreateIs ==
    ASSUME SInv, IInv, Long = {}, NEW p \in Proc, NEW name \in Name, create_file(p, name)
    PROVE  \E n \in Inode \ imap, s \in Slots \ {1} :
               /\ n = alloc_imap_bit /\ n # 0
               /\ imap' = imap \cup {n}
               /\ inode'[n].i_mode = "regular"
               /\ \A k \in Inode \ {n} : inode'[k] = inode[k]
               /\ dir[s] = Empty /\ dir'[s] = [inode_nr |-> n, name |-> name]
               /\ \A t \in Slots \ {s} : dir'[t] = dir[t]
               /\ nr_dir_entries' \in Slots /\ s <= nr_dir_entries'
               /\ nr_dir_entries <= nr_dir_entries'
               /\ i_cnt' = [i_cnt EXCEPT ![n] = 1]
<1> USE FsAssumption
<1>1. PICK n \in Inode \ imap : n = alloc_imap_bit
  <2>1. Inode \ imap \subseteq Nat /\ Inode \ imap # {}
    BY DEF create_file, Creates
  <2>. QED BY <2>1, LeastIs DEF alloc_imap_bit
<1>2. PICK s \in Slots : s = NewSlot
  BY DEF create_file, Creates
<1>3. s # 1 /\ dir[s] = Empty
  BY <1>2, NewSlotIs
<1>4. /\ dir' = [t \in Slots |-> IF t = s THEN [inode_nr |-> n, name |-> name] ELSE dir[t]]
      /\ nr_dir_entries' = IF s > nr_dir_entries THEN s ELSE nr_dir_entries
  BY <1>1, <1>2 DEF create_file, new_dir_entry
<1>5. n # 0 /\ inode'[n].i_mode = "regular" /\ \A k \in Inode \ {n} : inode'[k] = inode[k]
  BY <1>1 DEF create_file, SInv
<1>6. /\ nr_dir_entries' \in Slots /\ s <= nr_dir_entries'
      /\ nr_dir_entries <= nr_dir_entries'
  BY <1>4, SlotsAre DEF IInv
<1>7. imap' = imap \cup {n} /\ i_cnt' = [i_cnt EXCEPT ![n] = 1]
  BY <1>1 DEF create_file
<1>. QED BY <1>1, <1>3, <1>4, <1>5, <1>6, <1>7

\* What a removed file changes on the disk: its inode and its entry.
LEMMA RemoveIs ==
    ASSUME SInv, IInv, NEW n \in Inode, MayUnlink(n), ~LastUnlink, Listed(n), Remove(n), n # ROOT_INODE
    PROVE  \E s \in Slots \ {1} :
               /\ dir[s].inode_nr = n
               /\ imap' = imap \ {n}
               /\ \A k \in Inode \ {n} : inode'[k] = inode[k]
               /\ dir'[s] = Empty
               /\ \A t \in Slots \ {s} : dir'[t] = dir[t]
               /\ nr_dir_entries' \in Slots
               /\ nr_dir_entries' = IF s = nr_dir_entries THEN s - 1 ELSE nr_dir_entries
<1> USE FsAssumption
<1>1. PICK s \in 1 .. nr_dir_entries : s = Least(EntriesOf(n)) /\ dir[s].inode_nr = n
  <2>1. EntriesOf(n) \subseteq Nat /\ EntriesOf(n) # {}
    BY DEF EntriesOf, Listed
  <2>. QED BY <2>1, LeastIs DEF EntriesOf
<1>2. nr_dir_entries \in Nat \ {0} /\ nr_dir_entries \in Slots
  BY SlotsAre DEF IInv
<1>3. s \in Slots /\ s # 1 /\ s \in Nat
  BY <1>1, <1>2, SlotsAre DEF Slots, IInv, Entries
<1>4. /\ imap' = imap \ {n}
      /\ inode' = [inode EXCEPT ![n] = NoInode]
      /\ dir' = [dir EXCEPT ![s] = Empty]
      /\ nr_dir_entries' = IF s = nr_dir_entries THEN Cardinality(LiveBefore(s)) ELSE nr_dir_entries
  BY <1>1 DEF Remove, ClearEntry
<1>5. s = nr_dir_entries => Cardinality(LiveBefore(s)) = s - 1
  <2>1. s = nr_dir_entries => LiveBefore(s) = 1 .. s - 1
    BY <1>1 DEF MayUnlink
  <2>2. Cardinality(1 .. s - 1) = s - 1
    BY <1>3, FS_Interval
  <2>. QED BY <2>1, <2>2
<1>6. s - 1 \in Slots
  BY <1>3, SlotsAre DEF Slots
<1>. QED BY <1>1, <1>2, <1>3, <1>4, <1>5, <1>6 DEF SInv


\* Creating a file keeps the directory and the map in step.
LEMMA EntriesCreate ==
    ASSUME SInv, IInv, Long = {}, NEW p \in Proc, NEW name \in Name, create_file(p, name)
    PROVE  Entries' /\ Existing'
<1> USE FsAssumption
<1>1. PICK n \in Inode \ imap, s \in Slots \ {1} :
          /\ n # 0
          /\ imap' = imap \cup {n}
          /\ inode'[n].i_mode = "regular"
          /\ \A k \in Inode \ {n} : inode'[k] = inode[k]
          /\ dir[s] = Empty /\ dir'[s] = [inode_nr |-> n, name |-> name]
          /\ \A t \in Slots \ {s} : dir'[t] = dir[t]
          /\ nr_dir_entries' \in Slots /\ s <= nr_dir_entries'
          /\ nr_dir_entries <= nr_dir_entries'
  BY CreateIs, ZenonT(30)
<1>2. \A t \in Slots : dir[t].name # name
  BY Searches DEF Search, create_file, Creates, Files
<1>3. 1 \in Slots /\ nr_dir_entries \in Nat /\ nr_dir_entries' \in Nat
  BY <1>1, SlotsAre DEF Slots, IInv
<1>4. Entries
  BY DEF IInv
<1>5. n # ROOT_INODE /\ Files' = Files \cup {n} /\ ROOT_INODE \in imap'
  BY <1>1, <1>4 DEF Entries, Files
<1>6. dir'[1] = [inode_nr |-> ROOT_INODE, name |-> NO_NAME]
  BY <1>1, <1>3, <1>4 DEF Entries
<1>7. ASSUME NEW t \in Slots \ {1}
      PROVE  dir'[t] = Empty \/ (dir'[t].inode_nr \in Files' /\ dir'[t].name \in Name)
  BY <1>1, <1>4, <1>5 DEF Entries
<1>8. ASSUME NEW t \in Slots, t > nr_dir_entries' PROVE dir'[t] = Empty
  BY <1>1, <1>3, <1>4, <1>8, SlotsAre DEF Entries
<1>9. \A t \in Slots : dir[t].inode_nr # n
  <2>1. \A t \in Slots : dir[t].inode_nr \in imap \cup {0}
    BY <1>4 DEF Entries, Files, Empty
  <2>. QED BY <1>1, <2>1
<1>10. ASSUME NEW t \in Slots, NEW u \in Slots, t # u
       PROVE  /\ dir'[t].inode_nr # 0 => dir'[t].inode_nr # dir'[u].inode_nr
              /\ dir'[t].name \in Name => dir'[t].name # dir'[u].name
  <2>1. CASE t = s
    BY <1>1, <1>2, <1>9, <1>10, <2>1
  <2>2. CASE u = s
    BY <1>1, <1>2, <1>9, <1>10, <2>2
  <2>3. CASE t # s /\ u # s
    BY <1>1, <1>4, <1>10, <2>3 DEF Entries
  <2>. QED BY <2>1, <2>2, <2>3
<1>11. ASSUME NEW k \in imap' \ {0}
       PROVE  inode'[k].i_mode # "none" /\ \E t \in Slots : dir'[t].inode_nr = k
  <2>1. CASE k = n
    BY <1>1, <2>1
  <2>2. CASE k # n
    <3>1. k \in imap \ {0} /\ k \in Inode
      BY <1>1, <2>2 DEF SInv
    <3>2. PICK t \in Slots : inode[k].i_mode # "none" /\ dir[t].inode_nr = k
      BY <3>1 DEF IInv, Existing
    <3>3. t # s
      BY <1>1, <3>1, <3>2 DEF Empty
    <3>. QED BY <1>1, <2>2, <3>1, <3>2, <3>3
  <2>. QED BY <2>1, <2>2
<1>. QED BY <1>5, <1>6, <1>7, <1>8, <1>10, <1>11 DEF Entries, Existing

\* Removing a file takes its entry, and the size of the directory still covers the others.
LEMMA EntriesRemove ==
    ASSUME SInv, IInv, NEW n \in Inode, MayUnlink(n), ~LastUnlink, Listed(n), Remove(n), n # ROOT_INODE
    PROVE  Entries' /\ Existing' /\ nr_dir_entries' \in Slots
<1> USE FsAssumption
<1>1. PICK s \in Slots \ {1} :
          /\ dir[s].inode_nr = n
          /\ imap' = imap \ {n}
          /\ \A k \in Inode \ {n} : inode'[k] = inode[k]
          /\ dir'[s] = Empty
          /\ \A t \in Slots \ {s} : dir'[t] = dir[t]
          /\ nr_dir_entries' \in Slots
          /\ nr_dir_entries' = IF s = nr_dir_entries THEN s - 1 ELSE nr_dir_entries
  BY RemoveIs
<1>2. Entries /\ n # 0
  BY DEF IInv
<1>3. 1 \in Slots /\ nr_dir_entries \in Nat /\ s \in Nat
  BY <1>1, SlotsAre DEF Slots, IInv
<1>4. Files' = Files \ {n} /\ ROOT_INODE \in imap'
  BY <1>1, <1>2 DEF Entries, Files
<1>5. dir'[1] = [inode_nr |-> ROOT_INODE, name |-> NO_NAME]
  BY <1>1, <1>2, <1>3 DEF Entries
<1>6. \A t \in Slots \ {s} : dir[t].inode_nr # n
  BY <1>1, <1>2 DEF Entries
<1>7. ASSUME NEW t \in Slots \ {1}
      PROVE  dir'[t] = Empty \/ (dir'[t].inode_nr \in Files' /\ dir'[t].name \in Name)
  BY <1>1, <1>2, <1>4, <1>6 DEF Entries
<1>8. ASSUME NEW t \in Slots, t > nr_dir_entries' PROVE dir'[t] = Empty
  <2>1. t = s \/ t > nr_dir_entries
    BY <1>1, <1>3, <1>8, SlotsAre
  <2>. QED BY <1>1, <1>2, <2>1 DEF Entries
<1>9. ASSUME NEW t \in Slots, NEW u \in Slots, t # u
      PROVE  /\ dir'[t].inode_nr # 0 => dir'[t].inode_nr # dir'[u].inode_nr
             /\ dir'[t].name \in Name => dir'[t].name # dir'[u].name
  <2>1. Empty.inode_nr = 0 /\ Empty.name \notin Name
    BY DEF Empty
  <2>2. CASE t = s
    BY <1>1, <2>1, <2>2
  <2>3. CASE u = s
    BY <1>1, <1>9, <2>1, <2>3
  <2>4. CASE t # s /\ u # s
    BY <1>1, <1>2, <1>9, <2>4 DEF Entries
  <2>. QED BY <2>2, <2>3, <2>4
<1>10. ASSUME NEW k \in imap' \ {0}
       PROVE  inode'[k].i_mode # "none" /\ \E t \in Slots : dir'[t].inode_nr = k
  <2>1. k \in imap \ {0} /\ k \in Inode /\ k # n
    BY <1>1 DEF SInv
  <2>2. PICK t \in Slots : inode[k].i_mode # "none" /\ dir[t].inode_nr = k
    BY <2>1 DEF IInv, Existing
  <2>. QED BY <1>1, <2>1, <2>2
<1>. QED BY <1>1, <1>4, <1>5, <1>7, <1>8, <1>9, <1>10 DEF Entries, Existing


-----------------------------------------------------------------------------
(* Who uses an inode *)

\* A descriptor that is in use stands for a slot that is in use, a child's included.
Opens ==
    \A p \in Proc, fd \in Fd : filp[p][fd] # 0 => f_desc_table[filp[p][fd]].fd_inode # 0

LEMMA OpenSlots == FInv => Opens
<1> SUFFICES ASSUME FInv, NEW p \in Proc, NEW fd \in Fd, filp[p][fd] # 0
             PROVE  f_desc_table[filp[p][fd]].fd_inode # 0
  BY DEF Opens
<1>1. PICK d \in Desc : d = filp[p][fd]
  BY DEF FInv
<1>2. PICK q \in Counted : filp[q] = filp[p]
  <2>1. CASE p \in Counted
    BY <2>1
  <2>2. CASE p \notin Counted
    BY <2>2, FsAssumption DEF Counted, FInv, ForkState, NotForking
  <2>. QED BY <2>1, <2>2
<1>3. <<q, fd>> \in Holders(d)
  BY <1>1, <1>2 DEF Holders
<1>4. Cardinality(Holders(d)) # 0
  BY <1>3, FinitelyMany, FS_EmptySet
<1>. QED BY <1>1, <1>4 DEF FInv

\* A new descriptor is one user more of its inode, and of no other.
LEMMA UsersConnect ==
    ASSUME FInv, NEW p \in Counted, NEW n \in Inode, Counted' = Counted,
           NEW f \in Fd, NEW d \in Desc,
           filp[p][f] = 0, Holders(d) = {},
           f_desc_table'[d].fd_inode = n,
           \A e \in Desc \ {d} : f_desc_table'[e] = f_desc_table[e],
           \A q \in Proc, g \in Fd :
               filp'[q][g] = IF q = p /\ g = f THEN d ELSE filp[q][g]
    PROVE  /\ Cardinality(Users(n)') = Cardinality(Users(n)) + 1
           /\ \A k \in Inode \ {n} : Users(k)' = Users(k)
<1> USE FsAssumption
<1>1. ASSUME NEW k \in Inode, NEW q \in Counted, NEW g \in Fd
      PROVE  <<q, g>> \in Users(k)' <=> <<q, g>> \in Users(k) \/ (q = p /\ g = f /\ k = n)
  <2>1. q \in Proc /\ d # 0 /\ filp[q][g] \in Desc \cup {0}
    BY DEF Counted, FInv
  <2>2. CASE q = p /\ g = f
    BY <2>1, <2>2 DEF Users, FdsOf
  <2>3. CASE ~(q = p /\ g = f)
    <3>1. <<q, g>> \notin Holders(d)
      OBVIOUS
    <3>2. filp[q][g] # d
      BY <3>1 DEF Holders
    <3>3. filp'[q][g] = filp[q][g]
      BY <2>1, <2>3
    <3>4. filp[q][g] # 0 => f_desc_table'[filp[q][g]] = f_desc_table[filp[q][g]]
      BY <2>1, <3>2
    <3>. QED BY <2>3, <3>3, <3>4 DEF Users, FdsOf
  <2>. QED BY <2>2, <2>3
<1>2. \A k : Users(k)' \subseteq Counted \X Fd /\ Users(k) \subseteq Counted \X Fd
  BY DEF Users
<1>3. Users(n)' = Users(n) \cup {<<p, f>>}
  <2>1. \A q \in Counted, g \in Fd : <<q, g>> \in Users(n)' <=> <<q, g>> \in Users(n) \cup {<<p, f>>}
    BY <1>1
  <2>2. Users(n)' \subseteq Counted \X Fd /\ Users(n) \cup {<<p, f>>} \subseteq Counted \X Fd
    BY <1>2
  <2>. QED BY ONLY <2>1, <2>2, SamePairs
<1>4. ASSUME NEW k \in Inode \ {n} PROVE Users(k)' = Users(k)
  <2>1. \A q \in Counted, g \in Fd : <<q, g>> \in Users(k)' <=> <<q, g>> \in Users(k)
    BY <1>1
  <2>2. Users(k)' \subseteq Counted \X Fd /\ Users(k) \subseteq Counted \X Fd
    BY <1>2
  <2>. QED BY ONLY <2>1, <2>2, SamePairs
<1>5. <<p, f>> \notin Users(n)
  BY DEF Users, FdsOf
<1>6. Cardinality(Users(n) \cup {<<p, f>>}) = Cardinality(Users(n)) + 1
  BY <1>5, FinitelyMany, FS_AddElement
<1>. QED BY <1>3, <1>4, <1>6

\* Where a step leaves a descriptor alone, its inode stays too.
LEMMA SameInode ==
    ASSUME FInv, FInv', NEW q \in Proc, NEW g \in Fd,
           \A e \in Desc : f_desc_table'[e].fd_inode \in {0, f_desc_table[e].fd_inode},
           filp'[q][g] = filp[q][g]
    PROVE  \A k \in Inode : g \in FdsOf(q, k)' <=> g \in FdsOf(q, k)
<1>1. Opens /\ Opens'
  BY OpenSlots, PTL
<1>2. filp[q][g] # 0 => f_desc_table'[filp[q][g]].fd_inode = f_desc_table[filp[q][g]].fd_inode
  BY <1>1 DEF Opens, FInv
<1>. QED BY <1>2 DEF FdsOf


\* What does to the users of an inode: a close, ...
LEMMA UsersClose ==
    ASSUME FInv, NEW p \in Proc, NEW fd \in Fd, do_close(p, fd), NEW n \in Inode
    PROVE  /\ <<p, fd>> \in Users(f_desc_table[filp[p][fd]].fd_inode)
           /\ Users(n)' = Users(n) \ (IF n = f_desc_table[filp[p][fd]].fd_inode THEN {<<p, fd>>} ELSE {})
<1> USE FsAssumption
<1>2. PICK d \in Desc : d = filp[p][fd]
  <2>1. filp[p][fd] \in Desc \cup {0}
    BY DEF FInv
  <2>2. filp[p][fd] # 0
    BY DEF do_close
  <2>. QED BY <2>1, <2>2
<1>1. FInv'
  BY DescriptorsClose
<1>3. PICK m \in Inode \cup {0} : m = f_desc_table[d].fd_inode
  BY DEF FInv
<1>4. p \in Counted /\ Counted' = Counted
  BY DEF do_close, Caller, Counted
<1>5. \A q \in Proc, g \in Fd :
          filp'[q][g] = IF q = p /\ g = fd THEN 0 ELSE filp[q][g]
  BY DEF do_close, FInv
<1>6. \A e \in Desc : f_desc_table'[e].fd_inode \in {0, f_desc_table[e].fd_inode}
  BY <1>2 DEF do_close, FInv, Dropped, Unused
<1>7. \A k \in Inode : <<p, fd>> \in Users(k) <=> k = m
  BY <1>2, <1>3, <1>4 DEF Users, FdsOf, do_close
<1>8. ASSUME NEW q \in Counted, NEW g \in Fd
      PROVE  <<q, g>> \in Users(n)' <=> <<q, g>> \in Users(n) /\ ~(q = p /\ g = fd)
  <2>1. q \in Proc
    BY DEF Counted
  <2>2. CASE q = p /\ g = fd
    BY <1>5, <2>1, <2>2 DEF Users, FdsOf
  <2>3. CASE ~(q = p /\ g = fd)
    <3>1. g \in FdsOf(q, n)' <=> g \in FdsOf(q, n)
      BY <1>1, <1>5, <1>6, <2>1, <2>3, SameInode
    <3>. QED BY <1>4, <2>3, <3>1 DEF Users
  <2>. QED BY <2>2, <2>3
<1> DEFINE Gone == IF n = m THEN {<<p, fd>>} ELSE {}
<1>9. Users(n)' = Users(n) \ Gone
  <2>1. \A q \in Counted, g \in Fd : <<q, g>> \in Users(n)' <=> <<q, g>> \in Users(n) \ Gone
    BY <1>7, <1>8
  <2>2. Users(n)' \subseteq Counted \X Fd /\ Users(n) \ Gone \subseteq Counted \X Fd
    BY <1>4 DEF Users
  <2> HIDE DEF Gone
  <2>. QED BY ONLY <2>1, <2>2, SamePairs
<1>10. m \in Inode
  <2>1. m # 0
    BY <1>2, <1>3, OpenSlots DEF Opens, do_close
  <2>. QED BY <2>1
<1>. QED BY <1>2, <1>3, <1>7, <1>9, <1>10

\* ... the copy of a parent, ...
LEMMA UsersCopy ==
    ASSUME NEW p \in Proc, NEW c \in Proc, FInv, ForkCopy(p, c), NEW n \in Inode
    PROVE  Users(n)' = Users(n)
<1> USE FsAssumption
<1>1. /\ Counted = Proc /\ Counted' = Proc \ {c}
      /\ f_desc_table' = f_desc_table
      /\ \A g \in Fd : filp[c][g] = 0
      /\ \A q \in Proc \ {c} : filp'[q] = filp[q]
  BY DEF ForkCopy, Counted, NotForking, FreeFds, FInv
<1>2. \A q \in Proc, g \in Fd : <<q, g>> \in Users(n)' <=> <<q, g>> \in Users(n)
  BY <1>1 DEF Users, FdsOf
<1>3. Users(n)' \subseteq Proc \X Fd /\ Users(n) \subseteq Proc \X Fd
  BY <1>1 DEF Users
<1>. QED BY ONLY <1>2, <1>3, SamePairs

\* ... the count of what the child has, ...
LEMMA UsersFork ==
    ASSUME FInv, fs_fork, NEW n \in Inode
    PROVE  /\ Cardinality(FdsOf(forking.child, n)) \in Nat
           /\ Cardinality(Users(n)') = Cardinality(Users(n)) + Cardinality(FdsOf(forking.child, n))
<1> USE FsAssumption
<1>1. PICK c \in Proc : c = forking.child
  BY DEF fs_fork, FInv, ForkState, NotForking
<1>2. /\ filp' = filp
      /\ Counted = Proc \ {c} /\ Counted' = Proc
      /\ \A d \in Desc : f_desc_table'[d].fd_inode = f_desc_table[d].fd_inode
  BY <1>1 DEF fs_fork, Counted, NotForking, FInv
<1> DEFINE F == FdsOf(c, n)
<1>3. Users(n)' = Users(n) \cup With(c, F)
  <2>1. ASSUME NEW q \in Proc, NEW g \in Fd
        PROVE  <<q, g>> \in Users(n)' <=> <<q, g>> \in Users(n) \cup With(c, F)
    <3>1. g \in FdsOf(q, n)' <=> g \in FdsOf(q, n)
      <4>1. filp[q][g] \in Desc \cup {0}
        BY DEF FInv
      <4>. QED BY <1>2, <4>1 DEF FdsOf
    <3>. QED BY <1>2, <3>1 DEF Users, With
  <2>2. Users(n)' \subseteq Proc \X Fd /\ Users(n) \cup With(c, F) \subseteq Proc \X Fd
    BY <1>2 DEF Users, With, FdsOf
  <2> HIDE DEF F
  <2>. QED BY ONLY <2>1, <2>2, SamePairs
<1>4. \A g \in F : <<c, g>> \notin Users(n)
  BY <1>2 DEF Users
<1>5. IsFiniteSet(Users(n)) /\ IsFiniteSet(F)
  BY FinitelyMany
<1>6. /\ Cardinality(Users(n)) \in Nat /\ Cardinality(F) \in Nat
      /\ Cardinality(Users(n)') = Cardinality(Users(n)) + Cardinality(F)
  <2> HIDE DEF F
  <2>. QED BY ONLY <1>3, <1>4, <1>5, AndPairsWith
<1>. QED BY <1>1, <1>6

\* ... and an exit.
LEMMA UsersExit ==
    ASSUME FInv, NEW p \in Proc, fs_exit(p), NEW n \in Inode
    PROVE  /\ Cardinality(FdsOf(p, n)) \in Nat /\ Cardinality(Users(n)') \in Nat
           /\ Cardinality(Users(n)) = Cardinality(Users(n)') + Cardinality(FdsOf(p, n))
<1> USE FsAssumption
<1>1. FInv'
  BY DescriptorsExit
<1>2. p \in Counted /\ Counted' = Counted
  BY DEF fs_exit, Caller, Counted
<1>3. \A q \in Proc, g \in Fd : filp'[q][g] = IF q = p THEN 0 ELSE filp[q][g]
  BY DEF fs_exit, FInv
<1>4. \A e \in Desc : f_desc_table'[e].fd_inode \in {0, f_desc_table[e].fd_inode}
  BY DEF fs_exit, FInv, Unused
<1> DEFINE F == FdsOf(p, n)
<1>5. Users(n) = Users(n)' \cup With(p, F)
  <2>1. ASSUME NEW q \in Counted, NEW g \in Fd
        PROVE  <<q, g>> \in Users(n) <=> <<q, g>> \in Users(n)' \cup With(p, F)
    <3>0. q \in Proc
      BY DEF Counted
    <3>1. CASE q = p
      BY <1>2, <1>3, <3>0, <3>1 DEF Users, With, FdsOf
    <3>2. CASE q # p
      <4>1. g \in FdsOf(q, n)' <=> g \in FdsOf(q, n)
        BY <1>1, <1>3, <1>4, <3>0, <3>2, SameInode
      <4>. QED BY <1>2, <3>2, <4>1 DEF Users, With
    <3>. QED BY <3>1, <3>2
  <2>2. Users(n) \subseteq Counted \X Fd /\ Users(n)' \cup With(p, F) \subseteq Counted \X Fd
    BY <1>2 DEF Users, With, FdsOf
  <2> HIDE DEF F
  <2>. QED BY ONLY <2>1, <2>2, SamePairs
<1>6. \A g \in F : <<p, g>> \notin Users(n)'
  BY <1>2, <1>3 DEF Users, FdsOf
<1>7. IsFiniteSet(Users(n)') /\ IsFiniteSet(F)
  BY <1>5, FinitelyMany, FS_Subset
<1>8. /\ Cardinality(Users(n)') \in Nat /\ Cardinality(F) \in Nat
      /\ Cardinality(Users(n)) = Cardinality(Users(n)') + Cardinality(F)
  <2> HIDE DEF F
  <2>. QED BY ONLY <1>5, <1>6, <1>7, AndPairsWith
<1>. QED BY <1>8


-----------------------------------------------------------------------------
(* The steps *)

\* The inodes that are counted; who has one open.
LEMMA UsersUnchanged == UNCHANGED <<f_desc_table, filp, forking>> => \A n : Users(n)' = Users(n)
BY DEF Users, FdsOf, Counted

\* IInv at first.
LEMMA FilesInit == NoCuts /\ Init => IInv
<1> SUFFICES ASSUME NoCuts, Init PROVE IInv
  OBVIOUS
<1> USE FsAssumption
<1>1. Cardinality(Name) \in Nat \ {0} /\ 1 .. 3 \subseteq Slots
  <2>1. Cardinality(Name) # 0 /\ Cardinality(Name) \in Nat
    BY FS_EmptySet, FS_CardinalityType
  <2>. QED BY <2>1 DEF Slots
<1>2. nr_dir_entries \in Slots /\ i_cnt \in [Inode -> Nat] /\ state \in {"runs", "panic", "assert"}
  BY <1>1 DEF Init
<1>3. /\ ROOT_INODE = 1 /\ imap = 0 .. 3 /\ Files = {2, 3} /\ nr_dir_entries = 3
      /\ dir[1] = [inode_nr |-> 1, name |-> NO_NAME]
      /\ dir[2] = [inode_nr |-> 2, name |-> TTY]
      /\ dir[3] = [inode_nr |-> 3, name |-> TAR]
      /\ \A s \in Slots \ {1, 2, 3} : dir[s] = Empty
  BY <1>1 DEF Init, Files, ROOT_INODE
<1>4. Entries
  <2>1. TTY # TAR /\ TTY \in Name /\ TAR \in Name /\ NO_NAME \notin Name
    OBVIOUS
  <2>2. \A s \in Slots \ {1} : dir[s] = Empty \/ (dir[s].inode_nr \in Files /\ dir[s].name \in Name)
    BY <1>3, <2>1
  <2>3. \A s \in Slots : s > nr_dir_entries => dir[s] = Empty
    BY <1>3
  <2>4. ASSUME NEW s \in Slots, NEW t \in Slots, s # t
        PROVE  /\ dir[s].inode_nr # 0 => dir[s].inode_nr # dir[t].inode_nr
               /\ dir[s].name \in Name => dir[s].name # dir[t].name
    BY <1>3, <2>1, <2>4 DEF Empty
  <2>. QED BY <1>3, <2>2, <2>3, <2>4 DEF Entries
<1>5. Existing
  <2>1. \A n \in imap \ {0} : inode[n].i_mode # "none"
    BY DEF Init, ROOT_INODE
  <2>2. \A n \in imap \ {0} : \E s \in Slots : dir[s].inode_nr = n
    BY <1>1, <1>3
  <2>. QED BY <2>1, <2>2 DEF Existing
<1>6. \A d \in Desc : f_desc_table[d].fd_inode \in Files \cup {0}
  BY DEF Init, Unused
<1>7. Counts
  <2>1. \A n : Users(n) = {}
    BY DEF Init, Users, FdsOf, Counted
  <2>2. \A n : Cardinality(Users(n)) = 0
    BY <2>1, FS_EmptySet
  <2>. QED BY <2>2 DEF Counts, Init
<1>. QED BY <1>2, <1>4, <1>5, <1>6, <1>7 DEF IInv

\* What stays when the disk does.
LEMMA SameDisk ==
    ASSUME IInv, UNCHANGED disk
    PROVE  Entries' /\ Existing' /\ Files' = Files /\ nr_dir_entries' \in Slots
BY DEF IInv, disk, Entries, Existing, Files

\* An open finds the inode, and is one user more of it.
LEMMA FilesOpen ==
    ASSUME NoCuts, SInv, FInv, IInv, NEW p \in Proc, NEW name \in Name, do_open(p, name)
    PROVE  IInv'
<1>1. search_file(name) \in Files
  BY Searches DEF Search, do_open
<1>2. PICK n \in Files \cap Inode : n = search_file(name)
  BY <1>1 DEF Files, SInv
<1>3. /\ i_cnt' = [i_cnt EXCEPT ![n] = @ + 1]
      /\ UNCHANGED disk /\ UNCHANGED forking /\ state' = state
      /\ p \in Counted /\ Counted' = Counted
  BY <1>2 DEF do_open, Caller, Counted
<1>4. PICK f \in Fd, d \in Desc :
          /\ filp[p][f] = 0 /\ Holders(d) = {}
          /\ f_desc_table'[d].fd_inode = n
          /\ \A e \in Desc \ {d} : f_desc_table'[e] = f_desc_table[e]
          /\ \A q \in Proc, g \in Fd :
                 filp'[q][g] = IF q = p /\ g = f THEN d ELSE filp[q][g]
  BY <1>2, DescriptorsConnect DEF do_open
<1>5. /\ Cardinality(Users(n)') = Cardinality(Users(n)) + 1
      /\ \A k \in Inode \ {n} : Users(k)' = Users(k)
  BY <1>3, <1>4, UsersConnect
<1>6. Counts'
  BY <1>3, <1>5 DEF IInv, Counts
<1>7. \A e \in Desc : f_desc_table'[e].fd_inode \in Files \cup {0}
  BY <1>2, <1>4 DEF IInv
<1>8. i_cnt' \in [Inode -> Nat]
  BY <1>3 DEF IInv
<1>. QED BY <1>3, <1>6, <1>7, <1>8, SameDisk DEF IInv

\* A created file has one user.
LEMMA FilesCreate ==
    ASSUME NoCuts, SInv, FInv, IInv, NEW p \in Proc, NEW name \in Name, create_file(p, name)
    PROVE  IInv'
<1>1. PICK n \in Inode \ imap :
          /\ n = alloc_imap_bit /\ n # 0
          /\ imap' = imap \cup {n}
          /\ nr_dir_entries' \in Slots
          /\ i_cnt' = [i_cnt EXCEPT ![n] = 1]
  BY CreateIs DEF NoCuts
<1>2. /\ UNCHANGED forking /\ state' = state
      /\ p \in Counted /\ Counted' = Counted
  BY DEF create_file, Creates, Caller, Counted
<1>3. PICK f \in Fd, d \in Desc :
          /\ filp[p][f] = 0 /\ Holders(d) = {}
          /\ f_desc_table'[d].fd_inode = n
          /\ \A e \in Desc \ {d} : f_desc_table'[e] = f_desc_table[e]
          /\ \A q \in Proc, g \in Fd :
                 filp'[q][g] = IF q = p /\ g = f THEN d ELSE filp[q][g]
  BY <1>1, DescriptorsConnect DEF create_file, Creates
<1>4. /\ Cardinality(Users(n)') = Cardinality(Users(n)) + 1
      /\ \A k \in Inode \ {n} : Users(k)' = Users(k)
  BY <1>2, <1>3, UsersConnect
<1>5. Cardinality(Users(n)) = 0
  <2>1. Users(n) = {}
    <3> SUFFICES ASSUME NEW q \in Counted, NEW g \in Fd, g \in FdsOf(q, n) PROVE FALSE
      BY DEF Users
    <3>1. filp[q][g] \in Desc
      BY DEF FdsOf, FInv, Counted
    <3>. QED BY <1>1, <3>1 DEF FdsOf, IInv, Files
  <2>. QED BY <2>1, FS_EmptySet
<1>6. Counts'
  BY <1>1, <1>4, <1>5 DEF IInv, Counts
<1>7. \A e \in Desc : f_desc_table'[e].fd_inode \in Files' \cup {0}
  <2>1. n # ROOT_INODE
    BY <1>1 DEF IInv, Entries
  <2>2. Files' = Files \cup {n}
    BY <1>1, <2>1 DEF Files
  <2>. QED BY <1>3, <2>2 DEF IInv
<1>8. i_cnt' \in [Inode -> Nat]
  BY <1>1 DEF IInv
<1>. QED BY <1>1, <1>2, <1>6, <1>7, <1>8, EntriesCreate DEF IInv, NoCuts


\* A close is one user less of the inode.
LEMMA FilesClose ==
    ASSUME NoCuts, SInv, FInv, IInv, NEW p \in Proc, NEW fd \in Fd, do_close(p, fd)
    PROVE  IInv'
<1> USE FsAssumption
<1>1. PICK d \in Desc : d = filp[p][fd]
  <2>1. filp[p][fd] \in Desc \cup {0}
    BY DEF FInv
  <2>2. filp[p][fd] # 0
    BY DEF do_close
  <2>. QED BY <2>1, <2>2
<1>2. PICK n \in Files \cap Inode : n = f_desc_table[d].fd_inode
  <2>1. f_desc_table[d].fd_inode # 0
    BY <1>1, OpenSlots DEF Opens, do_close
  <2>. QED BY <2>1 DEF IInv, FInv
<1>3. /\ i_cnt' = [i_cnt EXCEPT ![n] = @ - 1]
      /\ UNCHANGED disk /\ UNCHANGED forking /\ state' = state
      /\ \A e \in Desc : f_desc_table'[e].fd_inode \in {0, f_desc_table[e].fd_inode}
  BY <1>1, <1>2 DEF do_close, FInv, Dropped, Unused
<1>4. /\ <<p, fd>> \in Users(n)
      /\ Users(n)' = Users(n) \ {<<p, fd>>}
      /\ \A k \in Inode \ {n} : Users(k)' = Users(k)
  <2>1. /\ <<p, fd>> \in Users(n)
        /\ \A k \in Inode : Users(k)' = Users(k) \ (IF k = n THEN {<<p, fd>>} ELSE {})
    BY <1>1, <1>2, UsersClose
  <2>. QED BY <2>1
<1>5. /\ Cardinality(Users(n)) \in Nat \ {0}
      /\ Cardinality(Users(n)') = Cardinality(Users(n)) - 1
  <2>1. IsFiniteSet(Users(n)) /\ Cardinality(Users(n)) \in Nat
    BY FinitelyMany
  <2>2. Cardinality(Users(n) \ {<<p, fd>>}) = Cardinality(Users(n)) - 1
    BY <1>4, <2>1, FS_RemoveElement
  <2>3. Cardinality(Users(n)) # 0
    BY <1>4, <2>1, FS_EmptySet
  <2>. QED BY <1>4, <2>1, <2>2, <2>3
<1>6. n # ROOT_INODE /\ i_cnt \in [Inode -> Nat] /\ i_cnt[n] = Cardinality(Users(n))
  BY <1>2 DEF Files, IInv, Counts
<1>7. Counts'
  BY <1>3, <1>4, <1>5, <1>6 DEF IInv, Counts
<1>8. i_cnt' \in [Inode -> Nat]
  BY <1>3, <1>5, <1>6
<1>9. \A e \in Desc : f_desc_table'[e].fd_inode \in Files \cup {0}
  BY <1>3 DEF IInv
<1>. QED BY <1>3, <1>7, <1>8, <1>9, SameDisk DEF IInv

\* What MM copies is not counted yet.
LEMMA FilesCopy ==
    ASSUME FInv, IInv, NEW p \in Proc, NEW c \in Proc, ForkCopy(p, c)
    PROVE  IInv'
<1>1. /\ UNCHANGED disk /\ i_cnt' = i_cnt /\ f_desc_table' = f_desc_table /\ state' = state
      /\ \A n \in Inode : Users(n)' = Users(n)
  BY UsersCopy DEF ForkCopy
<1>. QED BY <1>1, SameDisk DEF IInv, Counts

\* A child that is counted is a user of what its parent has open, as often.
LEMMA FilesFork ==
    ASSUME FInv, IInv, fs_fork
    PROVE  IInv'
<1>1. /\ UNCHANGED disk /\ state' = state
      /\ \A e \in Desc : f_desc_table'[e].fd_inode = f_desc_table[e].fd_inode
      /\ \A n \in Inode : i_cnt'[n] = i_cnt[n] + Cardinality(FdsOf(forking.child, n))
  BY DEF fs_fork, FInv
<1>2. \A n \in Inode :
          /\ Cardinality(FdsOf(forking.child, n)) \in Nat
          /\ Cardinality(Users(n)') = Cardinality(Users(n)) + Cardinality(FdsOf(forking.child, n))
  BY UsersFork
<1>3. Counts'
  BY <1>1, <1>2 DEF IInv, Counts
<1>4. i_cnt' \in [Inode -> Nat]
  <2>1. \A n \in Inode : i_cnt'[n] \in Nat
    BY <1>1, <1>2 DEF IInv
  <2>2. DOMAIN i_cnt' = Inode /\ i_cnt' = [n \in Inode |-> i_cnt'[n]]
    BY DEF fs_fork
  <2>. QED BY <2>1, <2>2
<1>5. \A e \in Desc : f_desc_table'[e].fd_inode \in Files \cup {0}
  BY <1>1 DEF IInv
<1>. QED BY <1>1, <1>3, <1>4, <1>5, SameDisk DEF IInv

\* A process that exits is a user of nothing.
LEMMA FilesExit ==
    ASSUME FInv, IInv, NEW p \in Proc, fs_exit(p)
    PROVE  IInv'
<1> USE FsAssumption
<1>1. /\ UNCHANGED disk /\ state' = state
      /\ \A e \in Desc : f_desc_table'[e].fd_inode \in {0, f_desc_table[e].fd_inode}
      /\ \A n \in Inode : i_cnt'[n] = i_cnt[n] - Cardinality(FdsOf(p, n))
  BY DEF fs_exit, FInv, Unused
<1>2. \A n \in Inode :
          /\ Cardinality(FdsOf(p, n)) \in Nat /\ Cardinality(Users(n)') \in Nat
          /\ Cardinality(Users(n)) = Cardinality(Users(n)') + Cardinality(FdsOf(p, n))
  BY UsersExit
<1>3. Counts'
  BY <1>1, <1>2 DEF IInv, Counts
<1>4. Cardinality(FdsOf(p, ROOT_INODE)) = 0
  <2>1. FdsOf(p, ROOT_INODE) = {}
    <3> SUFFICES ASSUME NEW g \in FdsOf(p, ROOT_INODE) PROVE FALSE
      OBVIOUS
    <3>1. /\ g \in Fd /\ filp[p][g] # 0
          /\ f_desc_table[filp[p][g]].fd_inode = ROOT_INODE
      BY DEF FdsOf
    <3>2. filp[p][g] \in Desc \cup {0}
      BY <3>1 DEF FInv
    <3>3. ROOT_INODE \in Files \cup {0}
      BY <3>1, <3>2 DEF IInv
    <3>. QED BY <3>3 DEF Files, ROOT_INODE
  <2>. QED BY <2>1, FS_EmptySet
<1>5. i_cnt' \in [Inode -> Nat]
  <2>1. ASSUME NEW n \in Inode PROVE i_cnt'[n] \in Nat
    <3>1. i_cnt[n] \in Nat
      BY DEF IInv
    <3>2. CASE n = ROOT_INODE
      BY <1>1, <1>4, <3>1, <3>2
    <3>3. CASE n # ROOT_INODE
      BY <1>2, <1>3, <3>3 DEF Counts
    <3>. QED BY <3>2, <3>3
  <2>2. DOMAIN i_cnt' = Inode /\ i_cnt' = [n \in Inode |-> i_cnt'[n]]
    BY DEF fs_exit
  <2>. QED BY <2>1, <2>2
<1>6. \A e \in Desc : f_desc_table'[e].fd_inode \in Files \cup {0}
  BY <1>1 DEF IInv
<1>. QED BY <1>1, <1>3, <1>5, <1>6, SameDisk DEF IInv


\* A file that is removed has no user, so no slot of f_desc_table stands for it.
LEMMA FilesUnlink ==
    ASSUME NoCuts, SInv, FInv, IInv, NEW p \in Proc, NEW name \in Name, do_unlink(p, name)
    PROVE  IInv'
<1>1. search_file(name) \in Files
  BY Searches DEF Search, do_unlink
<1>2. PICK n \in Files \cap Inode : n = search_file(name)
  BY <1>1 DEF Files, SInv
<1>3. MayUnlink(n) /\ Removable(n)
  BY <1>2 DEF do_unlink, MayUnlink, NoCuts
<1>4. CASE Listed(n)
  <2>1. Remove(n)
    BY <1>2, <1>3, <1>4 DEF do_unlink
  <2>2. n # ROOT_INODE /\ ~LastUnlink
    BY <1>2 DEF Files, NoCuts
  <2>3. Entries' /\ Existing' /\ nr_dir_entries' \in Slots
    BY <1>2, <1>3, <1>4, <2>1, <2>2, EntriesRemove
  <2>4. UNCHANGED <<memory, state>> /\ Files' = Files \ {n}
    BY <2>1 DEF Remove, Files
  <2>5. ASSUME NEW d \in Desc PROVE f_desc_table[d].fd_inode # n
    <3> SUFFICES ASSUME f_desc_table[d].fd_inode = n PROVE FALSE
      OBVIOUS
    <3>1. n # 0
      BY <1>2 DEF Files
    <3>2. f_desc_table[d].fd_cnt # 0
      BY <3>1 DEF FInv
    <3>3. Cardinality(Holders(d)) # 0
      BY <3>2 DEF FInv
    <3>4. Holders(d) # {}
      BY <3>3, FS_EmptySet
    <3>5. PICK q \in Counted, g \in Fd : filp[q][g] = d
      BY <3>4 DEF Holders
    <3>6. <<q, g>> \in Users(n)
      BY <3>5, FsAssumption DEF Users, FdsOf
    <3>7. Cardinality(Users(n)) # 0
      BY <3>6, FinitelyMany, FS_EmptySet
    <3>. QED BY <1>2, <1>3, <2>2, <3>7 DEF Removable, IInv, Counts
  <2>6. \A k : Users(k)' = Users(k)
    BY <2>4, UsersUnchanged DEF memory
  <2>. QED BY <2>3, <2>4, <2>5, <2>6 DEF IInv, Counts, memory
<1>5. CASE ~Listed(n)
  <2>1. UNCHANGED <<disk, memory>> /\ state' = "assert"
    BY <1>2, <1>3, <1>5 DEF do_unlink
  <2>2. \A k : Users(k)' = Users(k)
    BY <2>1, UsersUnchanged DEF memory
  <2>. QED BY <2>1, <2>2, SameDisk DEF IInv, Counts, memory
<1>. QED BY <1>4, <1>5

\* What the requests do to the files.
LEMMA FilesStep == NoCuts /\ SInv /\ FInv /\ IInv /\ [Next]_vars => IInv'
<1> SUFFICES ASSUME NoCuts, SInv, FInv, IInv, [Next]_vars PROVE IInv'
  OBVIOUS
<1>1. ASSUME UNCHANGED <<disk, memory>>, state' \in {"runs", "panic", "assert"} PROVE IInv'
  <2>1. \A k : Users(k)' = Users(k)
    BY <1>1, UsersUnchanged DEF memory
  <2>. QED BY <1>1, <2>1, SameDisk DEF IInv, Counts, memory
<1>2. ASSUME NEW p \in Proc, NEW name \in Name, TableFull(p, name) \/ create_fileFails(p, name)
      PROVE  IInv'
  BY <1>1, <1>2 DEF TableFull, create_fileFails
<1>3. CASE init_fs
  <2>1. ASSUME NEW k PROVE Users(k)' = {}
    <3>1. \A q \in Proc, g \in Fd : filp'[q][g] = 0
      BY <1>3 DEF init_fs
    <3>2. \A q \in Proc : FdsOf(q, k)' = {}
      BY <3>1 DEF FdsOf
    <3>. QED BY <3>2 DEF Users, Counted
  <2>2. \A k : Cardinality(Users(k)') = 0
    BY <2>1, FS_EmptySet
  <2>3. Counts' /\ i_cnt' \in [Inode -> Nat]
    BY <1>3, <2>2 DEF init_fs, Counts
  <2>4. \A d \in Desc : f_desc_table'[d].fd_inode = 0
    BY <1>3 DEF init_fs, Unused
  <2>. QED BY <1>3, <2>3, <2>4, SameDisk DEF IInv, init_fs
<1>4. CASE UNCHANGED vars
  BY <1>1, <1>4 DEF vars, IInv
<1>. QED
   BY <1>2, <1>3, <1>4, FilesOpen, FilesCreate, FilesClose, FilesUnlink,
      FilesCopy, FilesFork, FilesExit DEF Next

-----------------------------------------------------------------------------
(* The theorems about files *)

\* IInv, the directory and the counters of inode_table, is preserved by every request.
THEOREM Invariance == ASSUME NoCuts PROVE Spec => [](SInv /\ FInv /\ IInv)
<1>1. Init => IInv
  BY FilesInit
<1>2. SInv /\ FInv /\ IInv /\ [Next]_vars => IInv'
  BY FilesStep
<1>. QED BY <1>1, <1>2, SectorInvariance, DescriptorInvariance, PTL DEF Spec

\* TypeOK, of every request.
THEOREM TypeCorrect == ASSUME NoCuts PROVE Spec => []TypeOK
<1>1. SInv /\ FInv /\ IInv => TypeOK
  BY FsAssumption DEF SInv, FInv, IInv, ForkState, TypeOK
<1>. QED BY <1>1, Invariance, PTL

\* InodesCounted: i_cnt is how many descriptors are open on the file, through shared
\* descriptors, forks and exits, so that only what nobody has open can be removed.
THEOREM UsersAreCounted == ASSUME NoCuts PROVE Spec => []InodesCounted
<1>1. IInv => InodesCounted
  BY DEF IInv, Counts, Users, InodesCounted
<1>. QED BY <1>1, Invariance, PTL

\* OpenFilesExist: an open file is in the map and in the directory.
THEOREM NoneRemovedWhileOpen == ASSUME NoCuts PROVE Spec => []OpenFilesExist
<1>1. SInv /\ FInv /\ IInv => OpenFilesExist
  <2> SUFFICES ASSUME SInv, FInv, IInv, NEW p \in Proc, NEW fd \in Fd, filp[p][fd] # 0,
                      NEW n, n = f_desc_table[filp[p][fd]].fd_inode
               PROVE  n \in imap /\ inode[n].i_mode # "none" /\ EntriesOf(n) # {}
    BY DEF OpenFilesExist
  <2>1. filp[p][fd] \in Desc /\ n # 0
    BY OpenSlots DEF Opens, FInv
  <2>2. n \in imap \ {0}
    BY <2>1 DEF IInv, Files
  <2>3. PICK s \in Slots : inode[n].i_mode # "none" /\ dir[s].inode_nr = n
    BY <2>2 DEF IInv, Existing
  <2>4. s \in 1 .. nr_dir_entries
    BY <2>1, <2>3, SlotsAre DEF IInv, Entries, Empty
  <2>. QED BY <2>2, <2>3, <2>4 DEF EntriesOf
<1>. QED BY <1>1, Invariance, PTL

\* FilesAreFound: every file has one entry, under a name by which search_file finds it,
\* and nothing else is in the directory.
THEOREM EveryFileIsFound == ASSUME NoCuts PROVE Spec => []FilesAreFound
<1>1. SInv /\ IInv => FilesAreFound
  <2> SUFFICES ASSUME SInv, IInv PROVE FilesAreFound
    OBVIOUS
  <2>1. ASSUME NEW s \in Slots, dir[s].inode_nr # 0
        PROVE  dir[s].inode_nr \in imap /\ s <= nr_dir_entries
    BY <2>1, SlotsAre DEF IInv, Entries, Empty, Files
  <2>2. ASSUME NEW n \in imap \ {0, ROOT_INODE}
        PROVE  \E s \in Slots : EntriesOf(n) = {s} /\ search_file(dir[s].name) = n
    <3>1. PICK s \in Slots : dir[s].inode_nr = n
      BY DEF IInv, Existing
    <3>2. s # 1 /\ dir[s].name \in Name
      BY <3>1 DEF IInv, Entries, Empty
    <3>3. s \in 1 .. nr_dir_entries
      BY <2>1, <3>1, SlotsAre DEF IInv
    <3>4. EntriesOf(n) = {s}
      <4>1. 1 .. nr_dir_entries \subseteq Slots
        BY ExaminedAll DEF IInv, Examined
      <4>. QED BY <3>1, <3>3, <4>1 DEF EntriesOf, IInv, Entries
    <3>5. search_file(dir[s].name) = n
      BY <3>1, <3>2, Searches DEF Search, IInv, Entries
    <3>. QED BY <3>4, <3>5
  <2>. QED BY <2>1, <2>2 DEF FilesAreFound
<1>. QED BY <1>1, Invariance, PTL


\* A name is found as before if the entry that changes did not have it and does not get it.
LEMMA SameSearch ==
    ASSUME IInv, IInv', NEW s \in Slots, \A t \in Slots \ {s} : dir'[t] = dir[t],
           NEW m \in Name, dir[s].name # m, dir'[s].name # m
    PROVE  /\ search_file(m)' = search_file(m)
           /\ search_file(m) # 0 =>
                 search_file(m) \in Files /\ \E t \in Slots \ {s} : dir[t].inode_nr = search_file(m)
<1>1. Search /\ Search'
  BY Searches, PTL
<1>2. \A t \in Slots : dir'[t].name = m <=> dir[t].name = m
  OBVIOUS
<1>3. CASE search_file(m) = 0 /\ \A t \in Slots : dir[t].name # m
  BY <1>1, <1>2, <1>3 DEF Search
<1>4. CASE \E t \in Slots \ {1} : /\ t <= nr_dir_entries /\ dir[t].name = m
                                 /\ search_file(m) = dir[t].inode_nr /\ search_file(m) \in Files
  <2>1. PICK t \in Slots \ {s} : /\ dir[t].name = m /\ dir'[t] = dir[t]
                                 /\ search_file(m) = dir[t].inode_nr /\ search_file(m) \in Files
    BY <1>4
  <2>2. PICK u \in Slots : dir'[u].name = m /\ search_file(m)' = dir'[u].inode_nr
    BY <1>1, <2>1 DEF Search
  <2>3. u = t
    BY <1>2, <2>1, <2>2 DEF IInv, Entries
  <2>. QED BY <2>1, <2>2, <2>3
<1>. QED BY <1>1, <1>3, <1>4 DEF Search

\* Who opens another name finds what was there before a file was created, ...
LEMMA CreateTouches ==
    ASSUME SInv, IInv, IInv', Long = {}, NEW p \in Proc, NEW name \in Name, create_file(p, name)
    PROVE  \A m \in Name \ {name} : File(m)' = File(m)
<1>1. PICK n \in Inode \ imap, s \in Slots \ {1} :
          /\ n # 0
          /\ imap' = imap \cup {n}
          /\ inode'[n].i_mode = "regular"
          /\ \A k \in Inode \ {n} : inode'[k] = inode[k]
          /\ dir[s] = Empty /\ dir'[s] = [inode_nr |-> n, name |-> name]
          /\ \A t \in Slots \ {s} : dir'[t] = dir[t]
  BY CreateIs, SMTT(30)
<1>2. ASSUME NEW m \in Name, m # name PROVE File(m)' = File(m)
  <2>1. /\ search_file(m)' = search_file(m)
        /\ search_file(m) # 0 => search_file(m) \in Files
    <3>1. dir[s].name # m /\ dir'[s].name # m
      BY <1>1, <1>2, FsAssumption DEF Empty
    <3>. QED BY <1>1, <3>1, SameSearch
  <2>2. search_file(m) # 0 => inode'[search_file(m)] = inode[search_file(m)]
    BY <1>1, <2>1 DEF Files, SInv
  <2>. QED BY <2>1, <2>2 DEF File
<1>. QED BY <1>2

\* ... or removed.
LEMMA RemoveTouches ==
    ASSUME SInv, IInv, IInv', ~LastUnlink, NEW name \in Name, NEW n \in Inode, n = search_file(name),
           MayUnlink(n), Listed(n), Remove(n)
    PROVE  \A m \in Name \ {name} : File(m)' = File(m)
<1>1. PICK u \in Slots : dir[u].name = name /\ dir[u].inode_nr = n /\ n \in Files
  BY Searches, FsAssumption DEF Search
<1>2. n # ROOT_INODE /\ n # 0
  BY <1>1 DEF Files
<1>3. PICK s \in Slots \ {1} :
          /\ dir[s].inode_nr = n
          /\ imap' = imap \ {n}
          /\ \A k \in Inode \ {n} : inode'[k] = inode[k]
          /\ dir'[s] = Empty
          /\ \A t \in Slots \ {s} : dir'[t] = dir[t]
  BY <1>2, RemoveIs
<1>4. u = s
  BY <1>1, <1>2, <1>3 DEF IInv, Entries
<1>5. ASSUME NEW m \in Name, m # name PROVE File(m)' = File(m)
  <2>1. /\ search_file(m)' = search_file(m)
        /\ search_file(m) # 0 =>
              search_file(m) \in Files /\ \E t \in Slots \ {s} : dir[t].inode_nr = search_file(m)
    <3>1. dir[s].name # m /\ dir'[s].name # m
      BY <1>1, <1>3, <1>4, <1>5, FsAssumption DEF Empty
    <3>. QED BY <1>3, <3>1, SameSearch
  <2>2. search_file(m) # 0 => search_file(m) # n
    BY <1>2, <1>3, <2>1 DEF IInv, Entries
  <2>3. search_file(m) # 0 => inode'[search_file(m)] = inode[search_file(m)]
    BY <1>3, <2>1, <2>2 DEF Files, SInv
  <2>. QED BY <2>1, <2>3 DEF File
<1>. QED BY <1>5

\* OneFileAtATime: whatever a request does, at most one name comes to stand for another
\* file, or its file for other sectors; no entry is moved or cut off with another's.
THEOREM RequestsTouchOneFile == ASSUME NoCuts PROVE Spec => OneFileAtATime
<1> DEFINE Changed == {name \in Name : File(name)' # File(name)}
<1>1. SInv /\ IInv /\ IInv' /\ [Next]_vars => Cardinality(Changed) <= 1
  <2> SUFFICES ASSUME SInv, IInv, IInv', [Next]_vars PROVE Cardinality(Changed) <= 1
    OBVIOUS
  <2>1. ASSUME NEW x, Changed \subseteq {x} PROVE Cardinality(Changed) <= 1
    <3>1. IsFiniteSet({x}) /\ Cardinality({x}) = 1
      BY FS_Singleton
    <3> HIDE DEF Changed
    <3>. QED BY <2>1, <3>1, FS_Subset
  <2>2. CASE UNCHANGED disk
    <3>1. \A m : File(m)' = File(m)
      BY <2>2 DEF disk, File, search_file, Examined
    <3>. QED BY <2>1, <3>1
  <2>3. ASSUME NEW p \in Proc, NEW name \in Name, create_file(p, name)
        PROVE  Cardinality(Changed) <= 1
    <3>1. \A m \in Name \ {name} : File(m)' = File(m)
      BY <2>3, CreateTouches DEF NoCuts
    <3>. QED BY <2>1, <3>1
  <2>4. ASSUME NEW p \in Proc, NEW name \in Name, NEW n \in Inode, n = search_file(name),
               MayUnlink(n), Listed(n), Remove(n)
        PROVE  Cardinality(Changed) <= 1
    <3>1. \A m \in Name \ {name} : File(m)' = File(m)
      BY <2>4, RemoveTouches DEF NoCuts
    <3>. QED BY <2>1, <3>1
  <2>. QED BY <2>2, <2>3, <2>4, DiskSteps
<1>2. SInv /\ IInv /\ IInv' /\ [Next]_vars
         => [Cardinality({name \in Name : File(name)' # File(name)}) <= 1]_vars
  BY <1>1
<1>. QED BY <1>2, Invariance, PTL DEF Spec, OneFileAtATime

=============================================================================

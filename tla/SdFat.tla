-------------------------------- MODULE SdFat -------------------------------
(***************************************************************************)
(* The FAT32 file system, libraries/sdFat32/sdFat32.c: creating, writing,  *)
(* appending and deleting in the root directory, on a card that may lose   *)
(* its power between any two sector writes.                                *)
(*                                                                         *)
(* One step is one sector write with the reads and decisions before it.    *)
(* The root directory is one cluster.  A name needs one slot of it, or two *)
(* if it is long (up to 13 characters).  Sectors, clusters and directories *)
(* are small; bytes carry their origin instead of a value.                 *)
(*                                                                         *)
(* A transfer of a sector may fail.  Where the code looks at the result it *)
(* gives the call up; where it does not, and there are many such places,   *)
(* it goes on as if nothing had happened.  A write that fails leaves its   *)
(* sector as it was.                                                       *)
(*                                                                         *)
(* Assumed of the application: a file is open at most once at a time, and  *)
(* is not deleted while it is.  The code does not see to either.  fileRead *)
(* and directories below the root are not modelled.                        *)
(***************************************************************************)
EXTENDS Integers, FiniteSets, FiniteSetsExt, Sequences, Functions

CONSTANTS
    Name,           \* the names of files
    Long,           \* those that need an entry for a long name
    SectorSize,     \* bytes of a sector (512)
    Sectors,        \* sectors of a cluster (BPB_SecPerClus)
    Slots,          \* directory entries of a sector (16)
    LastCluster,    \* clusters are numbered from 2, the root directory's
    Lens,           \* lengths the application writes
    OldSize,        \* lengths of the file another system left on the card
    Faults,         \* transfers that may fail: the sector written, or "read"
    MaxWrites,      \* bound: calls of fileWrite
    MaxLosses,      \* bound: losses of power, and of sectors without notice
    NULL

ASSUME NamesAssumption == Long \subseteq Name /\ NULL \notin Name
ASSUME SizesAssumption == {SectorSize, Sectors, Slots} \subseteq Nat \ {0, 1}
ASSUME VolumeAssumption == LastCluster \in Nat \ (0..2)
ASSUME CallsAssumption == Lens \subseteq Nat
ASSUME FaultsAssumption == Faults \subseteq {"hint", "data", "entry", "fat", "pad", "read"}
ASSUME BoundsAssumption == {MaxWrites, MaxLosses} \subseteq Nat

Cluster == 3..LastCluster       \* the clusters files can have
Free == 0                       \* the FAT's mark of a free cluster
Eoc == LastCluster + 1          \* FAT_EOC, the mark of a chain's end
Slot == 0..(Sectors * Slots - 1)
ClusterSize == Sectors * SectorSize

(* The file on the card has room on it, and NULL points to no structure.   *)
Handle == [slot : Slot, start : Cluster, size : Nat, mode : {"write", "append"}]
ASSUME OldAssumption == OldSize \subseteq 0..((LastCluster - 2) * ClusterSize)
ASSUME HandleAssumption == NULL \notin Handle

VARIABLES
    \* on the card
    fat,            \* fat[c]: the cluster after c, Eoc or Free
    hint,           \* FSI_Nxt_Free
    dir,            \* the root directory's slots
    data,           \* data[c]: the bytes of cluster c
    \* in memory
    handles,        \* handles[f]: the application's file structure, or NULL
    op,             \* the call in progress
    \* history
    writes,         \* calls of fileWrite
    losses,         \* losses of power, and of sectors without notice
    spoiled,        \* a call was cut off or has failed
    lost,           \* clusters given to a file without their mark in the FAT
    defects         \* what has happened after which nothing is promised

card == <<fat, hint, dir, data>>
history == <<writes, losses, spoiled, lost, defects>>
vars == <<card, handles, op, history>>

Byte == [call : 0..MaxWrites, pos : Nat, len : Nat]
Junk == [call |-> 0, pos |-> 0, len |-> 0]
End == [kind |-> "end", name |-> NULL, start |-> 0, size |-> 0]
Unused == [End EXCEPT !.kind = "free"]
LfnEntry(f) == [End EXCEPT !.kind = "lfn", !.name = f]
FileEntry(f, h) == [kind |-> "file", name |-> f, start |-> h.start, size |-> h.size]
Idle == [pc |-> "idle", name |-> NULL, mode |-> NULL, new |-> 0, link |-> 0, slot |-> 0,
         cur |-> 0, sector |-> 0, from |-> 0, sent |-> 0, len |-> 0]

-----------------------------------------------------------------------------
(* Reading the card.                                                       *)

(* The n-th cluster after c.                                               *)
Walk(c, n) ==
    LET w[k \in 0..n] == IF k = 0 THEN c
                         ELSE IF w[k - 1] \in Cluster THEN fat[w[k - 1]] ELSE w[k - 1]
    IN  w[n]
Chain(c) == {Walk(c, n) : n \in 0..LastCluster} \cap Cluster

(* The slots at which fileExists can find f: it stops at an end mark.      *)
Find(f) == {s \in Slot : /\ dir[s].kind = "file"
                         /\ dir[s].name = f
                         /\ \A t \in 0..(s - 1) : dir[t].kind # "end"}
Exists(f) == Find(f) # {}
At(f) == Min(Find(f))

Contents(f) ==
    LET e == dir[At(f)]
    IN  [k \in 1..e.size |->
            LET c == Walk(e.start, (k - 1) \div ClusterSize)
            IN  IF c \in Cluster THEN data[c][((k - 1) % ClusterSize) + 1] ELSE Junk]

(* The files none of whose clusters is another's: the mark of the cluster  *)
(* they begin with was not lost.                                           *)
Live == {s \in Slot : dir[s].kind = "file"}
Intact == {s \in Live : dir[s].start \notin lost}
Files == [f \in {g \in Name : Exists(g) /\ At(g) \in Intact} |-> Contents(f)]

Bytes(call, len) == [k \in 1..len |-> [call |-> call, pos |-> k, len |-> len]]

-----------------------------------------------------------------------------
(* A card formatted elsewhere: with no file, or with one, whose clusters   *)
(* are the first ones.  Slot 0 is the volume label.                        *)
Init ==
    /\ \E f \in Name \ Long, n \in OldSize :
         LET used == {c \in Cluster : (c - 3) * ClusterSize < n}
         IN  /\ fat = [c \in Cluster |-> IF c \notin used THEN Free
                                         ELSE IF c + 1 \in used THEN c + 1 ELSE Eoc]
             /\ hint = 3 + Cardinality(used)
             /\ dir = [s \in Slot |->
                         IF s = 0 THEN [End EXCEPT !.kind = "label"]
                         ELSE IF s = 1 /\ n > 0 THEN FileEntry(f, [start |-> 3, size |-> n])
                         ELSE End]
             /\ data = [c \in Cluster |-> [k \in 1..ClusterSize |->
                         LET pos == (c - 3) * ClusterSize + k
                         IN  IF pos <= n THEN Bytes(0, n)[pos] ELSE Junk]]
    /\ handles = [f \in Name |-> NULL]
    /\ op = Idle
    /\ writes = 0 /\ losses = 0 /\ spoiled = FALSE /\ lost = {} /\ defects = {}

-----------------------------------------------------------------------------
(* A sector write has failed, and the code gives the call up.              *)
GiveUp(sector) ==
    /\ sector \in Faults
    /\ op' = Idle
    /\ spoiled' = TRUE
    /\ UNCHANGED <<card, handles, writes, losses, lost, defects>>

(* What the code reads or overwrites from here on is not modelled: the     *)
(* behaviour ends.                                                         *)
Astray(how) ==
    /\ op' = [op EXCEPT !.pc = "outside"]
    /\ defects' = defects \cup {how}
    /\ UNCHANGED <<card, handles, writes, losses, spoiled, lost>>

(* The code leaves the FAT, the directory or the volume with a number that *)
(* is none of a cluster.                                                   *)
Outside == Astray("outside")

(* A read has failed, and the code takes what sdBuffer holds for what it   *)
(* wanted: in its searches of the directory and the FAT, for the sector    *)
(* that gets a new entry, a new link or the first bytes of an append.      *)
(* Most of these sectors are then written back.                            *)
Misread ==
    /\ "read" \in Faults
    /\ \/ op.pc \in {"idle", "hint", "link", "mark", "pad", "entry", "unlink"}
       \/ op.pc = "sector" /\ op.from # 0
    /\ Astray("misread")

-----------------------------------------------------------------------------
(* fileOpen.                                                               *)

Open(f, mode) ==
    /\ op = Idle /\ handles[f] = NULL
    /\ IF Exists(f)
       THEN /\ handles' = [handles EXCEPT ![f] = [slot |-> At(f), start |-> dir[At(f)].start,
                                                  size |-> dir[At(f)].size, mode |-> mode]]
            /\ UNCHANGED op
       ELSE /\ op' = [Idle EXCEPT !.pc = "hint", !.name = f, !.mode = mode]
            /\ UNCHANGED handles
    /\ UNCHANGED <<card, history>>

Close(f) ==
    /\ op = Idle /\ handles[f] # NULL
    /\ handles' = [handles EXCEPT ![f] = NULL]
    /\ UNCHANGED <<card, op, history>>

(* Mutant: the hint is taken without a look at the FAT.                    *)
FreeFromUnchecked(n) == {c \in Cluster : c >= n}

(* getNextFreeCluster: the first free cluster from the hint on.            *)
FreeFrom(n) == {c \in Cluster : c >= n /\ fat[c] = Free}

(* getNextFreeCluster, which writes FSInfo, for a new file (link is 0) or  *)
(* for an append; on failure the caller goes on with 0xFFFFFFFF.           *)
Allocate ==
    /\ op.pc = "hint"
    /\ \/ /\ FreeFrom(hint) # {}
          /\ hint' = Min(FreeFrom(hint))
          /\ op' = [op EXCEPT !.new = Min(FreeFrom(hint)), !.pc = IF op.link = 0 THEN "mark" ELSE "link"]
          /\ UNCHANGED <<fat, dir, data, handles, history>>
       \/ /\ FreeFrom(hint) = {} \/ "hint" \in Faults
          /\ Outside

(* getFreeEntry: the slot where it puts n entries, before the shift into   *)
(* the next sector.  A run of free slots is looked at within one sector,   *)
(* and after a run that is too short the search goes on behind the slot    *)
(* that ended it.  None stands for the end of the directory.               *)
None == Sectors * Slots
FreeEntry(n) ==
    LET last(s) == s % Slots = Slots - 1
        from[s \in 0..(None + 1)] ==
            IF s >= None THEN None
            ELSE IF dir[s].kind = "end" THEN s
            ELSE IF dir[s].kind # "free" THEN from[s + 1]
            ELSE IF n = 1 \/ (~last(s) /\ dir[s + 1].kind = "free") THEN s
            ELSE IF last(s) THEN from[s + 1] ELSE from[s + 2]
    IN  from[0]
Needed(f) == IF f \in Long THEN 2 ELSE 1

(* At the end mark, the entries have to end before the sector's last slot; *)
(* otherwise its rest is filled and they go to the next sector.            *)
Pads(s, n) == s # None /\ dir[s].kind = "end" /\ (s % Slots) + n > Slots - 1
NextSector(s) == (s \div Slots + 1) * Slots

(* A sector write has failed, and the code goes on as if it had not.       *)
Unnoticed(sector) ==
    /\ sector \in Faults
    /\ losses < MaxLosses
    /\ losses' = losses + 1
    /\ spoiled' = TRUE

(* fatSetNextClus does not look at the result of its write.                *)
SetNext(c, next) ==
    \/ /\ fat' = [fat EXCEPT ![c] = next]
       /\ UNCHANGED <<losses, spoiled>>
    \/ /\ Unnoticed("fat")
       /\ UNCHANGED fat

(* fatSetNextClus(new, FAT_EOC), and the search for the slot of a new file.*)
Mark ==
    /\ op.pc = "mark"
    /\ SetNext(op.new, Eoc)
    /\ lost' = IF fat'[op.new] = Eoc THEN lost ELSE lost \cup {op.new}
    /\ IF op.link # 0
       THEN /\ op' = [op EXCEPT !.pc = "sector"]
            /\ UNCHANGED defects
       ELSE LET n == Needed(op.name)
                s == FreeEntry(n)
            IN  /\ op' = [op EXCEPT !.slot = s, !.pc = IF Pads(s, n) THEN "pad" ELSE "entry"]
                /\ defects' = IF \E t \in 0..(s - 1) : dir[t].kind = "end"
                              THEN defects \cup {"hidden"} ELSE defects
    /\ UNCHANGED <<hint, dir, data, handles, writes>>

(* Mutant: the filling begins one slot too late.                           *)
PadLate ==
    /\ op.pc = "pad"
    /\ op' = [op EXCEPT !.pc = "entry", !.slot = NextSector(op.slot)]
    /\ dir' = [s \in Slot |-> IF s > op.slot /\ s < NextSector(op.slot) THEN Unused ELSE dir[s]]
    /\ UNCHANGED <<fat, hint, data, handles, history>>

(* getFreeEntry fills the sector; a failure is not noticed.                *)
Pad ==
    /\ op.pc = "pad"
    /\ op' = [op EXCEPT !.pc = "entry", !.slot = NextSector(op.slot)]
    /\ \/ /\ dir' = [s \in Slot |-> IF s >= op.slot /\ s < NextSector(op.slot) THEN Unused ELSE dir[s]]
          /\ UNCHANGED <<losses, spoiled, defects>>
       \/ /\ Unnoticed("pad")
          /\ defects' = defects \cup {"hidden"}
          /\ UNCHANGED dir
    /\ UNCHANGED <<fat, hint, data, handles, writes, lost>>

(* The end of fileCreate: the sector with the file's entries.              *)
PlaceEntry ==
    /\ op.pc = "entry"
    /\ op.slot \in Slot
    /\ LET f == op.name
           s == op.slot + Needed(f) - 1
           h == [slot |-> s, start |-> op.new, size |-> 0, mode |-> op.mode]
       IN  /\ dir' = [t \in Slot |-> CASE t = s -> FileEntry(f, h)
                                       [] t = op.slot /\ t < s -> LfnEntry(f)
                                       [] OTHER -> dir[t]]
           /\ handles' = [handles EXCEPT ![f] = h]
    /\ op' = Idle
    /\ UNCHANGED <<fat, hint, data, history>>

Entry ==
    \/ PlaceEntry
    \/ op.pc = "entry" /\ op.slot \in Slot /\ GiveUp("entry")
    \/ op.pc = "entry" /\ op.slot \notin Slot /\ Outside

-----------------------------------------------------------------------------
(* fileWrite.                                                              *)

(* Mutant: the sector is not taken modulo the cluster.                     *)
WriteNoModulo(f, len) ==
    LET h == handles[f]
        first == IF h.mode = "write" THEN 0 ELSE h.size
        count == first \div ClusterSize + 1
        call == [Idle EXCEPT !.name = f, !.mode = h.mode, !.len = len,
                             !.from = first % SectorSize,
                             !.sector = first \div SectorSize]
    IN  /\ op = Idle /\ h # NULL
        /\ writes < MaxWrites
        /\ writes' = writes + 1
        /\ IF count = 1
           THEN /\ op' = [call EXCEPT !.pc = "sector", !.cur = h.start]
                /\ UNCHANGED defects
           ELSE /\ op' = [call EXCEPT !.pc = IF Walk(h.start, count - 1) \in Cluster THEN "hint" ELSE "outside",
                                      !.link = Walk(h.start, count - 1),
                                      !.cur = Walk(h.start, count)]
                /\ defects' = defects \cup {"beyond"}
        /\ UNCHANGED <<card, handles, losses, spoiled, lost>>

(* Mutant: an append begins at the start of the sector.                    *)
WriteWholeSectors(f, len) ==
    LET h == handles[f]
        first == IF h.mode = "write" THEN 0 ELSE h.size
        count == first \div ClusterSize + 1
        call == [Idle EXCEPT !.name = f, !.mode = h.mode, !.len = len,
                             !.from = 0,
                             !.sector = (first \div SectorSize) % Sectors]
    IN  /\ op = Idle /\ h # NULL
        /\ writes < MaxWrites
        /\ writes' = writes + 1
        /\ IF count = 1
           THEN /\ op' = [call EXCEPT !.pc = "sector", !.cur = h.start]
                /\ UNCHANGED defects
           ELSE /\ op' = [call EXCEPT !.pc = IF Walk(h.start, count - 1) \in Cluster THEN "hint" ELSE "outside",
                                      !.link = Walk(h.start, count - 1),
                                      !.cur = Walk(h.start, count)]
                /\ defects' = defects \cup {"beyond"}
        /\ UNCHANGED <<card, handles, losses, spoiled, lost>>

(* The start: where to write, and for a position behind the first cluster  *)
(* the walk, which goes one link too far, and a new cluster.               *)
Write(f, len) ==
    LET h == handles[f]
        first == IF h.mode = "write" THEN 0 ELSE h.size
        count == first \div ClusterSize + 1
        call == [Idle EXCEPT !.name = f, !.mode = h.mode, !.len = len,
                             !.from = first % SectorSize,
                             !.sector = (first \div SectorSize) % Sectors]
    IN  /\ op = Idle /\ h # NULL
        /\ writes < MaxWrites
        /\ writes' = writes + 1
        /\ IF count = 1
           THEN /\ op' = [call EXCEPT !.pc = "sector", !.cur = h.start]
                /\ UNCHANGED defects
           ELSE /\ op' = [call EXCEPT !.pc = IF Walk(h.start, count - 1) \in Cluster THEN "hint" ELSE "outside",
                                      !.link = Walk(h.start, count - 1),
                                      !.cur = Walk(h.start, count)]
                /\ defects' = defects \cup {"beyond"}
        /\ UNCHANGED <<card, handles, losses, spoiled, lost>>

(* fatSetNextClus(tempCluster, nextClus).                                  *)
Link ==
    /\ op.pc = "link"
    /\ SetNext(op.link, op.new)
    /\ op' = [op EXCEPT !.pc = "mark"]
    /\ UNCHANGED <<hint, dir, data, handles, writes, lost, defects>>

(* How many of the call's bytes go into this sector; a call with none does *)
(* not see its end and fills the cluster from beyond its data.             *)
Room == SectorSize - op.from
Taken == IF op.len = 0 THEN Room ELSE Min({Room, op.len - op.sent})
MoreData == op.len = 0 \/ op.sent + Taken < op.len

(* One round of the loop over the sectors of the cluster: what is behind   *)
(* the last byte was read with the sector or is left over in sdBuffer.     *)
SectorData(c) ==
    [k \in 1..ClusterSize |->
        LET i == k - op.sector * SectorSize     \* in the sector, from 1
        IN  IF i \notin 1..SectorSize THEN data[c][k]
            ELSE IF i > op.from /\ i <= op.from + Taken
                 THEN IF op.len = 0 THEN Junk ELSE Bytes(writes, op.len)[op.sent + i - op.from]
            ELSE IF op.from # 0 THEN data[c][k] ELSE Junk]

(* Mutant: the size also counts what is dropped at the end of the cluster. *)
WriteSectorCountsDropped ==
    /\ op.pc = "sector"
    /\ op.cur \in Cluster
    /\ data' = [data EXCEPT ![op.cur] = SectorData(op.cur)]
    /\ \/ /\ ~MoreData
          /\ handles' = [handles EXCEPT ![op.name].size = IF op.mode = "write" THEN op.len ELSE @ + op.len]
          /\ op' = [op EXCEPT !.pc = "update"]
       \/ /\ MoreData /\ op.sector + 1 < Sectors
          /\ op' = [op EXCEPT !.sector = @ + 1, !.from = 0, !.sent = @ + Taken]
          /\ UNCHANGED handles
       \/ /\ MoreData /\ op.sector + 1 = Sectors
          /\ op' = Idle
          /\ handles' = [handles EXCEPT ![op.name].size = IF op.mode = "write" THEN op.len ELSE @ + op.len]
    /\ UNCHANGED <<fat, hint, dir, history>>

WriteSector ==
    /\ op.pc = "sector"
    /\ op.cur \in Cluster
    /\ data' = [data EXCEPT ![op.cur] = SectorData(op.cur)]
    /\ \/ /\ ~MoreData
          /\ handles' = [handles EXCEPT ![op.name].size = IF op.mode = "write" THEN op.len ELSE @ + op.len]
          /\ op' = [op EXCEPT !.pc = "update"]
       \/ /\ MoreData /\ op.sector + 1 < Sectors
          /\ op' = [op EXCEPT !.sector = @ + 1, !.from = 0, !.sent = @ + Taken]
          /\ UNCHANGED handles
       \/ /\ MoreData /\ op.sector + 1 = Sectors
          /\ op' = Idle
          /\ UNCHANGED handles
    /\ UNCHANGED <<fat, hint, dir, history>>

SectorStep ==
    \/ WriteSector
    \/ op.pc = "sector" /\ op.cur \in Cluster /\ GiveUp("data")
    \/ op.pc = "sector" /\ op.cur \notin Cluster /\ Outside

(* The entry is overwritten with the application's copy of it.             *)
Update ==
    /\ op.pc = "update"
    /\ \/ /\ dir' = [dir EXCEPT ![handles[op.name].slot] = FileEntry(op.name, handles[op.name])]
          /\ op' = Idle
          /\ UNCHANGED <<fat, hint, data, handles, history>>
       \/ GiveUp("entry")

-----------------------------------------------------------------------------
(* fileDelete: first the entries, then the chain, cluster by cluster.      *)

Delete(f) ==
    /\ op = Idle /\ handles[f] = NULL
    /\ Exists(f)
    /\ \/ /\ dir' = [s \in Slot |-> IF s \in (At(f) - Needed(f) + 1)..At(f) THEN Unused ELSE dir[s]]
          /\ op' = [Idle EXCEPT !.pc = "unlink", !.name = f, !.cur = dir[At(f)].start]
          /\ UNCHANGED <<fat, hint, data, handles, history>>
       \/ GiveUp("entry")

(* Mutant: only the first cluster is freed.                                *)
UnlinkFirst ==
    /\ op.pc = "unlink"
    /\ \/ /\ op.cur \in Cluster
          /\ SetNext(op.cur, Free)
          /\ op' = Idle
          /\ UNCHANGED <<hint, dir, data, handles, writes, lost, defects>>
       \/ op.cur \notin Cluster /\ Outside

Unlink ==
    /\ op.pc = "unlink"
    /\ \/ /\ op.cur \in Cluster
          /\ SetNext(op.cur, Free)
          /\ op' = IF fat[op.cur] = Eoc THEN Idle ELSE [op EXCEPT !.cur = fat[op.cur]]
          /\ UNCHANGED <<hint, dir, data, handles, writes, lost, defects>>
       \/ op.cur \notin Cluster /\ Outside

(* Power goes in the middle of a call; the application starts anew.        *)
Crash ==
    /\ op.pc \notin {"idle", "outside"}
    /\ losses < MaxLosses
    /\ losses' = losses + 1
    /\ spoiled' = TRUE
    /\ handles' = [f \in Name |-> NULL]
    /\ op' = Idle
    /\ UNCHANGED <<card, writes, lost, defects>>

Next ==
    \/ \E f \in Name : \/ \E mode \in {"write", "append"} : Open(f, mode)
                       \/ Close(f)
                       \/ \E len \in Lens : Write(f, len)
                       \/ Delete(f)
    \/ Allocate \/ Mark \/ Pad \/ Entry
    \/ Link \/ SectorStep \/ Update
    \/ Unlink
    \/ Misread
    \/ Crash

Spec == Init /\ [][Next]_vars

-----------------------------------------------------------------------------
(* Properties.                                                             *)
(*                                                                         *)
(* They hold until one of the following happens, from which on nothing is  *)
(* promised:                                                               *)
(*   "hidden"   entries are put behind an end mark, those of a long name   *)
(*              or those for which the filling of a sector has failed;     *)
(*   "beyond"   an append begins behind the file's first cluster;          *)
(*   "outside"  a cluster or a slot is used that there is not;             *)
(*   "misread"  a read fails whose result the code does not look at.       *)
Sound == defects = {}

Pc == {"idle", "hint", "link", "mark", "pad", "entry", "sector", "update", "unlink", "outside"}

(* Card and memory hold what the code's types and tests say; a sector that *)
(* fileWrite writes lies inside its cluster.                               *)
TypeOK ==
    /\ fat \in [Cluster -> Cluster \cup {Free, Eoc}]
    /\ hint \in 3..Eoc
    /\ \A s \in Slot : /\ dir[s].kind \in {"label", "end", "free", "lfn", "file"}
                       /\ dir[s].kind \in {"lfn", "file"} <=> dir[s].name \in Name
                       /\ dir[s].kind = "file" <=> dir[s].start \in Cluster
    /\ \A c \in Cluster : data[c] \in Seq(Byte) /\ Len(data[c]) = ClusterSize
    /\ \A f \in Name : handles[f] # NULL => handles[f].slot \in Slot /\ handles[f].start \in Cluster
    /\ op.pc \in Pc
    /\ op.pc = "sector" => op.sector < Sectors /\ op.from < SectorSize
    /\ spoiled \in BOOLEAN /\ lost \subseteq Cluster
    /\ writes \in 0..MaxWrites /\ losses \in 0..MaxLosses

(* At every instant, also where the power goes, the chain of every file    *)
(* ends, is long enough for the file, and shares no cluster with another:  *)
(* fileCreate marks the cluster before it writes the entry, fileDelete     *)
(* takes the entry away before it frees the chain.  A mark that was lost   *)
(* unnoticed does this to no file but those of the cluster it was lost of. *)
ChainsApart ==
    Sound => \A s \in Intact :
        /\ Walk(dir[s].start, LastCluster) = Eoc
        /\ dir[s].size <= ClusterSize * Cardinality(Chain(dir[s].start))
        /\ \A t \in Live \ {s} : Chain(dir[s].start) \cap Chain(dir[t].start) = {}

(* Without a failure or a loss of power, every cluster that is not free    *)
(* belongs to a file when no call is in progress.                          *)
NothingLeaks ==
    (Sound /\ ~spoiled /\ op = Idle) =>
        \A c \in Cluster : fat[c] = Free \/ \E s \in Live : c \in Chain(dir[s].start)

(* The FAT and the directory agree in both directions.                     *)
ChainsSound == ChainsApart /\ NothingLeaks

(* fileExists finds every file, by a name no other file has, and with the  *)
(* long name in front of it, through all reuse and filling of slots.       *)
DirectoryWhole ==
    Sound => \A s \in Live :
        /\ Find(dir[s].name) = {s}
        /\ dir[s].name \in Long => dir[s - 1] = LfnEntry(dir[s].name)

(* An open file's structure, which fileWrite writes over the entry, is a   *)
(* copy of this file's entry and no older one.  Only after a failed        *)
(* update may its size differ.                                             *)
HandlesCurrent ==
    Sound => \A f \in Name : handles[f] # NULL =>
        LET h == handles[f]
        IN  /\ Find(f) = {h.slot}
            /\ dir[h.slot].start = h.start
            /\ spoiled \/ (op.pc = "update" /\ op.name = f) \/ dir[h.slot].size = h.size

(* What is on the card changes as FileStore says, through crashes and      *)
(* failures: one file at a time, appends as a whole or not at all, never   *)
(* another file.  Files with a lost mark are left out, but whatever is     *)
(* done to them changes no other.                                          *)
Replacing ==
    IF op.mode = "write" /\ op.pc \in {"sector", "update"} /\ handles[op.name].start \notin lost
    THEN {op.name} ELSE {}
Store == INSTANCE FileStore WITH files <- Files, replacing <- Replacing
RefinesStore == Store!Init /\ [][Sound' => Store!Next]_<<Files, Replacing>>

(* A file that fileOpen has opened or created is in the directory.         *)
CreatedIsFound == \A f \in Name : handles[f] # NULL => Exists(f)
=============================================================================

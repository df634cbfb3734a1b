----------------------------- MODULE SdFatRead ------------------------------
(***************************************************************************)
(* fileRead of libraries/sdFat32/sdFat32.c.  A file structure holds the    *)
(* position in bytes; the cluster and the sector that belong to it are two *)
(* static variables of fileRead, and the sector itself is in sdBuffer,     *)
(* which every call of the file system uses.  All open files share the     *)
(* three.                                                                  *)
(*                                                                         *)
(* The files do not change here (SdFat models how they do).  A byte is     *)
(* named by its file and its place there; what is not in a file is Other.  *)
(* fileRead does not look at the size of the file: it reads to the end of  *)
(* the last cluster.                                                       *)
(***************************************************************************)
EXTENDS Integers, Sequences

CONSTANTS
    Name,           \* the files
    Long,           \* those whose name is in entries for a long name
    SectorSize,     \* BPB_BytesPerSec
    Sectors,        \* BPB_SecPerClus
    IndexMod,       \* sectorIndex is a uint8_t: 256
    MaxClusters,    \* bound: clusters of a file
    MaxPosition,    \* bound: how far the application reads (a lost chain has no end)
    Lens,           \* lengths the application reads
    Other,          \* what is not of a file, and no file
    Eoc             \* FAT_EOC

ASSUME ReadAssumption ==
    /\ Long \subseteq Name
    /\ {SectorSize, Sectors, MaxClusters, MaxPosition} \subseteq Nat \ {0}
    /\ IndexMod \in Nat /\ Sectors < IndexMod
    /\ Lens \subseteq Nat
    /\ {Other, Eoc} \cap Name = {} /\ Eoc # Other

ClusterSize == Sectors * SectorSize

VARIABLES
    length,         \* length[f]: the clusters of file f
    cluster,        \* Cluster
    sectorIndex,    \* sectorIndex
    sdBuffer,       \* which sector is in sdBuffer
    entryIndex,     \* entryIndex[f]: the position in file f
    call,           \* the call in progress, or the last one
    astray          \* history: what has disturbed the reading of file f

vars == <<length, cluster, sectorIndex, sdBuffer, entryIndex, call, astray>>

(* A cluster of a file, and the one after it.                              *)
ClusterOf(f, i) == [file |-> f, at |-> i]
Strange == ClusterOf(Other, 1)
After(c) ==
    IF c.file \notin Name THEN Strange
    ELSE IF c.at < length[c.file] THEN ClusterOf(c.file, c.at + 1) ELSE ClusterOf(Eoc, 1)

(* The sector at an index of a cluster, counted in the file.  An index     *)
(* behind the cluster's end leads to whatever lies there on the card.      *)
NoSector == [file |-> Other, sector |-> 0]
SectorAt(c, i) ==
    IF c.file \in Name /\ i < Sectors
    THEN [file |-> c.file, sector |-> (c.at - 1) * Sectors + i]
    ELSE NoSector

ByteAt(s, offset) ==
    IF s = NoSector THEN [file |-> Other, pos |-> 0]
    ELSE [file |-> s.file, pos |-> s.sector * SectorSize + offset]

NoCall == [pc |-> "none", file |-> Other, from |-> 0, left |-> 0, got |-> <<>>, astray |-> FALSE]

Init ==
    /\ length \in [Name -> 1 .. MaxClusters]
    /\ cluster = Strange /\ sectorIndex = 0
    /\ sdBuffer = NoSector
    /\ entryIndex = [f \in Name |-> 0]
    /\ call = NoCall
    /\ astray = [f \in Name |-> {}]

Idle == call.pc # "loop"
Caller == call.file
Position == entryIndex[Caller]

MidSector(f) == entryIndex[f] % SectorSize # 0

(* What this step does to the reading of the files; one that is read from  *)
(* its start again is read afresh.                                         *)
Strays(hit) ==
    astray' = [f \in Name |-> IF entryIndex'[f] = 0 THEN {} ELSE astray[f] \cup hit[f]]

Unharmed == [f \in Name |-> {}]
BufferLost == [f \in Name |-> IF MidSector(f) THEN {"buffer"} ELSE {}]
OthersLost(mine) == [f \in Name |-> IF f = Caller THEN mine ELSE {"shared"}]

-----------------------------------------------------------------------------
(* The calls of the file system around fileRead.                           *)

(* fileReset.                                                              *)
Reset(f) ==
    /\ Idle
    /\ entryIndex' = [entryIndex EXCEPT ![f] = 0]
    /\ Strays(Unharmed)
    /\ UNCHANGED <<length, cluster, sectorIndex, sdBuffer, call>>

(* fileOpen of f searches the directory, through sdBuffer.                 *)
Open(f) ==
    /\ Idle
    /\ sdBuffer' = NoSector
    /\ entryIndex' = [entryIndex EXCEPT ![f] = 0]
    /\ Strays(BufferLost)
    /\ UNCHANGED <<length, cluster, sectorIndex, call>>

-----------------------------------------------------------------------------
(* fileRead.  Its first test, fileIsValid, makes up the name of the file,  *)
(* and reads a sector of the directory to do so if it is a long one.       *)
ReadBegin(f, len) ==
    /\ Idle
    /\ entryIndex[f] + len <= MaxPosition
    /\ sdBuffer' = IF f \in Long THEN NoSector ELSE sdBuffer
    /\ UNCHANGED <<length, entryIndex>>
    /\ IF entryIndex[f] = 0
       THEN /\ cluster' = ClusterOf(f, 1) /\ sectorIndex' = 0
            /\ Strays([g \in Name |-> IF g = f THEN {} ELSE {"shared"}])
       ELSE /\ UNCHANGED <<cluster, sectorIndex>>
            /\ Strays(IF f \in Long THEN BufferLost ELSE Unharmed)
    /\ call' = [NoCall EXCEPT !.pc = "loop", !.file = f, !.from = entryIndex[f],
                              !.left = len, !.astray = astray'[f] # {}]

AtBoundary == Position > 0 /\ Position % ClusterSize = 0
NewSector == Position % SectorSize = 0

(* Mutant: the sector index stays when the cluster changes.                *)
PlaceKeepsSector ==
    [cluster |-> IF AtBoundary THEN After(cluster) ELSE cluster, sector |-> sectorIndex]

(* Where one round of the loop reads, if the FAT says so.                  *)
Place ==
    IF AtBoundary THEN [cluster |-> After(cluster), sector |-> 0]
    ELSE [cluster |-> cluster, sector |-> sectorIndex]

(* The FAT is read without a look at the result: a failure, or a number    *)
(* that is none of a cluster, leads anywhere, or to what passes for the    *)
(* end of the chain.                                                       *)
Misplaced == IF AtBoundary THEN {[cluster |-> c, sector |-> 0] : c \in {Strange, ClusterOf(Eoc, 1)}} ELSE {}

Places == {Place} \cup Misplaced
Lost(p) == p # Place

(* The end of the chain is looked for where the cluster changes, only.     *)
ChainEnds(p) == AtBoundary /\ p.cluster.file = Eoc

NextIndex(i) == (i + 1) % IndexMod

(* One byte, out of a new sector or of the one in the buffer.              *)
ReadByte(p) ==
    /\ ~ChainEnds(p)
    /\ cluster' = p.cluster
    /\ IF NewSector
       THEN /\ sdBuffer' = SectorAt(p.cluster, p.sector)
            /\ sectorIndex' = NextIndex(p.sector)
       ELSE UNCHANGED <<sdBuffer, sectorIndex>>
    /\ entryIndex' = [entryIndex EXCEPT ![Caller] = @ + 1]
    /\ call' = [call EXCEPT !.left = @ - 1, !.astray = @ \/ Lost(p),
                            !.got = Append(@, ByteAt(sdBuffer', Position % SectorSize))]
    /\ IF NewSector THEN Strays(OthersLost(IF Lost(p) THEN {"failed"} ELSE {})) ELSE Strays(Unharmed)
    /\ UNCHANGED length

(* The sector cannot be read; the index has moved on all the same.         *)
ReadFails(p) ==
    /\ ~ChainEnds(p)
    /\ NewSector
    /\ cluster' = p.cluster
    /\ sectorIndex' = NextIndex(p.sector)
    /\ sdBuffer' = NoSector
    /\ call' = [call EXCEPT !.pc = "failed"]
    /\ UNCHANGED <<length, entryIndex>>
    /\ Strays(OthersLost({"failed"}))

(* Mutant: the position is left at the end.                                *)
ReadEndsAtEnd(p) ==
    /\ ChainEnds(p)
    /\ UNCHANGED <<length, entryIndex>>
    /\ cluster' = p.cluster /\ sectorIndex' = 0
    /\ sdBuffer' = NoSector
    /\ call' = [call EXCEPT !.pc = "ended", !.astray = @ \/ Lost(p)]
    /\ Strays(OthersLost({}))

(* The chain is at its end, and the position goes back to the start.       *)
ReadEnds(p) ==
    /\ ChainEnds(p)
    /\ cluster' = p.cluster /\ sectorIndex' = 0
    /\ sdBuffer' = NoSector
    /\ entryIndex' = [entryIndex EXCEPT ![Caller] = 0]
    /\ call' = [call EXCEPT !.pc = "ended", !.astray = @ \/ Lost(p)]
    /\ Strays(OthersLost({}))
    /\ UNCHANGED length

(* A round of the loop.                                                    *)
ReadRound ==
    /\ call.pc = "loop" /\ call.left > 0
    /\ \E p \in Places : ReadByte(p) \/ ReadFails(p) \/ ReadEnds(p)

ReadDone ==
    /\ call.pc = "loop" /\ call.left = 0
    /\ call' = [call EXCEPT !.pc = "done"]
    /\ UNCHANGED <<length, cluster, sectorIndex, sdBuffer, entryIndex, astray>>

-----------------------------------------------------------------------------
Next ==
    \/ \E f \in Name : Open(f) \/ Reset(f)
    \/ \E f \in Name, len \in Lens : ReadBegin(f, len)
    \/ ReadRound \/ ReadDone

Spec == Init /\ [][Next]_vars

-----------------------------------------------------------------------------
Bytes(f) == length[f] * ClusterSize

(* A file none of whose reads was disturbed: the shared variables are its  *)
(* own, they belong to its position, and inside a sector the buffer still  *)
(* holds that sector.                                                      *)
CursorTrue ==
    \A f \in Name : entryIndex[f] # 0 /\ astray[f] = {} =>
        LET last == entryIndex[f] - 1
        IN  /\ cluster = ClusterOf(f, (last \div ClusterSize) + 1)
            /\ sectorIndex = (((last % ClusterSize) \div SectorSize) + 1) % IndexMod
            /\ MidSector(f) => sdBuffer = [file |-> f, sector |-> last \div SectorSize]

(* What fileRead returns is the file's bytes from its position on, and it  *)
(* takes for the end of the file only the end of the last cluster.         *)
(* Excepted are files that were disturbed: by a read of another file, by a *)
(* sector read in the middle of one of theirs (for a file with a long      *)
(* name, fileRead's own), or by a failed read.                             *)
ReadTrue ==
    call.file # Other /\ ~call.astray =>
        /\ \A i \in DOMAIN call.got : call.got[i] = [file |-> Caller, pos |-> call.from + i - 1]
        /\ call.pc = "ended" => call.from + Len(call.got) = Bytes(Caller)
=============================================================================

----------------------------- MODULE PlotFiles -----------------------------
(***************************************************************************)
(* Plot files: which ones are loaded (scan_plots and Plot::new), the check  *)
(* for overlaps (Reader::new), and the arithmetic of reading one scoop of a *)
(* plot in chunks, buffered or with direct I/O (Plot::prepare, Plot::read). *)
(* The plots of a scan are read here one after the other, in any order;     *)
(* module Reader has the tasks, locks and buffers around it.                *)
(***************************************************************************)
EXTENDS Integers, Sequences

CONSTANTS
  Files,         \* [account_id, start_nonce, nonces, size]
  Disks,         \* what scans may find, sequences of files
  Settings,      \* [direct_io, sector_size, capacity]: of a buffer, in bytes
  AllowedAccounts,
  Scoops,        \* the scoop numbers tried
  Modulus        \* 2^64: nonces are u64

SCOOP_SIZE == 64
SCOOPS_IN_NONCE == 4096
NONCE_SIZE == SCOOP_SIZE * SCOOPS_IN_NONCE

\* A sector is a number of scoops, and the buffers of a miner with direct I/O
\* are whole sectors (load_cfg refuses others).
ASSUME PlotAssumption ==
  /\ Modulus \in Nat \ {0}
  /\ Scoops \subseteq 0..(SCOOPS_IN_NONCE - 1)
  /\ \A s \in Settings :
       /\ s.direct_io \in BOOLEAN
       /\ s.sector_size \in Nat \ {0} /\ s.sector_size % SCOOP_SIZE = 0
       /\ s.capacity \in Nat \ {0} /\ s.capacity % SCOOP_SIZE = 0
       /\ s.direct_io => s.capacity % s.sector_size = 0
  /\ \A f \in Files : f.start_nonce \in Nat /\ f.nonces \in Nat
  /\ Disks \subseteq Seq(Files)

VARIABLES
  disk,         \* the files not looked at yet
  setting,
  plots,        \* the plots loaded, in the order of their drives and ages
  checked,      \* Reader::new has looked for overlaps
  warned,       \* and found one
  scoop,        \* of the scan under way
  unread,       \* the plots it has yet to read
  plot,         \* the one it reads, 0 if none
  read_offset,  \* Plot::read_offset of that one
  chunks,       \* what it read: [plot, offset, from, len, start_nonce]
  panicked

vars == <<disk, setting, plots, checked, warned, scoop, unread, plot,
          read_offset, chunks, panicked>>

loading == <<disk, setting, plots, checked, warned>>

Init ==
  /\ disk \in Disks
  /\ setting \in Settings
  /\ plots = <<>>
  /\ checked = FALSE /\ warned = FALSE
  /\ scoop = 0
  /\ unread = {}
  /\ plot = 0
  /\ read_offset = 0
  /\ chunks = {}
  /\ panicked = FALSE

-----------------------------------------------------------------------------
(* Loading.                                                                 *)

\* The file's size is that of its nonces; a sector size that is too large for
\* it is only warned about.
Opens(f) == f.size = f.nonces * NONCE_SIZE
NotEnoughNonces(p) ==
  setting.direct_io /\ setting.sector_size \div 64 > p.nonces

\* A plot of an account that is not configured, or whose size is not what its
\* name says, is left out.  (The scan's tests of SHOULD_STOP_MINING never
\* see it set: only polls set it, and they begin when the scan is over.)
scan_plots ==
  /\ disk # <<>>
  /\ disk' = Tail(disk)
  /\ plots' = IF Head(disk).account_id \in AllowedAccounts /\ Opens(Head(disk))
              THEN Append(plots, Head(disk)) ELSE plots
  /\ UNCHANGED <<setting, checked, warned, scoop, unread, plot, read_offset,
                 chunks, panicked>>

\* The sums wrap around in a release build.
End(p) == (p.start_nonce + p.nonces) % Modulus
\* Mutated: plots that touch count as overlapping.
overlaps_with_Touching(p, q) == p.start_nonce <= End(q) /\ q.start_nonce <= End(p)
overlaps_with(p, q) == p.start_nonce < End(q) /\ q.start_nonce < End(p)

check_overlap(ps) ==
  \E i, j \in 1..Len(ps) :
    i < j /\ ps[i].account_id = ps[j].account_id /\ overlaps_with(ps[j], ps[i])

CheckPlots ==
  /\ disk = <<>> /\ ~checked
  /\ checked' = TRUE
  /\ warned' = check_overlap(plots)
  /\ UNCHANGED <<disk, setting, plots, scoop, unread, plot, read_offset,
                 chunks, panicked>>

-----------------------------------------------------------------------------
(* Reading.                                                                 *)

\* A new scan, which interrupts the one under way.
start_reading(s) ==
  /\ checked /\ ~panicked
  /\ scoop' = s
  /\ unread' = 1..Len(plots)
  /\ plot' = 0
  /\ chunks' = {}
  /\ UNCHANGED <<loading, read_offset, panicked>>

\* The scoop's place in the file.
ScoopStart(p, s) == s * p.nonces * SCOOP_SIZE
ScoopLength(p) == SCOOP_SIZE * p.nonces

\* Mutated: to the next sector in any case.
round_seek_addr_Always(addr) == setting.sector_size - (addr % setting.sector_size)

\* What is to be added to addr to get to the start of a sector.
round_seek_addr(addr) ==
  IF addr % setting.sector_size # 0
  THEN setting.sector_size - (addr % setting.sector_size) ELSE 0

\* Mutated: the offset of the plot read last stays without direct I/O.
prepare_KeepsOffset(i) ==
  /\ plot = 0 /\ i \in unread /\ ~panicked
  /\ plot' = i
  /\ unread' = unread \ {i}
  /\ read_offset' = IF setting.direct_io
                    THEN round_seek_addr(ScoopStart(plots[i], scoop)) ELSE read_offset
  /\ UNCHANGED <<loading, scoop, chunks, panicked>>

prepare(i) ==
  /\ plot = 0 /\ i \in unread /\ ~panicked
  /\ plot' = i
  /\ unread' = unread \ {i}
  /\ read_offset' = IF setting.direct_io
                    THEN round_seek_addr(ScoopStart(plots[i], scoop)) ELSE 0
  /\ UNCHANGED <<loading, scoop, chunks, panicked>>

\* Reading a plot that cannot be opened is left for the next round.
PrepareFails(i) ==
  /\ plot = 0 /\ i \in unread /\ ~panicked
  /\ unread' = unread \ {i}
  /\ UNCHANGED <<loading, scoop, plot, read_offset, chunks, panicked>>

\* The buffer takes all that is left, of which direct I/O reads whole sectors.
Last == read_offset + setting.capacity >= ScoopLength(plots[plot])
left == ScoopLength(plots[plot]) - read_offset

\* Mutated: always as much as the buffer takes.
bytes_to_read_FullBuffer == setting.capacity
bytes_to_read ==
  IF ~Last THEN setting.capacity
  ELSE IF setting.direct_io THEN left - (left % setting.sector_size)
  ELSE left

\* Mutated: the offset moves on by the nonces read, not by the bytes.
read_ByNonces ==
  /\ plot # 0 /\ ~panicked
  /\ Last => left >= 0
  /\ chunks' = chunks \cup
       {[plot |-> plot, offset |-> read_offset,
         from |-> ScoopStart(plots[plot], scoop) + read_offset,
         len |-> bytes_to_read,
         start_nonce |-> (plots[plot].start_nonce + (read_offset \div 64)) % Modulus]}
  /\ read_offset' = read_offset + (bytes_to_read \div 64)
  /\ plot' = IF Last THEN 0 ELSE plot
  /\ UNCHANGED <<loading, scoop, unread, panicked>>

read ==
  /\ plot # 0 /\ ~panicked
  /\ Last => left >= 0
  /\ chunks' = chunks \cup
       {[plot |-> plot, offset |-> read_offset,
         from |-> ScoopStart(plots[plot], scoop) + read_offset,
         len |-> bytes_to_read,
         start_nonce |-> (plots[plot].start_nonce + (read_offset \div 64)) % Modulus]}
  /\ read_offset' = read_offset + bytes_to_read
  /\ plot' = IF Last THEN 0 ELSE plot
  /\ UNCHANGED <<loading, scoop, unread, panicked>>

\* What is left is less than nothing: the subtraction overflows, and the read
\* ends in a panic that takes the miner down.
ReadPanics ==
  /\ plot # 0 /\ ~panicked
  /\ Last /\ left < 0
  /\ panicked' = TRUE
  /\ UNCHANGED <<loading, scoop, unread, plot, read_offset, chunks>>

\* An error of the file system: the rest of the plot is skipped.
ReadFails ==
  /\ plot # 0 /\ ~panicked
  /\ Last => left >= 0
  /\ plot' = 0
  /\ UNCHANGED <<loading, scoop, unread, read_offset, chunks, panicked>>

Next ==
  \/ scan_plots
  \/ CheckPlots
  \/ \E s \in Scoops : start_reading(s)
  \/ \E i \in unread : prepare(i) \/ PrepareFails(i)
  \/ read
  \/ ReadPanics
  \/ ReadFails

Spec == Init /\ [][Next]_vars

-----------------------------------------------------------------------------
(* Properties.                                                              *)

\* The values of the variables.
TypeOK ==
  /\ disk \in Seq(Files) /\ plots \in Seq(Files)
  /\ setting \in Settings
  /\ checked \in BOOLEAN /\ warned \in BOOLEAN /\ panicked \in BOOLEAN
  /\ scoop \in Nat
  /\ unread \subseteq 1..Len(plots)
  /\ plot \in 0..Len(plots)
  /\ read_offset \in Nat

\* A chunk lies within its scoop's part of the plot file, is announced with the
\* nonce its first bytes are of, and with direct I/O is made of whole sectors
\* (the rounding in prepare and read, and start_nonce).
ChunksPlaced ==
  \A c \in chunks :
    LET p == plots[c.plot]
    IN  /\ c.len >= 0
        /\ ScoopStart(p, scoop) <= c.from
        /\ c.from + c.len <= ScoopStart(p, scoop) + ScoopLength(p)
        /\ \E n \in 0..p.nonces :
             /\ c.from = ScoopStart(p, scoop) + n * SCOOP_SIZE
             /\ c.start_nonce = (p.start_nonce + n) % Modulus
        /\ c.len % SCOOP_SIZE = 0
        /\ setting.direct_io => c.from % setting.sector_size = 0
                                /\ c.len % setting.sector_size = 0

\* The chunks of plot i.
ChunksOf(i) == {c \in chunks : c.plot = i}
Bytes(c) == c.offset..(c.offset + c.len - 1)

\* The chunks of a plot follow each other: what is read once is not read
\* again, and there is no gap before the read offset.
ChunksTile ==
  \A i \in 1..Len(plots) :
    /\ \A c, d \in ChunksOf(i) :
         c # d => c.offset + c.len <= d.offset \/ d.offset + d.len <= c.offset
    /\ \A c \in ChunksOf(i) :
         \/ \E d \in ChunksOf(i) : d.offset = c.offset + c.len
         \/ plot = i /\ read_offset = c.offset + c.len
         \/ plot # i

\* When the last chunk of a plot is read, less than a sector is left out at
\* each end of the scoop, and nothing at all without direct I/O or when the
\* plot's scoops are whole sectors (prepare and read of a plot that takes them
\* all).
LittleIsLeftOut ==
  [][ read /\ Last =>
        LET first == CHOOSE c \in chunks' :
                       /\ c.plot = plot
                       /\ \A d \in chunks' : d.plot = plot => c.offset <= d.offset
            all == ScoopLength(plots[plot])
        IN  /\ first.offset < setting.sector_size
            /\ read_offset' > all - setting.sector_size
            /\ ~setting.direct_io \/ all % setting.sector_size = 0 =>
                 first.offset = 0 /\ read_offset' = all ]_vars

\* The read arithmetic only panics for a plot that Plot::new has warned about:
\* one with fewer nonces than a sector, with direct I/O.
PanicsOnlyWhenWarned == panicked => NotEnoughNonces(plots[plot])

Wraps(p) == p.start_nonce + p.nonces >= Modulus
NoncesOf(p) == p.start_nonce..(p.start_nonce + p.nonces - 1)

\* The check finds an overlap exactly when two plots of an account share a
\* nonce, as long as none is empty or ends at the last nonce or past it
\* (overlaps_with, check_overlap).
WarnedIsShared ==
  checked /\ (\A i \in 1..Len(plots) : plots[i].nonces > 0 /\ ~Wraps(plots[i])) =>
    (warned <=> \E i, j \in 1..Len(plots) :
                  /\ i # j /\ plots[i].account_id = plots[j].account_id
                  /\ NoncesOf(plots[i]) \cap NoncesOf(plots[j]) # {})
=============================================================================

---------------------------- MODULE ScanProofs -----------------------------
(***************************************************************************)
(* What AverageScan says of the block of memory, of the message and of the *)
(* averages holds for lists and entries of every size, any access points   *)
(* in range, more than the list takes among them, and any number of scans  *)
(* a byte can count, through any number of rounds of either scan.          *)
(***************************************************************************)
EXTENDS AverageScan, TLAPS, FiniteSetTheorems, WellFoundedInduction

Entry    == [bssid : Bssids, n_occ : Nat, rssi : Int]
Readings == [n : Nat, sum : Int]

Types ==
    /\ pc \in {"scan", "scan2", "collect", "malloc", "pack", "send", "free"}
    /\ ap_count \in Nat /\ number \in 0 .. ListSize
    /\ buf \in {"NULL", "live", "freed"} /\ cap \in Nat
    /\ i \in Nat /\ curr_mem_loc \in Nat /\ nbuf \in Nat
    /\ sent \in [len : Nat, text : Int]
    /\ averages \in BOOLEAN
    /\ scans \in 0 .. MaxScans /\ j \in Nat
    /\ ap_table \in Seq(Entry)
    /\ got \in [Bssids -> Readings]
    /\ grew \in BOOLEAN /\ full \in BOOLEAN

\* Where each scan gets to, and how far a scan and its table are there.
Places ==
    /\ ~averages => /\ pc \notin {"scan2", "collect"}
                    /\ ap_table = <<>> /\ ~full /\ ap_count <= MaxAps
    /\ averages =>
          /\ Len(ap_table) <= ListSize
          /\ pc \in {"scan", "scan2", "collect", "malloc", "pack"} =>
                Len(ap_table) < ListSize /\ ~full
          /\ pc = "scan" => ap_table = <<>> /\ scans = 0 /\ got = NoReadings /\ ~grew
          /\ pc # "scan" => ap_info \in [Slots -> Record]
          /\ pc = "collect" => /\ scans > 0 /\ j <= ap_count
                               /\ ~grew => ap_count <= ListSize

\* What becomes of the block in a round.
Blocks ==
    /\ pc \in {"scan", "scan2", "collect", "malloc"} => buf # "live"
    /\ pc = "pack" => buf = "live"
    /\ buf = "live" => ~full
    /\ pc \in {"send", "free"} /\ ~full => buf # "freed"

\* The entries packed, one for each access point or each row of the table.
Rows == IF averages THEN Len(ap_table) ELSE ap_count

\* How far the text is in the block, and that the message is that text.
Packing ==
    /\ pc \in {"scan", "scan2", "collect", "malloc"} => i = 0 /\ curr_mem_loc = 0
    /\ pc = "pack" => /\ 0 < Rows /\ EntryLength * Rows < Word
                      /\ cap = EntryLength * Rows
                      /\ i <= Rows /\ i <= curr_mem_loc
                      /\ curr_mem_loc <= EntryLength * i
    /\ pc \in {"send", "free"} /\ buf = "live" => nbuf = curr_mem_loc - 1
    /\ pc # "free" => sent = [len |-> 0, text |-> 0]
    /\ ~full => sent.len = sent.text

\* While no scan finds more than the one before it, an access point is counted
\* at most once per scan.
Counts ==
    averages /\ ~grew => \A s \in DOMAIN ap_table : ap_table[s].n_occ \in 1 .. scans

\* The records of the last scan that are still to be processed.
Waiting == IF pc = "collect" THEN j + 1 .. ap_count ELSE {}

\* What the driver delivered of an access point is in its entry or waits in the
\* list; it waits there once.
Balanced ==
    averages /\ ~grew =>
    /\ \A s, t \in DOMAIN ap_table : ap_table[s].bssid = ap_table[t].bssid => s = t
    /\ \A s, t \in Waiting : ap_info[s].bssid = ap_info[t].bssid => s = t
    /\ pc # "scan" => \A b \in Bssids : got[b].n <= scans
    /\ pc \in {"scan2", "collect", "malloc", "pack"} => \A b \in Bssids :
          /\ \A s \in DOMAIN ap_table : ap_table[s].bssid = b =>
                /\ (\A t \in Waiting : ap_info[t].bssid # b) =>
                      /\ got[b].n = ap_table[s].n_occ
                      /\ ap_table[s].rssi = IF pc = "pack" /\ s <= i
                                            THEN Quotient(got[b].sum, got[b].n)
                                            ELSE got[b].sum
                /\ \A t \in Waiting : ap_info[t].bssid = b =>
                      /\ got[b].n = ap_table[s].n_occ + 1
                      /\ got[b].sum = ap_table[s].rssi + ap_info[t].rssi
          /\ (\A s \in DOMAIN ap_table : ap_table[s].bssid # b) =>
                /\ (\A t \in Waiting : ap_info[t].bssid # b) => got[b].n = 0 /\ got[b].sum = 0
                /\ \A t \in Waiting : ap_info[t].bssid = b =>
                      got[b].n = 1 /\ got[b].sum = ap_info[t].rssi

\* The inductive invariant.
ScanInv == Types /\ Places /\ Blocks /\ Packing /\ Counts /\ Balanced

-----------------------------------------------------------------------------
LEMMA Sizes ==
    /\ ListSize \in Nat \ {0} /\ EntryLength \in Nat /\ MaxAps \in Nat
    /\ \A l \in Lengths : l \in 2 .. EntryLength
    /\ Word \in Nat \ {0} /\ EntryLength * MaxAps < Word /\ EntryLength * ListSize < Word
    /\ MaxScans \in Nat /\ OccWord \in Nat /\ MaxScans < OccWord
    /\ \A r \in Rssis : r \in Int
    /\ IsFiniteSet(Bssids)
<1>1. EntryLength * MaxAps \in Nat
    BY SizesAssumption, SMT
<1> QED
    BY <1>1, SizesAssumption, BoundsAssumption

LEMMA Times ==
    ASSUME NEW a \in Nat, NEW b \in Nat, NEW c \in Nat, b <= c
    PROVE  a * b <= a * c /\ a * b \in Nat /\ b * a <= c * a /\ b * a \in Nat
<1>1. PICK d \in Nat : c = b + d
    BY SMT
<1>2. a * c = a * b + a * d /\ a * d \in Nat /\ a * b \in Nat
    BY <1>1, SMT
<1>3. c * a = a * c /\ b * a = a * b
    BY SMT
<1> QED
    BY <1>2, <1>3, SMT

LEMMA TimesNext ==
    ASSUME NEW a \in Nat, NEW b \in Nat
    PROVE  a * (b + 1) = a * b + a
BY SMT

LEMMA SmallMod ==
    ASSUME NEW a \in Nat, NEW w \in Nat, a < w
    PROVE  a % w = a
BY SMT

\* One more entry in the block: no farther than its room, and never around.
LEMMA PackOne ==
    ASSUME NEW rows \in Nat, EntryLength * rows < Word,
           NEW k \in Nat, k < rows, NEW at \in Nat, k <= at, at <= EntryLength * k,
           NEW len \in Lengths
    PROVE  /\ (at + len) % Word = at + len
           /\ at + len \in Nat
           /\ k + 1 <= at + len /\ at + len <= EntryLength * (k + 1)
           /\ at + EntryLength <= EntryLength * rows
<1>1. EntryLength * (k + 1) = EntryLength * k + EntryLength
    BY Sizes, TimesNext
<1>2. EntryLength * (k + 1) <= EntryLength * rows /\ EntryLength * rows \in Nat
    BY Sizes, Times
<1>3. EntryLength * k \in Nat
    BY Sizes, Times
<1>4. len \in 2 .. EntryLength /\ EntryLength \in Nat /\ Word \in Nat
    BY Sizes
<1> QED
    BY <1>1, <1>2, <1>3, <1>4, SMT

LEMMA LeastNatural ==
    ASSUME NEW T \in SUBSET Nat, T # {}
    PROVE  \E m \in T : \A k \in T : m <= k
<1> DEFINE R == OpToRel(<, Nat)
<1>1. PICK m \in T : \A k \in T : ~ (<<k, m>> \in R)
    <2>1. IsWellFoundedOn(R, Nat)
        BY NatLessThanWellFounded
    <2> HIDE DEF R
    <2> QED
        BY <2>1, WFMin
<1>2. \A k \in T : ~(k < m)
    BY <1>1 DEF OpToRel
<1> QED
    BY <1>2

\* The first entry of an access point.
LEMMA FirstEntry ==
    ASSUME NEW b, ap_table \in Seq(Entry)
    PROVE  /\ EntryOf(b) \in 0 .. Len(ap_table)
           /\ EntryOf(b) = 0 => \A s \in DOMAIN ap_table : ap_table[s].bssid # b
           /\ EntryOf(b) # 0 => EntryOf(b) \in DOMAIN ap_table
                                /\ ap_table[EntryOf(b)].bssid = b
<1> DEFINE I == { s \in 1 .. Len(ap_table) : ap_table[s].bssid = b }
<1>1. EntryOf(b) = IF I # {} THEN Min(I) ELSE 0
    BY DEF EntryOf, SelectInSeq
<1>2. DOMAIN ap_table = 1 .. Len(ap_table) /\ Len(ap_table) \in Nat
    OBVIOUS
<1>3. CASE I = {}
    BY <1>1, <1>2, <1>3
<1>4. CASE I # {}
    <2>1. I \in SUBSET Nat
        BY <1>2
    <2>2. PICK m \in I : \A k \in I : m <= k
        BY <1>4, <2>1, LeastNatural
    <2>3. Min(I) \in I
        BY <2>2 DEF Min
    <2> QED
        BY <1>1, <1>2, <1>4, <2>3
<1> QED
    BY <1>3, <1>4

-----------------------------------------------------------------------------
\* The steps keep the invariant.
LEMMA ScanKeeps ==
    ASSUME ScanInv, ~averages, Scan, UNCHANGED <<table, averages>>
    PROVE  ScanInv'
<1> USE DEF Scan, table
<1>1. Types'
    BY Sizes DEF ScanInv, Types, Places, Entry, Readings
<1>2. Places'
    BY Sizes DEF ScanInv, Types, Places, NoReadings
<1>3. Blocks'
    BY DEF ScanInv, Types, Places, Blocks
<1>4. Packing'
    BY Sizes DEF ScanInv, Types, Places, Blocks, Packing, Rows
<1>5. Counts'
    BY DEF ScanInv, Types, Places, Counts, Entry
<1>6. Balanced'
    BY DEF ScanInv, Types, Places, Packing, Balanced, Waiting
<1> QED
    BY <1>1, <1>2, <1>3, <1>4, <1>5, <1>6 DEF ScanInv

LEMMA MallocKeeps ==
    ASSUME ScanInv, ~averages, Malloc, UNCHANGED <<table, averages>>
    PROVE  ScanInv'
<1> USE DEF Malloc, table
<1>1. Types'
    BY Sizes DEF ScanInv, Types, Places, Entry, Readings
<1>2. Places'
    BY Sizes DEF ScanInv, Types, Places, NoReadings
<1>3. Blocks'
    BY DEF ScanInv, Types, Places, Blocks
<1>4. Packing'
    BY Sizes DEF ScanInv, Types, Places, Blocks, Packing, Rows
<1>5. Counts'
    BY DEF ScanInv, Types, Places, Counts, Entry
<1>6. Balanced'
    BY DEF ScanInv, Types, Places, Packing, Balanced, Waiting
<1> QED
    BY <1>1, <1>2, <1>3, <1>4, <1>5, <1>6 DEF ScanInv

LEMMA NoMemoryKeeps ==
    ASSUME ScanInv, MallocFailed, UNCHANGED <<table, averages>>
    PROVE  ScanInv'
<1> USE DEF MallocFailed, table
<1>1. Types'
    BY Sizes DEF ScanInv, Types, Places, Entry, Readings
<1>2. Places'
    BY Sizes DEF ScanInv, Types, Places, NoReadings
<1>3. Blocks'
    BY DEF ScanInv, Types, Places, Blocks
<1>4. Packing'
    BY Sizes DEF ScanInv, Types, Places, Blocks, Packing, Rows
<1>5. Counts'
    BY DEF ScanInv, Types, Places, Counts, Entry
<1>6. Balanced'
    BY DEF ScanInv, Types, Places, Packing, Balanced, Waiting
<1> QED
    BY <1>1, <1>2, <1>3, <1>4, <1>5, <1>6 DEF ScanInv

LEMMA PackKeeps ==
    ASSUME ScanInv, ~averages, Pack, UNCHANGED <<table, averages>>
    PROVE  ScanInv'
<1> USE DEF Pack, table
<1>1. Types'
    BY Sizes DEF ScanInv, Types, Places, Entry, Readings
<1>2. Places'
    BY Sizes DEF ScanInv, Types, Places, NoReadings
<1>3. Blocks'
    BY DEF ScanInv, Types, Places, Blocks
<1>4. Packing'
    <2>1. PICK len \in Lengths : curr_mem_loc' = (curr_mem_loc + len) % Word
        OBVIOUS
    <2>2. /\ i < ap_count /\ EntryLength * ap_count < Word
          /\ i <= curr_mem_loc /\ curr_mem_loc <= EntryLength * i
        BY DEF ScanInv, Packing, Rows
    <2>3. /\ curr_mem_loc' = curr_mem_loc + len
          /\ i + 1 <= curr_mem_loc + len /\ curr_mem_loc + len <= EntryLength * (i + 1)
        BY <2>1, <2>2, PackOne DEF ScanInv, Types
    <2> QED
        BY <2>2, <2>3 DEF ScanInv, Types, Places, Packing, Rows
<1>5. Counts'
    BY DEF ScanInv, Types, Places, Counts, Entry
<1>6. Balanced'
    BY DEF ScanInv, Types, Places, Packing, Balanced, Waiting
<1> QED
    BY <1>1, <1>2, <1>3, <1>4, <1>5, <1>6 DEF ScanInv

LEMMA PackDoneKeeps ==
    ASSUME ScanInv, ~averages, PackDone, UNCHANGED <<table, averages>>
    PROVE  ScanInv'
<1> USE DEF PackDone, table
<1>1. Types'
    BY Sizes DEF ScanInv, Types, Places, Entry, Readings
<1>2. Places'
    BY Sizes DEF ScanInv, Types, Places, NoReadings
<1>3. Blocks'
    BY DEF ScanInv, Types, Places, Blocks
<1>4. Packing'
    BY Sizes DEF ScanInv, Types, Places, Blocks, Packing, Rows
<1>5. Counts'
    BY DEF ScanInv, Types, Places, Counts, Entry
<1>6. Balanced'
    BY DEF ScanInv, Types, Places, Packing, Balanced, Waiting
<1> QED
    BY <1>1, <1>2, <1>3, <1>4, <1>5, <1>6 DEF ScanInv

LEMMA SendKeeps ==
    ASSUME ScanInv, Send, UNCHANGED <<table, averages>>
    PROVE  ScanInv'
<1> USE DEF Send, Text, table
<1>1. Types'
    BY Sizes DEF ScanInv, Types, Places, Entry, Readings
<1>2. Places'
    BY Sizes DEF ScanInv, Types, Places, NoReadings
<1>3. Blocks'
    BY DEF ScanInv, Types, Places, Blocks
<1>4. Packing'
    BY Sizes DEF ScanInv, Types, Places, Blocks, Packing, Rows
<1>5. Counts'
    BY DEF ScanInv, Types, Places, Counts, Entry
<1>6. Balanced'
    BY DEF ScanInv, Types, Places, Packing, Balanced, Waiting
<1> QED
    BY <1>1, <1>2, <1>3, <1>4, <1>5, <1>6 DEF ScanInv

LEMMA SendNotKeeps ==
    ASSUME ScanInv, SendNot, UNCHANGED <<table, averages>>
    PROVE  ScanInv'
<1> USE DEF SendNot, table
<1>1. Types'
    BY Sizes DEF ScanInv, Types, Places, Entry, Readings
<1>2. Places'
    BY Sizes DEF ScanInv, Types, Places, NoReadings
<1>3. Blocks'
    BY DEF ScanInv, Types, Places, Blocks
<1>4. Packing'
    BY Sizes DEF ScanInv, Types, Places, Blocks, Packing, Rows
<1>5. Counts'
    BY DEF ScanInv, Types, Places, Counts, Entry
<1>6. Balanced'
    BY DEF ScanInv, Types, Places, Packing, Balanced, Waiting
<1> QED
    BY <1>1, <1>2, <1>3, <1>4, <1>5, <1>6 DEF ScanInv

LEMMA FreeKeeps ==
    ASSUME ScanInv, ~averages, Free, UNCHANGED <<table, averages>>
    PROVE  ScanInv'
<1> USE DEF Free, table
<1>1. Types'
    BY Sizes DEF ScanInv, Types, Places, Entry, Readings
<1>2. Places'
    BY Sizes DEF ScanInv, Types, Places, NoReadings
<1>3. Blocks'
    BY DEF ScanInv, Types, Places, Blocks
<1>4. Packing'
    BY Sizes DEF ScanInv, Types, Places, Blocks, Packing, Rows
<1>5. Counts'
    BY DEF ScanInv, Types, Places, Counts, Entry
<1>6. Balanced'
    BY DEF ScanInv, Types, Places, Packing, Balanced, Waiting
<1> QED
    BY <1>1, <1>2, <1>3, <1>4, <1>5, <1>6 DEF ScanInv

LEMMA CallKeeps ==
    ASSUME ScanInv, averages, Call, UNCHANGED averages
    PROVE  ScanInv'
<1> USE DEF Call
<1>1. Types'
    BY Sizes DEF ScanInv, Types, Places, Entry, Readings
<1>2. Places'
    BY Sizes DEF ScanInv, Types, Places, NoReadings
<1>3. Blocks'
    BY DEF ScanInv, Types, Places, Blocks
<1>4. Packing'
    BY Sizes DEF ScanInv, Types, Places, Blocks, Packing, Rows
<1>5. Counts'
    BY DEF ScanInv, Types, Places, Counts, Entry
<1>6. Balanced'
    <2>1. ap_table = <<>> /\ Waiting' = {} /\ got' = NoReadings /\ scans' = 0
        BY DEF ScanInv, Places, Waiting
    <2> QED
        BY <2>1 DEF ScanInv, Types, Balanced, NoReadings
<1> QED
    BY <1>1, <1>2, <1>3, <1>4, <1>5, <1>6 DEF ScanInv

LEMMA ScanDoneKeeps ==
    ASSUME ScanInv, averages, ScanDone, UNCHANGED averages
    PROVE  ScanInv'
<1> USE DEF ScanDone, table
<1>1. Types'
    BY Sizes DEF ScanInv, Types, Places, Entry, Readings
<1>2. Places'
    BY Sizes DEF ScanInv, Types, Places, NoReadings
<1>3. Blocks'
    BY DEF ScanInv, Types, Places, Blocks
<1>4. Packing'
    BY Sizes DEF ScanInv, Types, Places, Blocks, Packing, Rows
<1>5. Counts'
    BY DEF ScanInv, Types, Places, Counts, Entry
<1>6. Balanced'
    BY DEF ScanInv, Types, Places, Packing, Balanced, Waiting
<1> QED
    BY <1>1, <1>2, <1>3, <1>4, <1>5, <1>6 DEF ScanInv

LEMMA MallocTableKeeps ==
    ASSUME ScanInv, averages, MallocTable, UNCHANGED averages
    PROVE  ScanInv'
<1> USE DEF MallocTable, table
<1>1. Types'
    BY Sizes DEF ScanInv, Types, Places, Entry, Readings
<1>2. Places'
    BY Sizes DEF ScanInv, Types, Places, NoReadings
<1>3. Blocks'
    BY DEF ScanInv, Types, Places, Blocks
<1>4. Packing'
    BY Sizes DEF ScanInv, Types, Places, Blocks, Packing, Rows
<1>5. Counts'
    BY DEF ScanInv, Types, Places, Counts, Entry
<1>6. Balanced'
    BY DEF ScanInv, Types, Places, Packing, Balanced, Waiting
<1> QED
    BY <1>1, <1>2, <1>3, <1>4, <1>5, <1>6 DEF ScanInv

LEMMA TablePackedKeeps ==
    ASSUME ScanInv, averages, TablePacked, UNCHANGED averages
    PROVE  ScanInv'
<1> USE DEF TablePacked, table
<1>1. Types'
    BY Sizes DEF ScanInv, Types, Places, Entry, Readings
<1>2. Places'
    BY Sizes DEF ScanInv, Types, Places, NoReadings
<1>3. Blocks'
    BY DEF ScanInv, Types, Places, Blocks
<1>4. Packing'
    <2>1. /\ i \in Nat /\ 0 < i /\ i <= curr_mem_loc /\ EntryLength * i < Word
          /\ curr_mem_loc <= EntryLength * i /\ EntryLength * i \in Nat
        BY Sizes, Times DEF ScanInv, Types, Packing, Rows
    <2>2. (curr_mem_loc - 1) % Word = curr_mem_loc - 1
        <3>1. curr_mem_loc - 1 \in Nat /\ curr_mem_loc - 1 < Word
            BY <2>1, Sizes DEF ScanInv, Types
        <3> HIDE DEF TablePacked, table
        <3> QED
            BY <3>1, Sizes, SmallMod
    <2> QED
        BY <2>2 DEF ScanInv, Types, Places, Blocks, Packing, Rows
<1>5. Counts'
    BY DEF ScanInv, Types, Places, Counts, Entry
<1>6. Balanced'
    BY DEF ScanInv, Types, Places, Packing, Balanced, Waiting
<1> QED
    BY <1>1, <1>2, <1>3, <1>4, <1>5, <1>6 DEF ScanInv

LEMMA FreeTableKeeps ==
    ASSUME ScanInv, averages, FreeTable, UNCHANGED averages
    PROVE  ScanInv'
<1> USE DEF FreeTable, Free, NoReadings
<1>1. Types'
    <2>1. got' \in [Bssids -> Readings] /\ ap_table' \in Seq(Entry)
        BY DEF Readings
    <2>2. grew' \in BOOLEAN /\ full' \in BOOLEAN
        BY Zenon
    <2> QED
        BY <2>1, <2>2, Sizes DEF ScanInv, Types, Places
<1>2. Places'
    BY Sizes DEF ScanInv, Types, Places, NoReadings
<1>3. Blocks'
    BY DEF ScanInv, Types, Places, Blocks
<1>4. Packing'
    BY Sizes DEF ScanInv, Types, Places, Blocks, Packing, Rows
<1>5. Counts'
    BY DEF ScanInv, Types, Places, Counts, Entry
<1>6. Balanced'
    BY DEF ScanInv, Types, Places, Packing, Balanced, Waiting
<1> QED
    BY <1>1, <1>2, <1>3, <1>4, <1>5, <1>6 DEF ScanInv

\* C's division of a sum by a count.
LEMMA QuotientType ==
    ASSUME NEW a \in Int, NEW n \in Nat \ {0}
    PROVE  Quotient(a, n) \in Int
BY DEF Quotient

LEMMA PackAverageKeeps ==
    ASSUME ScanInv, averages, PackAverage, UNCHANGED averages
    PROVE  ScanInv'
<1> DEFINE k == i + 1
           q == Quotient(ap_table[k].rssi, ap_table[k].n_occ)
<1>1. /\ k \in DOMAIN ap_table /\ ap_table[k] \in Entry /\ q \in Int
      /\ pc = "pack" /\ pc' = "pack" /\ i' = k
      /\ ap_table' = [ap_table EXCEPT ![k].rssi = q]
    <2>1. k \in DOMAIN ap_table
        BY DEF PackAverage, ScanInv, Types
    <2>2. ap_table[k] \in Entry
        BY <2>1 DEF ScanInv, Types
    <2>3. q \in Int
        <3>1. ap_table[k].n_occ \in Nat \ {0}
            BY <2>2 DEF PackAverage, Entry
        <3> QED
            BY <2>2, <3>1, QuotientType DEF Entry
    <2>4. pc = "pack" /\ pc' = "pack" /\ i' = k
        BY DEF PackAverage
    <2>5. ap_table' = [ap_table EXCEPT ![k].rssi = q]
        BY DEF PackAverage
    <2> QED
        BY <2>1, <2>2, <2>3, <2>4, <2>5
<1>2. /\ ap_table' \in Seq(Entry) /\ Len(ap_table') = Len(ap_table)
      /\ DOMAIN ap_table' = DOMAIN ap_table
      /\ \A s \in DOMAIN ap_table :
            /\ ap_table'[s].bssid = ap_table[s].bssid
            /\ ap_table'[s].n_occ = ap_table[s].n_occ
            /\ ap_table'[s].rssi = IF s = k THEN q ELSE ap_table[s].rssi
    <2>1. ap_table \in Seq(Entry) /\ \A s \in DOMAIN ap_table : ap_table[s] \in Entry
        BY DEF ScanInv, Types
    <2> HIDE DEF q, k
    <2>2. [ap_table[k] EXCEPT !.rssi = q] \in Entry
        BY <1>1 DEF Entry
    <2>3. /\ ap_table' \in Seq(Entry) /\ Len(ap_table') = Len(ap_table)
          /\ DOMAIN ap_table' = DOMAIN ap_table
          /\ \A s \in DOMAIN ap_table :
                ap_table'[s] = IF s = k THEN [ap_table[k] EXCEPT !.rssi = q] ELSE ap_table[s]
        BY <1>1, <2>1, <2>2
    <2> QED
        BY <1>1, <2>1, <2>3 DEF Entry
<1>3. Types'
    <2>1. PICK len \in Lengths : curr_mem_loc' = (curr_mem_loc + len) % Word
        BY DEF PackAverage
    <2>2. curr_mem_loc' \in Nat
        BY <2>1, Sizes DEF ScanInv, Types
    <2>3. /\ i' \in Nat
          /\ UNCHANGED <<ap_count, number, buf, cap, nbuf, sent>>
          /\ UNCHANGED <<scans, ap_info, j, got, grew, full>>
        BY <1>1 DEF PackAverage, ScanInv, Types
    <2> QED
        BY <1>1, <1>2, <2>2, <2>3 DEF ScanInv, Types
<1>4. Places' /\ Blocks'
    BY <1>2 DEF PackAverage, ScanInv, Types, Places, Blocks
<1>5. Packing'
    <2>1. PICK len \in Lengths : curr_mem_loc' = (curr_mem_loc + len) % Word
        BY DEF PackAverage
    <2>2. /\ i < Rows /\ Rows \in Nat /\ EntryLength * Rows < Word
          /\ i <= curr_mem_loc /\ curr_mem_loc <= EntryLength * i
        BY DEF PackAverage, ScanInv, Types, Packing, Rows
    <2>3. /\ curr_mem_loc' = curr_mem_loc + len
          /\ i + 1 <= curr_mem_loc + len /\ curr_mem_loc + len <= EntryLength * (i + 1)
        BY <2>1, <2>2, PackOne DEF ScanInv, Types
    <2>4. Rows' = Rows
        BY <1>2 DEF Rows
    <2> QED
        BY <2>2, <2>3, <2>4 DEF PackAverage, ScanInv, Types, Places, Packing
<1>6. Counts'
    BY <1>2 DEF PackAverage, ScanInv, Counts
<1>7. Balanced'
    <2> SUFFICES ASSUME ~grew PROVE Balanced'
        BY DEF Balanced, PackAverage
    <2>1. Waiting = {} /\ Waiting' = {}
        BY <1>1 DEF Waiting
    <2>2. \A b \in Bssids : \A s \in DOMAIN ap_table : ap_table[s].bssid = b =>
             /\ got[b].n = ap_table[s].n_occ
             /\ ap_table[s].rssi = IF s <= i THEN Quotient(got[b].sum, got[b].n)
                                   ELSE got[b].sum
        BY <1>1, <2>1 DEF ScanInv, Balanced
    <2>3. \A b \in Bssids : \A s \in DOMAIN ap_table : ap_table[s].bssid = b =>
             /\ got[b].n = ap_table'[s].n_occ
             /\ ap_table'[s].rssi = IF s <= k THEN Quotient(got[b].sum, got[b].n)
                                    ELSE got[b].sum
        <3> SUFFICES ASSUME NEW b \in Bssids, NEW s \in DOMAIN ap_table,
                            ap_table[s].bssid = b
                     PROVE  /\ got[b].n = ap_table'[s].n_occ
                            /\ ap_table'[s].rssi = IF s <= k
                                                   THEN Quotient(got[b].sum, got[b].n)
                                                   ELSE got[b].sum
            OBVIOUS
        <3>1. s \in Nat /\ i \in Nat
            BY DEF ScanInv, Types
        <3>2. CASE s = k
            <4>1. ~ (s <= i) /\ s <= k
                BY <3>1, <3>2
            <4>2. q = Quotient(got[b].sum, got[b].n)
                BY <2>2, <3>2, <4>1
            <4> HIDE DEF q, k
            <4> QED
                BY <1>2, <2>2, <3>2, <4>1, <4>2
        <3>3. CASE s # k
            <4>1. s <= k <=> s <= i
                BY <3>1, <3>3
            <4> HIDE DEF q, k
            <4> QED
                BY <1>2, <2>2, <3>3, <4>1
        <3> QED
            BY <3>2, <3>3
    <2> QED
        BY <1>1, <1>2, <2>1, <2>3 DEF PackAverage, ScanInv, Balanced
<1> QED
    BY <1>3, <1>4, <1>5, <1>6, <1>7 DEF ScanInv

\* A row for an access point that has none, or the record added to its row.

\* While no scan finds more than the one before it, the record is the next of
\* the list and the count does not come round.
LEMMA CollectRow ==
    ASSUME ScanInv, averages, Collect
    PROVE  \E rec \in Record, m \in Nat :
           LET e == EntryOf(rec.bssid)
           IN
           /\ (full' <=> Len(ap_table') = ListSize)
           /\ pc' = IF full' THEN "send" ELSE "collect"
           /\ ~grew => j + 1 \in Waiting /\ rec = ap_info[j + 1]
           /\ ~grew /\ e # 0 => m = ap_table[e].n_occ + 1 /\ m <= scans
           /\ e = 0 =>
                 /\ \A s \in DOMAIN ap_table : ap_table[s].bssid # rec.bssid
                 /\ ap_table' = Append(ap_table, [bssid |-> rec.bssid, n_occ |-> 1,
                                                  rssi |-> rec.rssi])
           /\ e # 0 =>
                 /\ e \in DOMAIN ap_table /\ ap_table[e] \in Entry
                 /\ ap_table[e].bssid = rec.bssid
                 /\ ap_table' = [ap_table EXCEPT
                                   ![e] = [bssid |-> rec.bssid, n_occ |-> m,
                                           rssi |-> ap_table[e].rssi + rec.rssi]]
<1>1. /\ pc = "collect" /\ j \in Nat /\ j < ap_count /\ (~grew => ap_count <= ListSize)
      /\ ap_count \in Nat /\ scans \in 1 .. MaxScans
      /\ ap_info \in [Slots -> Record] /\ ap_table \in Seq(Entry)
      /\ Len(ap_table) < ListSize
    BY DEF Collect, ScanInv, Types, Places
<1>2. PICK rec \in NextRecord :
          Fill(IF EntryOf(rec.bssid) = 0
               THEN Append(ap_table, [bssid |-> rec.bssid, n_occ |-> 1, rssi |-> rec.rssi])
               ELSE [ap_table EXCEPT ![EntryOf(rec.bssid)] =
                        [bssid |-> @.bssid,
                         n_occ |-> (@.n_occ + 1) % OccWord,
                         rssi  |-> @.rssi + rec.rssi]])
    BY DEF Collect
<1> DEFINE e == EntryOf(rec.bssid)
           m == IF e = 0 THEN 0 ELSE (ap_table[e].n_occ + 1) % OccWord
<1>3. rec \in Record /\ (j < ListSize => rec = ap_info[j + 1])
    BY <1>1, <1>2, Sizes DEF NextRecord, Slots
<1>4. ~grew => j + 1 \in Waiting /\ rec = ap_info[j + 1]
    BY <1>1, <1>3, Sizes DEF Waiting
<1>5. ASSUME e = 0
      PROVE  \A s \in DOMAIN ap_table : ap_table[s].bssid # rec.bssid
    BY <1>1, <1>5, FirstEntry
<1>6. ASSUME e # 0
      PROVE  /\ e \in DOMAIN ap_table /\ ap_table[e] \in Entry
             /\ ap_table[e].bssid = rec.bssid
    BY <1>1, <1>6, FirstEntry
<1>7. /\ full' = (Len(ap_table') = ListSize /\ Len(ap_table) < ListSize)
      /\ pc' = IF full' THEN "send" ELSE "collect"
      /\ ap_table' = IF e = 0
                     THEN Append(ap_table, [bssid |-> rec.bssid, n_occ |-> 1,
                                            rssi |-> rec.rssi])
                     ELSE [ap_table EXCEPT ![e] = [bssid |-> @.bssid,
                                                   n_occ |-> (@.n_occ + 1) % OccWord,
                                                   rssi  |-> @.rssi + rec.rssi]]
    BY <1>2 DEF Fill
<1>8. m \in Nat
    BY <1>6, Sizes DEF Entry
<1>9. ASSUME e # 0
      PROVE  ap_table' = [ap_table EXCEPT
                            ![e] = [bssid |-> rec.bssid, n_occ |-> m,
                                    rssi |-> ap_table[e].rssi + rec.rssi]]
    BY <1>6, <1>7, <1>9
<1>10. ASSUME ~grew, e # 0
       PROVE  m = ap_table[e].n_occ + 1 /\ m <= scans
    <2>1. ap_table[e].n_occ \in Nat /\ rec.bssid \in Bssids
        BY <1>3, <1>6, <1>10 DEF Entry, Record
    <2>2. got[rec.bssid].n = ap_table[e].n_occ + 1 /\ got[rec.bssid].n <= scans
        BY <1>1, <1>4, <1>6, <1>10, <2>1 DEF ScanInv, Balanced
    <2>3. ap_table[e].n_occ + 1 < OccWord
        BY <1>1, <2>1, <2>2, Sizes
    <2> QED
        BY <1>10, <2>1, <2>2, <2>3, Sizes, SmallMod
<1> HIDE DEF m
<1> rec \in Record /\ m \in Nat
    BY <1>3, <1>8
<1> WITNESS rec \in Record, m \in Nat
<1> QED
    BY <1>1, <1>4, <1>5, <1>6, <1>7, <1>9, <1>10

LEMMA CollectKeeps ==
    ASSUME ScanInv, averages, Collect, UNCHANGED averages
    PROVE  ScanInv'
<1> DEFINE last == Len(ap_table) + 1
<1>1. /\ pc = "collect" /\ j' = j + 1 /\ j \in Nat /\ j < ap_count
      /\ UNCHANGED <<scans, number, ap_info, ap_count, got, grew, buf, cap, i, curr_mem_loc,
                     nbuf, sent>>
    BY DEF Collect, ScanInv, Types
<1>2a. PICK rec \in Record, m \in Nat :
           LET e == EntryOf(rec.bssid)
           IN
           /\ (full' <=> Len(ap_table') = ListSize)
           /\ pc' = IF full' THEN "send" ELSE "collect"
           /\ ~grew => j + 1 \in Waiting /\ rec = ap_info[j + 1]
           /\ ~grew /\ e # 0 => m = ap_table[e].n_occ + 1 /\ m <= scans
           /\ e = 0 =>
                 /\ \A s \in DOMAIN ap_table : ap_table[s].bssid # rec.bssid
                 /\ ap_table' = Append(ap_table, [bssid |-> rec.bssid, n_occ |-> 1,
                                                  rssi |-> rec.rssi])
           /\ e # 0 =>
                 /\ e \in DOMAIN ap_table /\ ap_table[e] \in Entry
                 /\ ap_table[e].bssid = rec.bssid
                 /\ ap_table' = [ap_table EXCEPT
                                   ![e] = [bssid |-> rec.bssid, n_occ |-> m,
                                           rssi |-> ap_table[e].rssi + rec.rssi]]
    BY CollectRow, Zenon
<1> DEFINE e == EntryOf(rec.bssid)
<1>2. /\ rec.bssid \in Bssids /\ rec.rssi \in Int
      /\ (full' <=> Len(ap_table') = ListSize)
      /\ pc' = IF full' THEN "send" ELSE "collect"
      /\ ~grew => j + 1 \in Waiting /\ rec = ap_info[j + 1]
      /\ ~grew /\ e # 0 => m = ap_table[e].n_occ + 1 /\ m <= scans
      /\ e = 0 =>
            /\ \A s \in DOMAIN ap_table : ap_table[s].bssid # rec.bssid
            /\ ap_table' = Append(ap_table, [bssid |-> rec.bssid, n_occ |-> 1,
                                             rssi |-> rec.rssi])
      /\ e # 0 =>
            /\ e \in DOMAIN ap_table /\ ap_table[e] \in Entry
            /\ ap_table[e].bssid = rec.bssid
            /\ ap_table' = [ap_table EXCEPT
                              ![e] = [bssid |-> rec.bssid, n_occ |-> m,
                                      rssi |-> ap_table[e].rssi + rec.rssi]]
    <2>1. rec.bssid \in Bssids /\ rec.rssi \in Int
        BY Sizes DEF Record
    <2> QED
        BY <1>2a, <2>1
<1>3. /\ ap_table \in Seq(Entry) /\ \A s \in DOMAIN ap_table : ap_table[s] \in Entry
      /\ Len(ap_table) \in Nat /\ Len(ap_table) < ListSize
      /\ DOMAIN ap_table = 1 .. Len(ap_table)
    BY <1>1 DEF ScanInv, Types, Places
<1> HIDE DEF e
<1>4. ASSUME e = 0
      PROVE  /\ ap_table' \in Seq(Entry) /\ Len(ap_table') = last
             /\ DOMAIN ap_table' = 1 .. last
             /\ \A s \in DOMAIN ap_table : ap_table'[s] = ap_table[s]
             /\ ap_table'[last].bssid = rec.bssid
             /\ ap_table'[last].n_occ = 1
             /\ ap_table'[last].rssi = rec.rssi
    <2> DEFINE row == [bssid |-> rec.bssid, n_occ |-> 1, rssi |-> rec.rssi]
    <2>1. row \in Entry
        BY <1>2 DEF Entry
    <2>2. ap_table' = Append(ap_table, row)
        BY <1>2, <1>4
    <2> HIDE DEF row
    <2>3. /\ ap_table' \in Seq(Entry) /\ Len(ap_table') = last
          /\ DOMAIN ap_table' = 1 .. last
          /\ \A s \in DOMAIN ap_table : ap_table'[s] = ap_table[s]
          /\ ap_table'[last] = row
        BY <1>3, <2>1, <2>2
    <2> QED
        BY <2>3 DEF row
<1>5. ASSUME e # 0
      PROVE  /\ ap_table' \in Seq(Entry) /\ Len(ap_table') = Len(ap_table)
             /\ DOMAIN ap_table' = DOMAIN ap_table
             /\ \A s \in DOMAIN ap_table : s # e => ap_table'[s] = ap_table[s]
             /\ e \in DOMAIN ap_table
             /\ ap_table'[e].bssid = rec.bssid /\ ap_table[e].bssid = rec.bssid
             /\ ap_table'[e].n_occ = m
             /\ ap_table'[e].rssi = ap_table[e].rssi + rec.rssi
    <2> DEFINE row == [bssid |-> rec.bssid, n_occ |-> m,
                       rssi |-> ap_table[e].rssi + rec.rssi]
    <2>1. row \in Entry
        BY <1>2, <1>5 DEF Entry
    <2>2. ap_table' = [ap_table EXCEPT ![e] = row]
        BY <1>2, <1>5
    <2> HIDE DEF row
    <2>3. /\ ap_table' \in Seq(Entry) /\ Len(ap_table') = Len(ap_table)
          /\ DOMAIN ap_table' = DOMAIN ap_table
          /\ \A s \in DOMAIN ap_table : s # e => ap_table'[s] = ap_table[s]
          /\ e \in DOMAIN ap_table /\ ap_table'[e] = row
        <3>1. e \in DOMAIN ap_table
            BY <1>2, <1>5
        <3> QED
            BY <1>3, <2>1, <2>2, <3>1
    <2> QED
        BY <1>2, <1>5, <2>3 DEF row
<1>6. /\ ap_table' \in Seq(Entry) /\ Len(ap_table') \in Nat
      /\ Len(ap_table') <= ListSize
    BY <1>3, <1>4, <1>5, Sizes
<1>7. Types'
    <2>1. full' \in BOOLEAN
        <3>1. full' = (Len(ap_table') = ListSize /\ Len(ap_table) < ListSize)
            BY DEF Collect, Fill
        <3> QED
            BY <3>1, Zenon
    <2>2. pc' \in {"send", "collect"}
        BY <1>2
    <2> QED
        BY <1>1, <1>6, <2>1, <2>2 DEF ScanInv, Types
<1>8. Places'
    <2>1. /\ (full' <=> Len(ap_table') = ListSize)
          /\ pc' = IF full' THEN "send" ELSE "collect"
        BY <1>2
    <2>2. /\ ap_info \in [Slots -> Record] /\ (~grew => ap_count <= ListSize) /\ scans > 0
          /\ ap_count \in Nat
        BY <1>1 DEF ScanInv, Types, Places
    <2> QED
        <3>1. averages'
            OBVIOUS
        <3>2. pc' = "send" \/ (pc' = "collect" /\ ~full' /\ Len(ap_table') < ListSize)
            BY <1>6, <2>1, Sizes
        <3>3. j + 1 <= ap_count
            BY <1>1, <2>2
        <3> QED
            BY <1>1, <1>6, <2>2, <3>1, <3>2, <3>3 DEF Places
<1>9. Blocks'
    BY <1>1, <1>2 DEF ScanInv, Types, Blocks
<1>10. Packing'
    BY <1>1, <1>2 DEF ScanInv, Types, Places, Blocks, Packing
<1>11. Counts'
    <2> SUFFICES ASSUME ~grew, NEW s \in DOMAIN ap_table'
                 PROVE  ap_table'[s].n_occ \in 1 .. scans
        BY <1>1 DEF Counts
    <2>1. /\ \A t \in DOMAIN ap_table : ap_table[t].n_occ \in 1 .. scans
          /\ scans \in Nat /\ scans > 0
        BY <1>1 DEF ScanInv, Types, Places, Counts
    <2>2. CASE e = 0
        BY <1>3, <1>4, <2>1, <2>2
    <2>3. CASE e # 0
        <3>1. m = ap_table[e].n_occ + 1 /\ m <= scans /\ ap_table[e].n_occ \in 1 .. scans
            BY <1>2, <1>5, <2>1, <2>3
        <3>2. m \in 1 .. scans
            BY <2>1, <3>1
        <3> QED
            BY <1>5, <2>1, <2>3, <3>2
    <2> QED
        BY <2>2, <2>3
<1>12. Balanced'
    <2> SUFFICES ASSUME ~grew PROVE Balanced'
        BY <1>1 DEF Balanced
    <2>0. /\ j + 1 \in Waiting /\ rec = ap_info[j + 1]
          /\ e # 0 => ap_table'[e].n_occ = ap_table[e].n_occ + 1
        BY <1>2, <1>5
    <2>1. /\ \A s, t \in DOMAIN ap_table : ap_table[s].bssid = ap_table[t].bssid => s = t
          /\ \A s, t \in Waiting : ap_info[s].bssid = ap_info[t].bssid => s = t
          /\ \A b \in Bssids : got[b].n <= scans
        BY <1>1 DEF ScanInv, Balanced
    <2>2. ASSUME NEW b \in Bssids
          PROVE  /\ \A s \in DOMAIN ap_table : ap_table[s].bssid = b =>
                       /\ (\A t \in Waiting : ap_info[t].bssid # b) =>
                             /\ got[b].n = ap_table[s].n_occ
                             /\ got[b].sum = ap_table[s].rssi
                       /\ \A t \in Waiting : ap_info[t].bssid = b =>
                             /\ got[b].n = ap_table[s].n_occ + 1
                             /\ got[b].sum = ap_table[s].rssi + ap_info[t].rssi
                 /\ (\A s \in DOMAIN ap_table : ap_table[s].bssid # b) =>
                       /\ (\A t \in Waiting : ap_info[t].bssid # b) =>
                             got[b].n = 0 /\ got[b].sum = 0
                       /\ \A t \in Waiting : ap_info[t].bssid = b =>
                             got[b].n = 1 /\ got[b].sum = ap_info[t].rssi
        BY <1>1 DEF ScanInv, Balanced
    <2>3. /\ Waiting' \subseteq Waiting /\ j + 1 \notin Waiting'
          /\ pc' = "collect" => Waiting \subseteq Waiting' \cup {j + 1}
        BY <1>1, <2>0 DEF ScanInv, Types, Waiting
    <2>4. \A s, t \in DOMAIN ap_table' : ap_table'[s].bssid = ap_table'[t].bssid => s = t
        <3>1. CASE e = 0
            <4>1. \A s \in DOMAIN ap_table' : s = last \/ s \in DOMAIN ap_table
                BY <1>3, <1>4, <3>1
            <4> QED
                BY <1>2, <1>4, <2>1, <3>1, <4>1
        <3>2. CASE e # 0
            BY <1>5, <2>1, <3>2
        <3> QED
            BY <3>1, <3>2
    <2>5. \A t \in Waiting' : ap_info[t].bssid # rec.bssid
        BY <2>0, <2>1, <2>3
    <2>6. ASSUME pc' = "collect", NEW b \in Bssids, b # rec.bssid
          PROVE  /\ \A t \in Waiting : ap_info[t].bssid = b => t \in Waiting'
                 /\ \A s \in DOMAIN ap_table' : ap_table'[s].bssid = b =>
                       s \in DOMAIN ap_table /\ ap_table'[s] = ap_table[s]
                 /\ \A s \in DOMAIN ap_table : ap_table[s].bssid = b =>
                       s \in DOMAIN ap_table' /\ ap_table'[s] = ap_table[s]
        <3>1. \A t \in Waiting : ap_info[t].bssid = b => t \in Waiting'
            BY <2>0, <2>3, <2>6
        <3>2. CASE e = 0
            <4>1. \A s \in DOMAIN ap_table' : s = last \/ s \in DOMAIN ap_table
                BY <1>3, <1>4, <3>2
            <4>2. DOMAIN ap_table \subseteq DOMAIN ap_table'
                BY <1>3, <1>4, <3>2
            <4> QED
                BY <1>4, <2>6, <3>1, <3>2, <4>1, <4>2
        <3>3. CASE e # 0
            BY <1>5, <2>6, <3>1, <3>3
        <3> QED
            BY <3>2, <3>3
    <2>7. ASSUME pc' = "collect", NEW b \in Bssids
          PROVE  /\ \A s \in DOMAIN ap_table' : ap_table'[s].bssid = b =>
                       /\ (\A t \in Waiting' : ap_info[t].bssid # b) =>
                             /\ got[b].n = ap_table'[s].n_occ
                             /\ got[b].sum = ap_table'[s].rssi
                       /\ \A t \in Waiting' : ap_info[t].bssid = b =>
                             /\ got[b].n = ap_table'[s].n_occ + 1
                             /\ got[b].sum = ap_table'[s].rssi + ap_info[t].rssi
                 /\ (\A s \in DOMAIN ap_table' : ap_table'[s].bssid # b) =>
                       /\ (\A t \in Waiting' : ap_info[t].bssid # b) =>
                             got[b].n = 0 /\ got[b].sum = 0
                       /\ \A t \in Waiting' : ap_info[t].bssid = b =>
                             got[b].n = 1 /\ got[b].sum = ap_info[t].rssi
        <3>1. CASE b # rec.bssid
            BY <2>2, <2>3, <2>6, <2>7, <3>1
        <3>2. CASE b = rec.bssid /\ e = 0
            <4>1. got[b].n = 1 /\ got[b].sum = rec.rssi
                BY <1>2, <2>0, <2>2, <3>2
            <4>2. \A s \in DOMAIN ap_table' : ap_table'[s].bssid = b => s = last
                BY <1>2, <1>3, <1>4, <3>2
            <4>3. last \in DOMAIN ap_table'
                BY <1>3, <1>4, <3>2
            <4> HIDE DEF last
            <4> QED
                BY <1>4, <2>5, <3>2, <4>1, <4>2, <4>3
        <3>3. CASE b = rec.bssid /\ e # 0
            <4>1. got[b].n = ap_table[e].n_occ + 1 /\ got[b].sum = ap_table[e].rssi + rec.rssi
                BY <1>2, <2>0, <2>2, <3>3
            <4>2. \A s \in DOMAIN ap_table' : ap_table'[s].bssid = b => s = e
                BY <1>5, <2>1, <3>3
            <4> QED
                BY <1>5, <2>0, <2>5, <3>3, <4>1, <4>2
        <3> QED
            BY <3>1, <3>2, <3>3
    <2>8. pc' \in {"send", "collect"}
        BY <1>2
    <2>9. \A s, t \in Waiting' : ap_info[s].bssid = ap_info[t].bssid => s = t
        BY <2>1, <2>3
    <2> QED
        BY <1>1, <2>1, <2>4, <2>7, <2>8, <2>9 DEF Balanced
<1> QED
    BY <1>7, <1>8, <1>9, <1>10, <1>11, <1>12 DEF ScanInv

\* The list of a scan: the records delivered are of different access points.
LEMMA ListOf ==
    ASSUME NEW heard \in SUBSET Bssids
    PROVE  /\ Cardinality(heard) \in Nat
           /\ SetToSeq(heard) \in [1 .. Cardinality(heard) -> heard]
           /\ \A s, t \in 1 .. Cardinality(heard) :
                 SetToSeq(heard)[s] = SetToSeq(heard)[t] => s = t
<1> DEFINE F == [1 .. Cardinality(heard) -> heard]
<1>1. IsFiniteSet(heard) /\ Cardinality(heard) \in Nat
    BY Sizes, FS_Subset, FS_CardinalityType
<1>2. \E f \in F : IsInjective(f)
    <2>1. ExistsBijection(1 .. Cardinality(heard), heard)
        BY <1>1, FS_CardinalityType
    <2>2. PICK f \in Bijection(1 .. Cardinality(heard), heard) : TRUE
        BY <2>1 DEF ExistsBijection
    <2> QED
        BY <2>2 DEF Bijection, Injection, IsInjective
<1>3. SetToSeq(heard) \in F /\ IsInjective(SetToSeq(heard))
    BY <1>2 DEF SetToSeq
<1> QED
    BY <1>1, <1>3 DEF IsInjective

LEMMA ScanAgainKeeps ==
    ASSUME ScanInv, averages, ScanAgain, UNCHANGED averages
    PROVE  ScanInv'
<1>1. PICK heard \in SUBSET Bssids, r \in [Bssids -> Rssis] :
         LET n    == IF Cardinality(heard) < number THEN Cardinality(heard) ELSE number
             list == SetToSeq(heard)
             delivered == {list[s] : s \in 1 .. n}
         IN  /\ ap_count' = Cardinality(heard)
             /\ number' = n
             /\ grew' = (grew \/ Cardinality(heard) > number)
             /\ ap_info' = [s \in Slots |->
                   IF s <= n THEN [bssid |-> list[s], rssi |-> r[list[s]]] ELSE ap_info[s]]
             /\ got' = [b \in Bssids |-> IF b \in delivered
                   THEN [n |-> got[b].n + 1, sum |-> got[b].sum + r[b]] ELSE got[b]]
    BY Zenon DEF ScanAgain
<1> DEFINE size == Cardinality(heard)
           list == SetToSeq(heard)
           n    == IF size < number THEN size ELSE number
           delivered == {list[s] : s \in 1 .. n}
<1>2. /\ size \in Nat /\ list \in [1 .. size -> heard]
      /\ \A s, t \in 1 .. size : list[s] = list[t] => s = t
    BY ListOf
<1>3. /\ ap_count' = size /\ number' = n
      /\ ap_info' = [s \in Slots |->
            IF s <= n THEN [bssid |-> list[s], rssi |-> r[list[s]]] ELSE ap_info[s]]
      /\ got' = [b \in Bssids |-> IF b \in delivered
            THEN [n |-> got[b].n + 1, sum |-> got[b].sum + r[b]] ELSE got[b]]
    BY <1>1
<1>4. grew' = (grew \/ size > number)
    BY <1>1
<1> HIDE DEF list, size
<1>5. /\ pc = "scan2" /\ pc' = "collect" /\ scans < MaxScans /\ scans' = scans + 1 /\ j' = 0
      /\ UNCHANGED <<ap_table, full, buf, cap, i, curr_mem_loc, nbuf, sent>>
    BY DEF ScanAgain
<1>6. /\ n \in 0 .. ListSize /\ n <= size /\ number \in Nat /\ (size <= number => n = size)
      /\ scans \in Nat /\ 1 .. n \subseteq 1 .. size
    <2>1. number \in 0 .. ListSize /\ scans \in 0 .. MaxScans /\ size \in Nat
        BY <1>2 DEF ScanInv, Types
    <2>2. n = IF size < number THEN size ELSE number
        OBVIOUS
    <2> HIDE DEF n
    <2> QED
        BY <2>1, <2>2, Sizes
<1> HIDE DEF n
<1>7. \A s \in 1 .. n : list[s] \in Bssids /\ r[list[s]] \in Rssis /\ r[list[s]] \in Int
    BY <1>2, <1>6, Sizes
<1>8. ap_info' \in [Slots -> Record]
    <2> SUFFICES ASSUME NEW s \in Slots PROVE ap_info'[s] \in Record
        BY <1>3
    <2>1. CASE s <= n
        <3>1. s \in 1 .. n
            BY <1>6, <2>1, Sizes DEF Slots
        <3> QED
            BY <1>3, <1>7, <2>1, <3>1 DEF Record
    <2>2. CASE ~(s <= n)
        BY <1>3, <1>5, <2>2 DEF ScanInv, Places
    <2> QED
        BY <2>1, <2>2
<1>9. got' \in [Bssids -> Readings]
    <2> SUFFICES ASSUME NEW b \in Bssids PROVE got'[b] \in Readings
        BY <1>3
    <2>1. got[b] \in Readings /\ r[b] \in Int
        BY Sizes DEF ScanInv, Types
    <2> HIDE DEF delivered
    <2> QED
        BY <1>3, <2>1 DEF Readings
<1>10. Types'
    <2>1. grew' \in BOOLEAN
        BY <1>4, Zenon
    <2>2. scans' \in 0 .. MaxScans
        BY <1>5, <1>6, Sizes
    <2> HIDE DEF delivered
    <2> QED
        BY <1>2, <1>3, <1>5, <1>6, <1>9, <2>1, <2>2 DEF ScanInv, Types
<1>11. Places'
    <2>1. ~grew' => size <= ListSize
        <3> SUFFICES ASSUME ~grew' PROVE size <= ListSize
            OBVIOUS
        <3>1. ~(size > number)
            BY <1>4, Zenon
        <3> QED
            BY <1>2, <3>1, Sizes DEF ScanInv, Types
    <2> HIDE DEF delivered
    <2> QED
        BY <1>2, <1>3, <1>5, <1>6, <1>8, <2>1, Sizes DEF ScanInv, Types, Places
<1>12. Blocks' /\ Packing'
    BY <1>5 DEF ScanInv, Blocks, Packing
<1>13. Counts'
    <2> SUFFICES ASSUME ~grew', NEW s \in DOMAIN ap_table
                 PROVE  ap_table[s].n_occ \in 1 .. scans'
        BY <1>5 DEF Counts
    <2>1. ~grew
        BY <1>4, Zenon
    <2>2. ap_table[s].n_occ \in 1 .. scans
        BY <2>1 DEF ScanInv, Counts
    <2> QED
        BY <1>5, <1>6, <2>2
<1>14. Balanced'
    <2> SUFFICES ASSUME ~grew' PROVE Balanced'
        BY DEF Balanced
    <2>1. ~grew /\ n = size
        <3>1. ~grew /\ ~(size > number)
            BY <1>4, Zenon
        <3> QED
            BY <1>2, <1>6, <3>1
    <2>2. Waiting = {} /\ Waiting' = 1 .. n
        BY <1>3, <1>5, <2>1 DEF Waiting
    <2>3. \A t \in 1 .. n : ap_info'[t].bssid = list[t] /\ ap_info'[t].rssi = r[list[t]]
        <3> SUFFICES ASSUME NEW t \in 1 .. n
                     PROVE  ap_info'[t].bssid = list[t] /\ ap_info'[t].rssi = r[list[t]]
            OBVIOUS
        <3>1. t \in Slots /\ t <= n
            BY <1>6, Sizes DEF Slots
        <3> QED
            BY <1>3, <3>1
    <2>4. \A s, t \in Waiting' : ap_info'[s].bssid = ap_info'[t].bssid => s = t
        BY <1>2, <2>1, <2>2, <2>3
    <2>5. \A b \in Bssids :
             /\ (\A t \in 1 .. n : ap_info'[t].bssid # b) => got'[b] = got[b]
             /\ \A t \in 1 .. n : ap_info'[t].bssid = b =>
                   got'[b].n = got[b].n + 1 /\ got'[b].sum = got[b].sum + ap_info'[t].rssi
        <3> SUFFICES ASSUME NEW b \in Bssids
                     PROVE  /\ (\A t \in 1 .. n : ap_info'[t].bssid # b) => got'[b] = got[b]
                            /\ \A t \in 1 .. n : ap_info'[t].bssid = b =>
                                  /\ got'[b].n = got[b].n + 1
                                  /\ got'[b].sum = got[b].sum + ap_info'[t].rssi
            OBVIOUS
        <3>1. got'[b] = IF b \in delivered THEN [n |-> got[b].n + 1, sum |-> got[b].sum + r[b]]
                        ELSE got[b]
            BY <1>3
        <3>2. b \in delivered <=> \E t \in 1 .. n : list[t] = b
            OBVIOUS
        <3> HIDE DEF delivered
        <3> QED
            BY <2>3, <3>1, <3>2
    <2> HIDE DEF delivered
    <2>6. \A b \in Bssids : got[b].n <= scans /\ got[b] \in Readings
        BY <1>5, <2>1 DEF ScanInv, Types, Balanced
    <2>7. \A b \in Bssids : got'[b].n <= scans'
        <3> SUFFICES ASSUME NEW b \in Bssids PROVE got'[b].n <= scans'
            OBVIOUS
        <3>1. got'[b].n = got[b].n \/ got'[b].n = got[b].n + 1
            BY <2>5
        <3> QED
            BY <1>5, <1>6, <2>6, <3>1 DEF Readings
    <2>8. \A b \in Bssids :
             /\ \A s \in DOMAIN ap_table : ap_table[s].bssid = b =>
                   got[b].n = ap_table[s].n_occ /\ got[b].sum = ap_table[s].rssi
             /\ (\A s \in DOMAIN ap_table : ap_table[s].bssid # b) =>
                   got[b].n = 0 /\ got[b].sum = 0
        BY <1>5, <2>1, <2>2 DEF ScanInv, Balanced
    <2>9. \A t \in 1 .. n : ap_info'[t].rssi \in Int
        BY <1>7, <2>3
    <2>10. \A b \in Bssids :
             /\ \A s \in DOMAIN ap_table : ap_table[s].bssid = b =>
                   /\ (\A t \in 1 .. n : ap_info'[t].bssid # b) =>
                         got'[b].n = ap_table[s].n_occ /\ got'[b].sum = ap_table[s].rssi
                   /\ \A t \in 1 .. n : ap_info'[t].bssid = b =>
                         /\ got'[b].n = ap_table[s].n_occ + 1
                         /\ got'[b].sum = ap_table[s].rssi + ap_info'[t].rssi
             /\ (\A s \in DOMAIN ap_table : ap_table[s].bssid # b) =>
                   /\ (\A t \in 1 .. n : ap_info'[t].bssid # b) =>
                         got'[b].n = 0 /\ got'[b].sum = 0
                   /\ \A t \in 1 .. n : ap_info'[t].bssid = b =>
                         got'[b].n = 1 /\ got'[b].sum = ap_info'[t].rssi
        BY <2>5, <2>8, <2>9
    <2>11. \A s, t \in DOMAIN ap_table : ap_table[s].bssid = ap_table[t].bssid => s = t
        BY <2>1 DEF ScanInv, Balanced
    <2> QED
        BY <1>5, <2>2, <2>4, <2>7, <2>10, <2>11 DEF Balanced
<1> QED
    BY <1>10, <1>11, <1>12, <1>13, <1>14 DEF ScanInv

LEMMA InitInv == AverageInit => ScanInv
<1> SUFFICES ASSUME AverageInit PROVE ScanInv
    OBVIOUS
<1> USE DEF AverageInit, Init
<1>1. Types
    <2>1. got \in [Bssids -> Readings] /\ ap_table \in Seq(Entry)
        BY DEF NoReadings, Readings
    <2>2. grew \in BOOLEAN /\ full \in BOOLEAN
        BY Zenon
    <2> QED
        BY <2>1, <2>2, Sizes DEF Types
<1>2. Places
    BY Sizes DEF Places
<1>3. Blocks /\ Packing /\ Counts
    BY DEF Blocks, Packing, Counts
<1>4. Balanced
    BY DEF Balanced, Waiting
<1> QED
    BY <1>1, <1>2, <1>3, <1>4 DEF ScanInv

LEMMA NextKeeps ==
    ASSUME ScanInv, [AverageNext]_<<vars, averages, table>>
    PROVE  ScanInv'
<1>1. CASE AverageNext /\ averages
    <2>1. \/ Call \/ ScanAgain \/ Collect \/ ScanDone \/ MallocTable
          \/ PackAverage \/ TablePacked \/ FreeTable
          \/ (MallocFailed \/ Send \/ SendNot) /\ UNCHANGED table
        BY <1>1 DEF AverageNext
    <2>2. UNCHANGED averages
        BY <1>1 DEF AverageNext
    <2> QED
        BY <1>1, <2>1, <2>2, CallKeeps, ScanAgainKeeps, CollectKeeps, ScanDoneKeeps,
           MallocTableKeeps, PackAverageKeeps, TablePackedKeeps, FreeTableKeeps,
           NoMemoryKeeps, SendKeeps, SendNotKeeps
<1>2. CASE AverageNext /\ ~averages
    <2>1. Next /\ UNCHANGED <<table, averages>>
        BY <1>2 DEF AverageNext
    <2> QED
        BY <1>2, <2>1, ScanKeeps, MallocKeeps, NoMemoryKeeps, PackKeeps, PackDoneKeeps,
           SendKeeps, SendNotKeeps, FreeKeeps DEF Next
<1>3. CASE UNCHANGED <<vars, averages, table>>
    <2> USE <1>3 DEF vars, table
    <2>1. Types' /\ Places'
        BY DEF ScanInv, Types, Places
    <2>2. Blocks' /\ Packing'
        BY DEF ScanInv, Blocks, Packing, Rows
    <2>3. Counts' /\ Balanced'
        BY DEF ScanInv, Counts, Balanced, Waiting
    <2> QED
        BY <2>1, <2>2, <2>3 DEF ScanInv
<1> QED
    BY <1>1, <1>2, <1>3

-----------------------------------------------------------------------------
\* The inductive invariant holds through any number of rounds of either scan.
THEOREM ScanCorrect == AverageSpec => []ScanInv
<1> QED
    BY InitInv, NextKeeps, PTL DEF AverageSpec

\* wifi_scan() and wifi_scan2() copy every entry within the block they allocated,
\* however many access points there are and however long the entries.
THEOREM PackCorrect == AverageSpec => []PackFits
<1>1. ScanInv => PackFits
    <2> SUFFICES ASSUME ScanInv, pc = "pack", i < Rows
                 PROVE  curr_mem_loc + EntryLength <= cap
        BY DEF PackFits, Rows
    <2>1. /\ Rows \in Nat /\ EntryLength * Rows < Word /\ cap = EntryLength * Rows
          /\ curr_mem_loc <= EntryLength * i
        BY DEF ScanInv, Types, Packing, Rows
    <2>2. EntryLength * (i + 1) = EntryLength * i + EntryLength
        BY Sizes, TimesNext DEF ScanInv, Types
    <2>3. EntryLength * (i + 1) <= EntryLength * Rows /\ EntryLength * i \in Nat
        BY <2>1, Sizes, Times DEF ScanInv, Types
    <2> QED
        BY <2>1, <2>2, <2>3, Sizes DEF ScanInv, Types
<1> QED
    BY <1>1, ScanCorrect, PTL

\* The block of a round is freed once, through rounds with memory and without,
\* but after a round whose table became full.
THEOREM FreeCorrect == AverageSpec => []FreedOnce
<1>1. ScanInv => FreedOnce
    BY DEF ScanInv, Blocks, FreedOnce
<1> QED
    BY <1>1, ScanCorrect, PTL

\* What the server gets is the text of the round's scan, or nothing: the length
\* that an earlier round left in nbuf is never sent with another text.
THEOREM SentCorrect == AverageSpec => []SentIsScan
<1>1. ScanInv => SentIsScan
    BY DEF ScanInv, Packing, SentIsScan
<1> QED
    BY <1>1, ScanCorrect, PTL

\* Over any number of scans that find no more than the one before, each access
\* point has one row, and it is averaged from all its readings.
THEOREM AveragesCorrect == AverageSpec => []AveragesReadings
<1>1. ScanInv => AveragesReadings
    <2> SUFFICES ASSUME ScanInv, averages, pc = "pack", i = Len(ap_table), ~grew,
                        NEW b \in Bssids, got[b].n > 0
                 PROVE  \E s \in {t \in DOMAIN ap_table : ap_table[t].bssid = b} :
                           /\ {t \in DOMAIN ap_table : ap_table[t].bssid = b} = {s}
                           /\ ap_table[s].n_occ = got[b].n
                           /\ ap_table[s].rssi = Quotient(got[b].sum, got[b].n)
        BY DEF AveragesReadings
    <2>1. Waiting = {} /\ got[b].n # 0
        BY DEF Waiting, ScanInv, Types, Readings
    <2>2. PICK s \in DOMAIN ap_table : ap_table[s].bssid = b
        BY <2>1 DEF ScanInv, Balanced
    <2>3. /\ got[b].n = ap_table[s].n_occ
          /\ ap_table[s].rssi = IF s <= i THEN Quotient(got[b].sum, got[b].n) ELSE got[b].sum
        BY <2>1, <2>2 DEF ScanInv, Balanced
    <2>4. s <= i
        BY <2>2 DEF ScanInv, Types
    <2>5. \A t \in DOMAIN ap_table : ap_table[t].bssid = b => t = s
        BY <2>2 DEF ScanInv, Balanced
    <2> QED
        BY <2>2, <2>3, <2>4, <2>5
<1> QED
    BY <1>1, ScanCorrect, PTL

\* While no scan finds more than the one before it or than the list takes, an
\* access point is counted once per scan at most: n_occ, a byte, does not come
\* round, and wifi_scan2() does not divide by zero.
THEOREM CountsCorrect ==
    AverageSpec => [](averages /\ ~grew =>
                        \A s \in DOMAIN ap_table : ap_table[s].n_occ \in 1 .. scans)
<1>1. ScanInv => (averages /\ ~grew =>
                     \A s \in DOMAIN ap_table : ap_table[s].n_occ \in 1 .. scans)
    BY DEF ScanInv, Counts
<1> QED
    BY <1>1, ScanCorrect, PTL
=============================================================================

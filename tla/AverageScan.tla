---------------------------- MODULE AverageScan ----------------------------
(***************************************************************************)
(* The rounds of Localize with either scan: wifi_scan(), or wifi_scan2()   *)
(* in its place, whose call stands commented out beside that of            *)
(* wifi_scan().  wifi_scan2() scans max_scans times, accumulates the       *)
(* signal strength of each access point in a table, and packs the averages.*)
(*                                                                         *)
(* `number' is read and written by esp_wifi_scan_get_ap_records(): the     *)
(* size of the list before the call, the records copied after it.  ap_info *)
(* is not initialised: until a scan writes a slot it holds anything, here  *)
(* any record, and so does the memory behind it, which is read when more   *)
(* access points are found than the list takes.  A division by zero ends   *)
(* the program.  rssi is an int16_t: sums of a byte's number of scans fit  *)
(* it; what it wraps to when more is added (grew) is left out.             *)
(***************************************************************************)
EXTENDS Localize, SequencesExt

CONSTANTS
    Bssids,      \* access points
    Rssis,       \* signal strengths they are received with
    MaxScans,    \* max_scans
    OccWord      \* 2^8: n_occ is a uint8_t

\* n_occ can count the scans (20 of them in the program's call), and a table of
\* the list's size fits 16 bits.
ASSUME BoundsAssumption ==
    /\ IsFiniteSet(Bssids) /\ Rssis \subseteq -128 .. 127
    /\ ListSize # 0 /\ Word > EntryLength * ListSize
    /\ MaxScans \in Nat
    /\ OccWord \in Nat /\ MaxScans < OccWord

VARIABLES
    averages,    \* the rounds call wifi_scan2()
    scans,       \* scans started
    ap_info,     \* the driver's list
    j,           \* records processed of them
    ap_table,    \* the table: bssid, n_occ, rssi (sum, then average)
    got,         \* history: for each access point the readings delivered and their sum
    grew,        \* history: a scan found more than `number' on entry
    full         \* history: the table became full, this round

table == <<scans, ap_info, j, ap_table, got, grew, full>>

Record == [bssid : Bssids, rssi : Rssis]
Slots  == 1 .. ListSize

NoReadings == [b \in Bssids |-> [n |-> 0, sum |-> 0]]

AverageInit ==
    /\ Init
    /\ averages \in BOOLEAN
    /\ scans = 0 /\ ap_info = <<>> /\ j = 0 /\ ap_table = <<>>
    /\ got = NoReadings /\ grew = FALSE /\ full = FALSE

\* The call: the list holds anything.
Call ==
    /\ pc = "scan"
    /\ pc' = "scan2"
    /\ number' = ListSize
    /\ ap_info' \in [Slots -> Record]
    /\ UNCHANGED <<ap_count, buf, cap, i, curr_mem_loc, nbuf, sent>>
    /\ UNCHANGED <<scans, j, ap_table, got, grew, full>>

\* A scan that heard the access points of heard, r[b] the strength of b; the
\* driver copies as many as `number' says, and counts all.
ScanAgain ==
    /\ pc = "scan2"
    /\ scans < MaxScans
    /\ scans' = scans + 1
    /\ \E heard \in SUBSET Bssids, r \in [Bssids -> Rssis] :
          LET n    == IF Cardinality(heard) < number THEN Cardinality(heard) ELSE number
              list == SetToSeq(heard)
              delivered == {list[s] : s \in 1 .. n}
          IN /\ ap_count' = Cardinality(heard)
             /\ number' = n
             /\ grew' = (grew \/ Cardinality(heard) > number)
             /\ ap_info' = [s \in Slots |->
                   IF s <= n THEN [bssid |-> list[s], rssi |-> r[list[s]]] ELSE ap_info[s]]
             /\ got' = [b \in Bssids |-> IF b \in delivered
                   THEN [n |-> got[b].n + 1, sum |-> got[b].sum + r[b]] ELSE got[b]]
    /\ j' = 0
    /\ pc' = "collect"
    /\ UNCHANGED <<ap_table, full, buf, cap, i, curr_mem_loc, nbuf, sent>>

\* The first entry of an access point, 0 if it has none.
EntryOf(b) == SelectInSeq(ap_table, LAMBDA e : e.bssid = b)

\* A table that has just become full ends the function, its outputs as they were.
Fill(new) ==
    /\ ap_table' = new
    /\ full' = (Len(new) = ListSize /\ Len(ap_table) < ListSize)
    /\ pc' = IF full' THEN "send" ELSE "collect"

\* The record that is read next: the list has ListSize of them.
NextRecord == IF j < ListSize THEN {ap_info[j + 1]} ELSE Record

\* Slip: a known access point has its entry overwritten.
CollectOver ==
    /\ pc = "collect"
    /\ j < ap_count
    /\ j' = j + 1
    /\ \E rec \in NextRecord :
       LET e   == EntryOf(rec.bssid)
           new == [bssid |-> rec.bssid, n_occ |-> 1, rssi |-> rec.rssi]
       IN Fill(IF e = 0 THEN Append(ap_table, new) ELSE [ap_table EXCEPT ![e] = new])
    /\ UNCHANGED <<scans, number, ap_info, ap_count, got, grew, buf, cap, i, curr_mem_loc,
                   nbuf, sent>>

\* The next record of the list is added to its entry, or to a new one.
Collect ==
    /\ pc = "collect"
    /\ j < ap_count
    /\ j' = j + 1
    /\ \E rec \in NextRecord :
       LET e == EntryOf(rec.bssid)
       IN Fill(IF e = 0
               THEN Append(ap_table, [bssid |-> rec.bssid, n_occ |-> 1, rssi |-> rec.rssi])
               ELSE [ap_table EXCEPT ![e] = [bssid |-> @.bssid,
                                             n_occ |-> (@.n_occ + 1) % OccWord,
                                             rssi  |-> @.rssi + rec.rssi]])
    /\ UNCHANGED <<scans, number, ap_info, ap_count, got, grew, buf, cap, i, curr_mem_loc,
                   nbuf, sent>>

ScanDone ==
    /\ pc = "collect"
    /\ j = ap_count
    /\ pc' = IF scans = MaxScans THEN "malloc" ELSE "scan2"
    /\ UNCHANGED <<ap_count, number, buf, cap, i, curr_mem_loc, nbuf, sent, table>>

MallocTable ==
    /\ pc = "malloc"
    /\ Len(ap_table) > 0
    /\ buf' = "live"
    /\ cap' = EntryLength * Len(ap_table)
    /\ pc' = "pack"
    /\ UNCHANGED <<ap_count, number, i, curr_mem_loc, nbuf, sent, table>>

\* C's division, towards zero.
Quotient(a, n) == IF a < 0 THEN -((-a) \div n) ELSE a \div n

\* The next entry is averaged and appended over the NUL of the one before.
PackAverage ==
    /\ pc = "pack"
    /\ i < Len(ap_table)
    /\ ap_table[i + 1].n_occ # 0
    /\ ap_table' = [ap_table EXCEPT ![i + 1].rssi = Quotient(@, ap_table[i + 1].n_occ)]
    /\ \E len \in Lengths : curr_mem_loc' = (curr_mem_loc + len) % Word
    /\ i' = i + 1
    /\ UNCHANGED <<pc, ap_count, number, buf, cap, nbuf, sent>>
    /\ UNCHANGED <<scans, ap_info, j, got, grew, full>>

TablePacked ==
    /\ pc = "pack"
    /\ i = Len(ap_table)
    /\ nbuf' = (curr_mem_loc - 1) % Word
    /\ pc' = "send"
    /\ UNCHANGED <<ap_count, number, buf, cap, i, curr_mem_loc, sent, table>>

FreeTable ==
    /\ Free
    /\ scans' = 0 /\ ap_info' = <<>> /\ j' = 0 /\ ap_table' = <<>>
    /\ got' = NoReadings /\ grew' = FALSE /\ full' = FALSE

AverageNext ==
    /\ \/ averages /\ \/ Call \/ ScanAgain \/ Collect \/ ScanDone \/ MallocTable
                      \/ PackAverage \/ TablePacked \/ FreeTable
                      \/ (MallocFailed \/ Send \/ SendNot) /\ UNCHANGED table
       \/ ~averages /\ Next /\ UNCHANGED table
    /\ UNCHANGED averages

AverageSpec == AverageInit /\ [][AverageNext]_<<vars, averages, table>>

-----------------------------------------------------------------------------
\* However many access points are found, listed or not, and whatever their
\* entries' lengths, an entry is copied within the block.
PackFits ==
    pc = "pack" /\ i < (IF averages THEN Len(ap_table) ELSE ap_count) =>
        curr_mem_loc + EntryLength <= cap

\* Through rounds with and without memory the block is freed exactly once: it
\* is not lost to the next malloc(), and free() is not given a freed one, but
\* after a round whose table became full.
FreedOnce ==
    /\ pc \in {"scan", "scan2", "collect", "malloc"} => buf # "live"
    /\ pc \in {"send", "free"} /\ ~full => buf # "freed"

\* A round without memory leaves nbuf as an earlier round set it, and still
\* the server never gets anything but the text of a scan or nothing at all:
\* the loop relies on send() to refuse the rest.  Again but for a full table.
SentIsScan == ~full => sent.len = sent.text

\* Over all scans every reading the driver delivered goes into exactly one
\* entry, that of its access point, once: as long as no scan finds more than
\* the one before it or than the list takes, the averages are those of the
\* readings, and nothing is divided by a count that has come round.
AveragesReadings ==
    averages /\ pc = "pack" /\ i = Len(ap_table) /\ ~grew =>
        \A b \in Bssids : got[b].n > 0 =>
            LET mine == {s \in DOMAIN ap_table : ap_table[s].bssid = b}
            IN \E s \in mine :
                  /\ mine = {s}
                  /\ ap_table[s].n_occ = got[b].n
                  /\ ap_table[s].rssi = Quotient(got[b].sum, got[b].n)

=============================================================================

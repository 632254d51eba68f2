------------------------------ MODULE Localize ------------------------------
(***************************************************************************)
(* The main thread once the clients are started: scan for access points,   *)
(* pack one entry per access point into a block of memory (wifi_scan),     *)
(* send it if the WebSocket client is connected, free it, wait, and again  *)
(* (start_websocket_client).  scan_results_buf and nbuf live across the    *)
(* rounds and are only assigned by a scan that gets memory.                *)
(*                                                                         *)
(* An entry is represented by its length, a text by its length.  A failed  *)
(* ESP_ERROR_CHECK reboots the device and is left out, and free() of a     *)
(* freed block is the end: the heap aborts the program.                    *)
(***************************************************************************)
EXTENDS Integers

CONSTANTS
    ListSize,      \* DEFAULT_SCAN_LIST_SIZE
    EntryLength,   \* MAX_ENTRY_LENGTH
    Lengths,       \* bytes snprintf() makes of an entry, with its NUL
    MaxAps,        \* bound: access points in range
    Word           \* 2^16: nbuf and curr_mem_loc are uint16_t

\* An entry fits its buffer; a scan of the bound's size fits 16 bits.
ASSUME SizesAssumption ==
    /\ ListSize \in Nat /\ MaxAps \in Nat
    /\ EntryLength \in Nat
    /\ Lengths \subseteq 2 .. EntryLength
    /\ Word \in Nat /\ Word > EntryLength * MaxAps

VARIABLES
    pc,
    ap_count,      \* esp_wifi_scan_get_ap_num(): access points found
    number,        \* records the driver copied to ap_info
    buf,           \* scan_results_buf: "NULL", or to a "live" or "freed" block
    cap,           \* size of the block
    i,             \* entries packed
    curr_mem_loc,  \* bytes packed, with the last NUL
    nbuf,          \* length to send
    sent           \* history: the round's message, and the text then in the block

vars == <<pc, ap_count, number, buf, cap, i, curr_mem_loc, nbuf, sent>>

Init ==
    /\ pc = "scan"
    /\ ap_count = 0 /\ number = 0
    /\ buf = "NULL" /\ cap = 0
    /\ i = 0 /\ curr_mem_loc = 0
    /\ nbuf = 0
    /\ sent = [len |-> 0, text |-> 0]

\* The radio finds n access points; the list takes the first ListSize.
Scan ==
    /\ pc = "scan"
    /\ \E n \in 0 .. MaxAps :
          /\ ap_count' = n
          /\ number' = IF n < ListSize THEN n ELSE ListSize
    /\ i' = 0
    /\ curr_mem_loc' = 0
    /\ pc' = "malloc"
    /\ UNCHANGED <<buf, cap, nbuf, sent>>

\* Slip: memory for the records in the list, entries for all that were found.
MallocNumber ==
    /\ pc = "malloc"
    /\ ap_count > 0
    /\ buf' = "live"
    /\ cap' = EntryLength * number
    /\ pc' = "pack"
    /\ UNCHANGED <<ap_count, number, i, curr_mem_loc, nbuf, sent>>

\* malloc(); the allocator has no block of no bytes.
Malloc ==
    /\ pc = "malloc"
    /\ ap_count > 0
    /\ buf' = "live"
    /\ cap' = EntryLength * ap_count
    /\ pc' = "pack"
    /\ UNCHANGED <<ap_count, number, i, curr_mem_loc, nbuf, sent>>

\* Slip: the pointer is assigned when there is something to point to.
MallocFailedKeeps ==
    /\ pc = "malloc"
    /\ pc' = "send"
    /\ UNCHANGED <<ap_count, number, buf, cap, i, curr_mem_loc, nbuf, sent>>

\* No memory, or nothing found: wifi_scan() returns, nbuf is as it was.
MallocFailed ==
    /\ pc = "malloc"
    /\ buf' = "NULL"
    /\ pc' = "send"
    /\ UNCHANGED <<ap_count, number, cap, i, curr_mem_loc, nbuf, sent>>

\* An entry is appended over the NUL of the one before.
Pack ==
    /\ pc = "pack"
    /\ i < ap_count
    /\ \E len \in Lengths : curr_mem_loc' = (curr_mem_loc + len) % Word
    /\ i' = i + 1
    /\ UNCHANGED <<pc, ap_count, number, buf, cap, nbuf, sent>>

PackDone ==
    /\ pc = "pack"
    /\ i = ap_count
    /\ nbuf' = (curr_mem_loc - 1) % Word
    /\ pc' = "send"
    /\ UNCHANGED <<ap_count, number, buf, cap, i, curr_mem_loc, sent>>

\* The text in the block, without its NUL; none if there is no block.
Text == IF buf = "live" THEN curr_mem_loc - 1 ELSE 0

\* Slip: send_with_opcode() does not look at its arguments.
SendAnything ==
    /\ pc = "send"
    /\ sent' = [len |-> nbuf, text |-> Text]
    /\ pc' = "free"
    /\ UNCHANGED <<ap_count, number, buf, cap, i, curr_mem_loc, nbuf>>

\* The client is connected and accepts the message.
Send ==
    /\ pc = "send"
    /\ ~(buf = "NULL" /\ nbuf > 0)
    /\ sent' = [len |-> nbuf, text |-> Text]
    /\ pc' = "free"
    /\ UNCHANGED <<ap_count, number, buf, cap, i, curr_mem_loc, nbuf>>

\* It is not connected, or refuses.
SendNot ==
    /\ pc = "send"
    /\ pc' = "free"
    /\ UNCHANGED <<ap_count, number, buf, cap, i, curr_mem_loc, nbuf, sent>>

\* free(), of NULL too, and the wait for the next round; what the round had to
\* itself is gone.
Free ==
    /\ pc = "free"
    /\ buf # "freed"
    /\ buf' = IF buf = "live" THEN "freed" ELSE buf
    /\ pc' = "scan"
    /\ ap_count' = 0 /\ number' = 0 /\ cap' = 0 /\ i' = 0 /\ curr_mem_loc' = 0
    /\ sent' = [len |-> 0, text |-> 0]
    /\ UNCHANGED nbuf

Next == Scan \/ Malloc \/ MallocFailed \/ Pack \/ PackDone \/ Send \/ SendNot \/ Free

Spec == Init /\ [][Next]_vars

-----------------------------------------------------------------------------
(* What the comments say and the code does not do.                         *)

\* "Package scan results for transmission": every entry packed is made from a
\* record of the scan.
PacksResults == pc = "pack" /\ i < ap_count => i < number
=============================================================================

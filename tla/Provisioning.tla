---------------------------- MODULE Provisioning ----------------------------
(***************************************************************************)
(* How the device gets its endpoints at boot (components/init, main).  The *)
(* task "input" (task_get_endpoints) reads three lines from the console:   *)
(* the broker, the WebSocket server and the node to track, stores them in  *)
(* NVS and gives a semaphore.  The thread "main" (func_load_endpoints)     *)
(* waits for the semaphore with a timeout: in time, it stores the lines    *)
(* once more; else it deletes the input task and loads what NVS holds, or  *)
(* restarts the device if that fails.  The power may fail at any time.     *)
(*                                                                         *)
(* An endpoint is represented by b if it is the line typed for it at boot  *)
(* b, by -b if it is anything else typed at that boot: part of the line,   *)
(* or the rest of a line before it that filled its array; by 0 if nobody   *)
(* ever typed it.  NVS writes one entry atomically and under a lock of its *)
(* own, and a deleted task never gives a lock back.                        *)
(***************************************************************************)
EXTENDS Integers

CONSTANTS
    MaxBoots,    \* bound: how often the device boots
    Faults       \* NVS calls that may fail: "set" (writing), "get" (reading)

\* A device boots at least once.
ASSUME BootsAssumption == MaxBoots \in Nat \ {0}

\* Which NVS calls may fail.
ASSUME FaultsAssumption == Faults \subseteq {"set", "get"}

VARIABLES
    boot,        \* the current boot
    ram,         \* mqtt_broker_endpoint, ws_server_endpoint, ext1_id
    nvs,         \* the entries of the namespace init_data
    nvsLock,     \* the thread inside an NVS call, or "free"
    sem,         \* xSemaphore
    pc,          \* where each thread is
    step,        \* the line being typed, or the NVS call of a store or a load
    timedOut,    \* the semaphore did not come in time (this boot)
    skipped,     \* history: a read failed in this boot and was passed over
    filled,      \* history: the boots at which a line filled its array
    stored       \* history: nvs when the device booted

vars == <<boot, ram, nvs, nvsLock, sem, pc, step, timedOut, skipped, filled, stored>>

\* The endpoints, in the order in which they are typed, stored and loaded:
\* the broker, the WebSocket server, the tracked node.
Keys    == 1 .. 3
Threads == {"input", "main"}

\* The calls of a store or a load: nvs_open, one per key, nvs_commit.
Open   == 0
Commit == 4

InputLabels == {"type", "persist", "give", "delete", "gone"}
MainLabels  == {"wait", "persist", "kill", "load", "run", "restart"}

\* What a boot starts from: zeroed variables, an empty semaphore, both threads
\* at their beginnings.
Booted ==
    /\ ram' = [k \in Keys |-> 0]
    /\ nvsLock' = "free"
    /\ sem' = FALSE
    /\ pc' = [input |-> "type", main |-> "wait"]
    /\ step' = [input |-> 1, main |-> Open]
    /\ timedOut' = FALSE
    /\ skipped' = FALSE

Init ==
    /\ boot = 1
    /\ ram = [k \in Keys |-> 0]
    /\ nvs = [k \in Keys |-> 0]
    /\ nvsLock = "free"
    /\ sem = FALSE
    /\ pc = [input |-> "type", main |-> "wait"]
    /\ step = [input |-> 1, main |-> Open]
    /\ timedOut = FALSE
    /\ skipped = FALSE
    /\ filled = {}
    /\ stored = [k \in Keys |-> 0]

-----------------------------------------------------------------------------
(* get_string(), three times: the user types part of a line, or its end,   *)
(* or so much that the array is full.                                      *)

\* What the array of the current line then holds, and where the task goes on.
GotString(value) ==
    /\ pc["input"] = "type"
    /\ ram' = [ram EXCEPT ![step["input"]] = value]
    /\ IF step["input"] = 3
       THEN /\ pc' = [pc EXCEPT !["input"] = "persist"]
            /\ step' = [step EXCEPT !["input"] = Open]
       ELSE /\ step' = [step EXCEPT !["input"] = @ + 1]
            /\ UNCHANGED pc
    /\ UNCHANGED <<boot, nvs, nvsLock, sem, timedOut, skipped, stored>>

\* Slip: what has been typed so far is taken for the line.
TypePartTaken ==
    /\ GotString(-boot)
    /\ UNCHANGED filled

TypePart ==
    /\ pc["input"] = "type"
    /\ ram' = [ram EXCEPT ![step["input"]] = -boot]
    /\ UNCHANGED <<boot, nvs, nvsLock, sem, pc, step, timedOut, skipped, filled, stored>>

\* A newline.  Behind a line that filled its array it may end what is left of
\* that line, or a line typed for an earlier prompt.
TypeLine ==
    /\ \E value \in IF boot \in filled THEN {boot, -boot} ELSE {boot} : GotString(value)
    /\ UNCHANGED filled

\* The loop also ends when count reaches size: the array has no end, and what
\* follows on the console is read into the next one.
TypeFull ==
    /\ GotString(-boot)
    /\ filled' = filled \cup {boot}

-----------------------------------------------------------------------------
(* NVS calls take the lock of NVS for their duration.                      *)

NvsEnter(th) ==
    /\ pc[th] \in {"persist", "load"}
    /\ nvsLock = "free"
    /\ nvsLock' = th
    /\ UNCHANGED <<boot, ram, nvs, sem, pc, step, timedOut, skipped, filled, stored>>

\* Where persist_endpoints() returns to, with or without an error.
AfterPersist(th) == IF th = "input" THEN "give" ELSE "run"

\* One call of persist_endpoints() succeeds.
PersistOk(th) ==
    /\ pc[th] = "persist"
    /\ nvsLock = th
    /\ nvsLock' = "free"
    /\ nvs' = [k \in Keys |-> IF k = step[th] THEN ram[k] ELSE nvs[k]]
    /\ IF step[th] = Commit
       THEN pc' = [pc EXCEPT ![th] = AfterPersist(th)] /\ UNCHANGED step
       ELSE step' = [step EXCEPT ![th] = @ + 1] /\ UNCHANGED pc
    /\ UNCHANGED <<boot, ram, sem, timedOut, skipped, filled, stored>>

\* Slip: after a failed call the remaining ones are still made.
PersistFailedGoesOn(th) ==
    /\ "set" \in Faults
    /\ pc[th] = "persist"
    /\ nvsLock = th
    /\ nvsLock' = "free"
    /\ IF step[th] = Commit
       THEN pc' = [pc EXCEPT ![th] = AfterPersist(th)] /\ UNCHANGED step
       ELSE step' = [step EXCEPT ![th] = @ + 1] /\ UNCHANGED pc
    /\ UNCHANGED <<boot, ram, nvs, sem, timedOut, skipped, filled, stored>>

\* A call fails: the rest is not attempted; both callers only log it.
PersistFailed(th) ==
    /\ "set" \in Faults
    /\ pc[th] = "persist"
    /\ nvsLock = th
    /\ nvsLock' = "free"
    /\ pc' = [pc EXCEPT ![th] = AfterPersist(th)]
    /\ UNCHANGED <<boot, ram, nvs, sem, step, timedOut, skipped, filled, stored>>

Give ==
    /\ pc["input"] = "give"
    /\ sem' = TRUE
    /\ pc' = [pc EXCEPT !["input"] = "delete"]
    /\ UNCHANGED <<boot, ram, nvs, nvsLock, step, timedOut, skipped, filled, stored>>

SelfDelete ==
    /\ pc["input"] = "delete"
    /\ pc' = [pc EXCEPT !["input"] = "gone"]
    /\ UNCHANGED <<boot, ram, nvs, nvsLock, sem, step, timedOut, skipped, filled, stored>>

-----------------------------------------------------------------------------
(* func_load_endpoints().                                                  *)

\* Slip: in time or not, the endpoints in memory are the ones to use.
TakeAnyway ==
    /\ pc["main"] = "wait"
    /\ sem' = FALSE
    /\ pc' = [pc EXCEPT !["main"] = "persist"]
    /\ UNCHANGED <<boot, ram, nvs, nvsLock, step, timedOut, skipped, filled, stored>>

Take ==
    /\ pc["main"] = "wait"
    /\ sem
    /\ sem' = FALSE
    /\ pc' = [pc EXCEPT !["main"] = "persist"]
    /\ UNCHANGED <<boot, ram, nvs, nvsLock, step, timedOut, skipped, filled, stored>>

Timeout ==
    /\ pc["main"] = "wait"
    /\ ~sem
    /\ timedOut' = TRUE
    /\ pc' = [pc EXCEPT !["main"] = "kill"]
    /\ UNCHANGED <<boot, ram, nvs, nvsLock, sem, step, skipped, filled, stored>>

\* Slip: the input task is left to itself.
KillNot ==
    /\ pc["main"] = "kill"
    /\ pc' = [pc EXCEPT !["main"] = "load"]
    /\ UNCHANGED <<boot, ram, nvs, nvsLock, sem, step, timedOut, skipped, filled, stored>>

\* vTaskDelete(task_get_endpoints_xhandle), wherever that task is.
Kill ==
    /\ pc["main"] = "kill"
    /\ pc' = [input |-> "gone", main |-> "load"]
    /\ UNCHANGED <<boot, ram, nvs, nvsLock, sem, step, timedOut, skipped, filled, stored>>

\* nvs_get_str() is given the size of the entry, not that of the array: an
\* entry stored from an array without an end may run over the other arrays.
Overrun(key) == IF key \in Keys /\ nvs[key] < 0 THEN SUBSET (Keys \ {key}) ELSE {{}}

\* One call of load_endpoints() succeeds; the last one ends it.
LoadOk ==
    /\ pc["main"] = "load"
    /\ nvsLock = "main"
    /\ step["main"] \in Keys => nvs[step["main"]] # 0
    /\ nvsLock' = "free"
    /\ \E over \in Overrun(step["main"]) :
          ram' = [k \in Keys |-> IF k = step["main"] \/ k \in over THEN nvs[step["main"]] ELSE ram[k]]
    /\ IF step["main"] = Commit
       THEN pc' = [pc EXCEPT !["main"] = "run"] /\ UNCHANGED step
       ELSE step' = [step EXCEPT !["main"] = @ + 1] /\ UNCHANGED pc
    /\ UNCHANGED <<boot, nvs, sem, timedOut, skipped, filled, stored>>

\* Slip: a missing entry is read again until it is there.
LoadMissingWaits ==
    /\ "get" \in Faults
    /\ step["main"] \in Keys => nvs[step["main"]] # 0
    /\ pc["main"] = "load"
    /\ nvsLock = "main"
    /\ nvsLock' = "free"
    /\ pc' = [pc EXCEPT !["main"] = "restart"]
    /\ UNCHANGED <<boot, ram, nvs, sem, step, timedOut, skipped, filled, stored>>

\* An entry is missing, or a call whose result is looked at fails.
LoadFailed ==
    /\ pc["main"] = "load"
    /\ nvsLock = "main"
    /\ \/ "get" \in Faults
       \/ step["main"] \in Keys /\ nvs[step["main"]] = 0
    /\ nvsLock' = "free"
    /\ pc' = [pc EXCEPT !["main"] = "restart"]
    /\ UNCHANGED <<boot, ram, nvs, sem, step, timedOut, skipped, filled, stored>>

\* The value of ws_endpoint or ext1_id cannot be read: the result of
\* nvs_get_str() is not assigned to err, the variable stays as it is.
LoadIgnored ==
    /\ "get" \in Faults
    /\ pc["main"] = "load"
    /\ nvsLock = "main"
    /\ step["main"] \in {2, 3}
    /\ nvs[step["main"]] # 0
    /\ nvsLock' = "free"
    /\ step' = [step EXCEPT !["main"] = @ + 1]
    /\ skipped' = TRUE
    /\ UNCHANGED <<boot, ram, nvs, sem, pc, timedOut, filled, stored>>

\* esp_restart(), or the power fails and comes back.
Reboot ==
    /\ boot < MaxBoots
    /\ boot' = boot + 1
    /\ stored' = nvs
    /\ Booted
    /\ UNCHANGED <<nvs, filled>>

-----------------------------------------------------------------------------
MainStep  == Take \/ Timeout \/ Kill \/ LoadOk \/ LoadFailed \/ LoadIgnored
InputStep == Give \/ SelfDelete
NvsStep(th) == NvsEnter(th) \/ PersistOk(th) \/ PersistFailed(th)

Next ==
    \/ TypePart \/ TypeLine \/ TypeFull \/ InputStep \/ MainStep \/ Reboot
    \/ \E th \in Threads : NvsStep(th)

Spec == Init /\ [][Next]_vars

\* Both threads are scheduled and NVS calls return; the user need not type.
FairSpec ==
    /\ Spec
    /\ WF_vars(InputStep) /\ WF_vars(MainStep)
    /\ \A th \in Threads : WF_vars(NvsStep(th))

-----------------------------------------------------------------------------
Values == -MaxBoots .. MaxBoots

\* Every variable has a value of its type.
TypeOK ==
    /\ boot \in 1 .. MaxBoots
    /\ ram \in [Keys -> Values]
    /\ nvs \in [Keys -> Values]
    /\ stored \in [Keys -> Values]
    /\ nvsLock \in Threads \cup {"free"}
    /\ sem \in BOOLEAN
    /\ timedOut \in BOOLEAN
    /\ skipped \in BOOLEAN
    /\ filled \subseteq 1 .. boot
    /\ pc \in [input : InputLabels, main : MainLabels]
    /\ step \in [input : Open .. Commit, main : Open .. Commit]

\* The boot at which a value was typed, 0 if it never was.
Age(value) == IF value < 0 THEN -value ELSE value

\* Whenever stores are cut short, by a failure, by the timeout or by a loss of
\* power, an entry is never newer than the one stored before it: NVS holds
\* the newest broker, and a tracked node at most as new as the server.
StoreOrder == \A j, k \in Keys : j < k => Age(nvs[k]) <= Age(nvs[j])

\* An entry that is not the whole line typed for it is the trace of a line that
\* filled its array at the boot of that entry: nothing else stores part of a
\* line, although the task may be deleted while the user is in the middle of
\* one and entries of several boots are mixed.
StoredWhole == \A k \in Keys : nvs[k] < 0 => -nvs[k] \in filled

\* The line typed for k at this boot is in memory, or a line of this boot has
\* filled its array.
Typed(k) == ram[k] = boot \/ (ram[k] = -boot /\ boot \in filled)

AllTyped == \A k \in Keys : Typed(k)

\* When the lines were given in time the clients are started with exactly them,
\* whatever earlier boots have left in NVS, unless one filled its array.
InTimeUsesInput == pc["main"] = "run" /\ ~timedOut => AllTyped

\* Every entry is a whole line.
StoredLines == \A k \in Keys : nvs[k] >= 0

\* When they were not, the clients are started with what NVS holds: the lines
\* typed so far are dropped and the input task changes nothing any more.  Only
\* a read that fails and is passed over, or an entry that runs over its array,
\* may leave something else in memory.
TimedOutUsesStored ==
    pc["main"] = "run" /\ timedOut /\ ~skipped /\ StoredLines => ram = nvs

\* Unless a read was passed over the clients are never started with an endpoint
\* nobody ever typed anything for.
RunsConfigured ==
    pc["main"] = "run" /\ ~skipped => \A k \in Keys : ram[k] # 0

\* "attempt to read previous ones stored in nvs": after a timeout the clients
\* are started with the endpoints stored before the device booted, or with the
\* first of the new ones and the rest of those: never with a new endpoint
\* behind an old one.  The exceptions are those of TimedOutUsesStored.
LoadsPreviousOrNew ==
    pc["main"] = "run" /\ timedOut /\ ~skipped /\ StoredLines =>
        \A k \in Keys :
            /\ ram[k] \in {stored[k], boot}
            /\ ram[k] = boot => \A j \in 1 .. k : ram[j] = boot

\* What the input task has done, by where it is.
InputInv ==
    /\ pc["input"] = "type" => step["input"] \in Keys /\ ~sem
    /\ pc["input"] = "type" => \A k \in Keys : k < step["input"] => Typed(k)
    /\ pc["input"] \in {"persist", "give", "delete"} => AllTyped
    /\ pc["input"] \in {"persist", "give"} => ~sem

\* What the main thread may rely on, by where it is.
MainInv ==
    /\ pc["main"] \in {"wait", "kill"} => step["main"] = Open
    /\ pc["main"] = "wait" => ~timedOut
    /\ pc["main"] = "wait" /\ sem => AllTyped
    /\ pc["main"] = "persist" => AllTyped /\ ~timedOut /\ pc["input"] \in {"delete", "gone"}
    /\ pc["main"] \in {"kill", "load"} => timedOut
    /\ pc["main"] = "load" => pc["input"] = "gone"
    /\ pc["main"] = "run" /\ timedOut => pc["input"] = "gone"
    /\ pc["main"] = "run" /\ ~timedOut => AllTyped /\ pc["input"] \in {"delete", "gone"}
    /\ pc["main"] = "restart" => pc["input"] = "gone" /\ timedOut

\* Entries are of this boot or were there before, in order, and a store has
\* brought every entry it has passed up to this boot.
StoreInv ==
    /\ \A k \in Keys : Age(nvs[k]) <= boot /\ nvs[k] \in {stored[k], boot, -boot}
    /\ StoreOrder
    /\ StoredWhole
    /\ \A th \in Threads : pc[th] = "persist" => \A k \in Keys : k < step[th] => Age(nvs[k]) = boot

\* A load has brought in every entry it has passed.
LoadInv ==
    /\ pc["main"] = "load" /\ ~skipped =>
          \A k \in Keys : k < step["main"] => ram[k] # 0 /\ (StoredLines => ram[k] = nvs[k])
    /\ TimedOutUsesStored
    /\ RunsConfigured

\* The inductive invariant.
Inv == TypeOK /\ InputInv /\ MainInv /\ StoreInv /\ LoadInv

-----------------------------------------------------------------------------
\* A load ends, with endpoints or with a restart, however many entries are
\* missing or cannot be read: unless the input task has been deleted inside an
\* NVS call, whose lock is then never given back, or the power fails.
LoadEnds ==
    \A b \in 1 .. MaxBoots :
        (boot = b /\ pc["main"] = "load" /\ nvsLock # "input")
            ~> (boot > b \/ pc["main"] \in {"run", "restart"})
=============================================================================

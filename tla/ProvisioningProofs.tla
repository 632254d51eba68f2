------------------------- MODULE ProvisioningProofs -------------------------
(***************************************************************************)
(* Proofs about Provisioning, for every number of boots and every choice   *)
(* of NVS faults: the order of the stored entries, and what the clients    *)
(* are started with.  One lemma per part of Inv, one case per action.      *)
(***************************************************************************)
EXTENDS Provisioning, TLAPS

\* A device that boots for the first time satisfies the invariant.
LEMMA InvInit == Init => Inv
<1> SUFFICES ASSUME Init
             PROVE  Inv
  OBVIOUS
<1> USE BootsAssumption DEF Init
<1>1. TypeOK
  <2>1. ram \in [Keys -> Values] /\ nvs \in [Keys -> Values] /\ stored \in [Keys -> Values]
    BY DEF Keys, Values
  <2>2. /\ pc \in [input : InputLabels, main : MainLabels]
        /\ step \in [input : Open .. Commit, main : Open .. Commit]
    BY DEF InputLabels, MainLabels, Open, Commit
  <2>3. boot \in 1 .. MaxBoots /\ nvsLock \in Threads \cup {"free"}
    BY DEF Threads
  <2> QED  BY <2>1, <2>2, <2>3 DEF TypeOK
<1>2. InputInv  BY DEF InputInv, AllTyped, Typed, Keys
<1>3. MainInv   BY DEF MainInv, AllTyped, Typed
<1>4. StoreInv  BY DEF StoreInv, StoreOrder, StoredWhole, Age, Keys, Threads
<1>5. LoadInv   BY DEF LoadInv, StoredLines, TimedOutUsesStored, RunsConfigured
<1> QED  BY <1>1, <1>2, <1>3, <1>4, <1>5 DEF Inv

\* Every step: every variable keeps its type.
LEMMA TypeStep ==
    ASSUME Inv, [Next]_vars
    PROVE  TypeOK'
<1> USE BootsAssumption DEF Inv, TypeOK, InputInv, Values, StoreInv, Age, Keys, Threads, Open, Commit, InputLabels, MainLabels, AfterPersist
<1>1. CASE TypePart
  BY <1>1 DEF TypePart
<1>2. CASE TypeLine
  BY <1>2 DEF TypeLine, GotString
<1>16. CASE TypeFull
  BY <1>16 DEF TypeFull, GotString
<1>3. CASE Give
  BY <1>3 DEF Give
<1>4. CASE SelfDelete
  BY <1>4 DEF SelfDelete
<1>5. CASE Take
  BY <1>5 DEF Take
<1>6. CASE Timeout
  BY <1>6 DEF Timeout
<1>7. CASE Kill
  BY <1>7 DEF Kill
<1>8. CASE LoadOk
  BY <1>8 DEF LoadOk, Overrun
<1>9. CASE LoadFailed
  BY <1>9 DEF LoadFailed
<1>10. CASE LoadIgnored
  BY <1>10 DEF LoadIgnored
<1>11. CASE Reboot
  <2>1. ram' \in [Keys -> Values] /\ stored' \in [Keys -> Values] /\ nvs' \in [Keys -> Values]
    BY <1>11 DEF Reboot, Booted
  <2>2. /\ pc' \in [input : InputLabels, main : MainLabels]
        /\ step' \in [input : Open .. Commit, main : Open .. Commit]
    BY <1>11 DEF Reboot, Booted
  <2>3. boot' \in 1 .. MaxBoots /\ nvsLock' = "free" /\ sem' = FALSE /\ timedOut' = FALSE /\ skipped' = FALSE
    BY <1>11 DEF Reboot, Booted
  <2>4. filled' \subseteq 1 .. boot'
    BY <1>11 DEF Reboot
  <2> QED  BY <2>1, <2>2, <2>3, <2>4
<1>12. ASSUME NEW th \in Threads, NvsEnter(th)
      PROVE  TypeOK'
  BY <1>12 DEF NvsEnter
<1>13. ASSUME NEW th \in Threads, PersistOk(th)
      PROVE  TypeOK'
  BY <1>13 DEF PersistOk
<1>14. ASSUME NEW th \in Threads, PersistFailed(th)
      PROVE  TypeOK'
  BY <1>14 DEF PersistFailed
<1>15. CASE UNCHANGED vars
  BY <1>15 DEF vars
<1> QED
  BY <1>1, <1>2, <1>3, <1>4, <1>5, <1>6, <1>7, <1>8, <1>9, <1>10, <1>11, <1>12, <1>13, <1>14, <1>15, <1>16 DEF Next, InputStep, MainStep, NvsStep

\* Every step: the lines typed so far are in memory.
LEMMA InputInvStep ==
    ASSUME Inv, [Next]_vars
    PROVE  InputInv'
<1> USE BootsAssumption DEF Inv, TypeOK, InputInv, MainInv, AllTyped, Typed, Keys, Threads, Open, Commit, InputLabels, MainLabels,
           AfterPersist
<1>1. CASE TypePart
  BY <1>1 DEF TypePart
<1>2. CASE TypeLine
  BY <1>2 DEF TypeLine, GotString
<1>16. CASE TypeFull
  BY <1>16 DEF TypeFull, GotString
<1>3. CASE Give
  BY <1>3 DEF Give
<1>4. CASE SelfDelete
  BY <1>4 DEF SelfDelete
<1>5. CASE Take
  BY <1>5 DEF Take
<1>6. CASE Timeout
  BY <1>6 DEF Timeout
<1>7. CASE Kill
  BY <1>7 DEF Kill
<1>8. CASE LoadOk
  BY <1>8 DEF LoadOk, Overrun
<1>9. CASE LoadFailed
  BY <1>9 DEF LoadFailed
<1>10. CASE LoadIgnored
  BY <1>10 DEF LoadIgnored
<1>11. CASE Reboot
  BY <1>11 DEF Reboot, Booted
<1>12. ASSUME NEW th \in Threads, NvsEnter(th)
      PROVE  InputInv'
  BY <1>12 DEF NvsEnter
<1>13. ASSUME NEW th \in Threads, PersistOk(th)
      PROVE  InputInv'
  BY <1>13 DEF PersistOk
<1>14. ASSUME NEW th \in Threads, PersistFailed(th)
      PROVE  InputInv'
  BY <1>14 DEF PersistFailed
<1>15. CASE UNCHANGED vars
  BY <1>15 DEF vars
<1> QED
  BY <1>1, <1>2, <1>3, <1>4, <1>5, <1>6, <1>7, <1>8, <1>9, <1>10, <1>11, <1>12, <1>13, <1>14, <1>15, <1>16 DEF Next, InputStep, MainStep, NvsStep

\* Every step: main is where its timeout and the semaphore say.
LEMMA MainInvStep ==
    ASSUME Inv, [Next]_vars
    PROVE  MainInv'
<1> USE BootsAssumption DEF Inv, TypeOK, InputInv, MainInv, AllTyped, Typed, Keys, Threads, Open, Commit, InputLabels, MainLabels,
           AfterPersist
<1>1. CASE TypePart
  BY <1>1 DEF TypePart
<1>2. CASE TypeLine
  BY <1>2 DEF TypeLine, GotString
<1>16. CASE TypeFull
  BY <1>16 DEF TypeFull, GotString
<1>3. CASE Give
  BY <1>3 DEF Give
<1>4. CASE SelfDelete
  BY <1>4 DEF SelfDelete
<1>5. CASE Take
  BY <1>5 DEF Take
<1>6. CASE Timeout
  BY <1>6 DEF Timeout
<1>7. CASE Kill
  BY <1>7 DEF Kill
<1>8. CASE LoadOk
  BY <1>8 DEF LoadOk, Overrun
<1>9. CASE LoadFailed
  BY <1>9 DEF LoadFailed
<1>10. CASE LoadIgnored
  BY <1>10 DEF LoadIgnored
<1>11. CASE Reboot
  BY <1>11 DEF Reboot, Booted
<1>12. ASSUME NEW th \in Threads, NvsEnter(th)
      PROVE  MainInv'
  BY <1>12 DEF NvsEnter
<1>13. ASSUME NEW th \in Threads, PersistOk(th)
      PROVE  MainInv'
  BY <1>13 DEF PersistOk
<1>14. ASSUME NEW th \in Threads, PersistFailed(th)
      PROVE  MainInv'
  BY <1>14 DEF PersistFailed
<1>15. CASE UNCHANGED vars
  BY <1>15 DEF vars
<1> QED
  BY <1>1, <1>2, <1>3, <1>4, <1>5, <1>6, <1>7, <1>8, <1>9, <1>10, <1>11, <1>12, <1>13, <1>14, <1>15, <1>16 DEF Next, InputStep, MainStep, NvsStep

\* Every step: entries stay in order.
LEMMA StoreStep ==
    ASSUME Inv, [Next]_vars
    PROVE  StoreInv'
<1> USE BootsAssumption DEF Inv, TypeOK, InputInv, MainInv, StoreInv, StoreOrder, StoredWhole, Age, AllTyped, Typed, Keys, Threads, Open, Commit,
           InputLabels, MainLabels, AfterPersist
<1>1. CASE TypePart
  BY <1>1 DEF TypePart
<1>2. CASE TypeLine
  BY <1>2 DEF TypeLine, GotString
<1>16. CASE TypeFull
  BY <1>16 DEF TypeFull, GotString
<1>3. CASE Give
  BY <1>3 DEF Give
<1>4. CASE SelfDelete
  BY <1>4 DEF SelfDelete
<1>5. CASE Take
  BY <1>5 DEF Take
<1>6. CASE Timeout
  BY <1>6 DEF Timeout
<1>7. CASE Kill
  BY <1>7 DEF Kill
<1>8. CASE LoadOk
  BY <1>8 DEF LoadOk, Overrun
<1>9. CASE LoadFailed
  BY <1>9 DEF LoadFailed
<1>10. CASE LoadIgnored
  BY <1>10 DEF LoadIgnored
<1>11. CASE Reboot
  <2>1. nvs' = nvs /\ stored' = nvs /\ filled' = filled /\ boot' = boot + 1 /\ boot \in Nat
    BY <1>11 DEF Reboot
  <2>2. \A th \in Threads : pc'[th] # "persist"
    BY <1>11 DEF Reboot, Booted
  <2>3. \A k \in Keys : nvs[k] \in Int  BY DEF Values
  <2> QED  BY <2>1, <2>2, <2>3
<1>12. ASSUME NEW th \in Threads, NvsEnter(th)
      PROVE  StoreInv'
  BY <1>12 DEF NvsEnter
<1>13. ASSUME NEW th \in Threads, PersistOk(th)
      PROVE  StoreInv'
  BY <1>13 DEF PersistOk
<1>14. ASSUME NEW th \in Threads, PersistFailed(th)
      PROVE  StoreInv'
  BY <1>14 DEF PersistFailed
<1>15. CASE UNCHANGED vars
  BY <1>15 DEF vars
<1> QED
  BY <1>1, <1>2, <1>3, <1>4, <1>5, <1>6, <1>7, <1>8, <1>9, <1>10, <1>11, <1>12, <1>13, <1>14, <1>15, <1>16 DEF Next, InputStep, MainStep, NvsStep

\* Every step: what a load has passed is in memory.
LEMMA LoadStep ==
    ASSUME Inv, [Next]_vars
    PROVE  LoadInv'
<1> USE BootsAssumption DEF Inv, TypeOK, InputInv, MainInv, StoreInv, StoredWhole, Age, LoadInv, StoredLines, TimedOutUsesStored, RunsConfigured, AllTyped, Typed,
           Keys, Threads, Open, Commit, InputLabels, MainLabels, AfterPersist
<1>1. CASE TypePart
  BY <1>1 DEF TypePart
<1>2. CASE TypeLine
  BY <1>2 DEF TypeLine, GotString
<1>16. CASE TypeFull
  BY <1>16 DEF TypeFull, GotString
<1>3. CASE Give
  BY <1>3 DEF Give
<1>4. CASE SelfDelete
  BY <1>4 DEF SelfDelete
<1>5. CASE Take
  BY <1>5 DEF Take
<1>6. CASE Timeout
  BY <1>6 DEF Timeout
<1>7. CASE Kill
  BY <1>7 DEF Kill
<1>8. CASE LoadOk
  <2> DEFINE s == step["main"]
  <2>1. /\ pc["main"] = "load" /\ pc' \in {pc, [pc EXCEPT !["main"] = "run"]}
        /\ pc'["main"] = "run" => s = Commit /\ step' = step
        /\ pc'["main"] = "load" => s # Commit /\ step'["main"] = s + 1
        /\ s \in Keys => nvs[s] # 0
        /\ nvs' = nvs /\ skipped' = skipped
    BY <1>8 DEF LoadOk
  <2>2. PICK over \in Overrun(s) :
          ram' = [k \in Keys |-> IF k = s \/ k \in over THEN nvs[s] ELSE ram[k]]
    BY <1>8 DEF LoadOk
  <2>3. s \notin Keys => over = {}  BY <2>2 DEF Overrun
  <2>4. StoredLines => over = {}  BY <2>2 DEF Overrun, Values
  <2>5. \A k \in Keys : k = s => ram'[k] = nvs[k] /\ nvs[k] # 0
    BY <2>1, <2>2
  <2>6. \A k \in Keys : k # s => ram'[k] = ram[k] \/ (ram'[k] = nvs[s] /\ nvs[s] # 0)
    BY <2>1, <2>2, <2>3
  <2>7. StoredLines => \A k \in Keys : k # s => ram'[k] = ram[k]
    BY <2>2, <2>4
  <2>8. s \in 0 .. 4  OBVIOUS
  <2>9. ~skipped => \A k \in Keys : k <= s => ram'[k] # 0 /\ (StoredLines => ram'[k] = nvs[k])
    <3> SUFFICES ASSUME ~skipped, NEW k \in Keys, k <= s
                 PROVE  ram'[k] # 0 /\ (StoredLines => ram'[k] = nvs[k])
      OBVIOUS
    <3>1. CASE k = s  BY <3>1, <2>5
    <3>2. CASE k # s
      <4>1. k < s  BY <3>2, <2>8
      <4>2. ram[k] # 0 /\ (StoredLines => ram[k] = nvs[k])  BY <4>1, <2>1
      <4> QED  BY <4>2, <2>6, <2>7, <3>2
    <3> QED  BY <3>1, <3>2
  <2>10. CASE pc'["main"] = "load"
    BY <2>1, <2>9, <2>10, <2>8
  <2>11. CASE pc'["main"] = "run"
    <3>1. s = Commit  BY <2>1, <2>11
    <3>2. ~skipped => \A k \in Keys : ram'[k] # 0 /\ (StoredLines => ram'[k] = nvs[k])
      BY <2>9, <3>1
    <3>3. ram' = [k \in Keys |-> ram'[k]]  BY <2>2
    <3>4. nvs = [k \in Keys |-> nvs[k]]  OBVIOUS
    <3>5. ~skipped /\ StoredLines => ram' = nvs  BY <3>2, <3>3, <3>4
    <3> QED  BY <2>1, <2>11, <3>2, <3>5
  <2> QED  BY <2>1, <2>10, <2>11
<1>9. CASE LoadFailed
  BY <1>9 DEF LoadFailed
<1>10. CASE LoadIgnored
  BY <1>10 DEF LoadIgnored
<1>11. CASE Reboot
  BY <1>11 DEF Reboot, Booted
<1>12. ASSUME NEW th \in Threads, NvsEnter(th)
      PROVE  LoadInv'
  BY <1>12 DEF NvsEnter
<1>13. ASSUME NEW th \in Threads, PersistOk(th)
      PROVE  LoadInv'
  BY <1>13 DEF PersistOk
<1>14. ASSUME NEW th \in Threads, PersistFailed(th)
      PROVE  LoadInv'
  BY <1>14 DEF PersistFailed
<1>15. CASE UNCHANGED vars
  BY <1>15 DEF vars
<1> QED
  BY <1>1, <1>2, <1>3, <1>4, <1>5, <1>6, <1>7, <1>8, <1>9, <1>10, <1>11, <1>12, <1>13, <1>14, <1>15, <1>16 DEF Next, InputStep, MainStep, NvsStep

LEMMA InvStep == Inv /\ [Next]_vars => Inv'
<1> SUFFICES ASSUME Inv, [Next]_vars
             PROVE  Inv'
  OBVIOUS
<1> QED  BY TypeStep, InputInvStep, MainInvStep, StoreStep, LoadStep DEF Inv

\* The inductive invariant holds in every behaviour of the device.
THEOREM InvHolds == Spec => []Inv
BY InvInit, InvStep, PTL DEF Spec

\* persist_endpoints() writes broker, server and node in this order and stops
\* at the first failure, so that over any number of boots, failures, timeouts
\* and losses of power no entry is newer than the one before it.
THEOREM StoreOrderHolds == Spec => []StoreOrder
<1>1. Inv => StoreOrder  BY DEF Inv, StoreInv
<1> QED  BY <1>1, InvHolds, PTL

\* However boots are cut short, whatever is stored that is not the line typed
\* for its entry was typed at a boot at which a line filled its array.
THEOREM StoredWholeHolds == Spec => []StoredWhole
<1>1. Inv => StoredWhole  BY DEF Inv, StoreInv
<1> QED  BY <1>1, InvHolds, PTL

\* Lines given in time are the ones the clients are started with, whatever
\* NVS holds, unless one of them has filled its array.
THEOREM InTimeHolds == Spec => []InTimeUsesInput
<1>1. Inv => InTimeUsesInput  BY DEF Inv, MainInv, InTimeUsesInput
<1> QED  BY <1>1, InvHolds, PTL

\* After a timeout the clients are started with what NVS holds, and all of it
\* has been typed by somebody, unless a read failed and was passed over or, for
\* the first part, NVS holds more than whole lines.
THEOREM TimedOutHolds == Spec => [](TimedOutUsesStored /\ RunsConfigured)
<1>1. Inv => TimedOutUsesStored /\ RunsConfigured  BY DEF Inv, LoadInv
<1> QED  BY <1>1, InvHolds, PTL

\* After a timeout the clients never run on a new endpoint behind an old one.
THEOREM LoadsPreviousOrNewHolds == Spec => []LoadsPreviousOrNew
<1>1. Inv => LoadsPreviousOrNew
  <2> SUFFICES ASSUME Inv, pc["main"] = "run", timedOut, ~skipped,
                      StoredLines, NEW k \in Keys
               PROVE  /\ ram[k] \in {stored[k], boot}
                      /\ ram[k] = boot => \A j \in 1 .. k : ram[j] = boot
    BY DEF LoadsPreviousOrNew
  <2>1. ram = nvs  BY DEF Inv, LoadInv, TimedOutUsesStored
  <2>2. boot \in Nat \ {0} /\ \A j \in Keys : nvs[j] \in Int
    BY BootsAssumption DEF Inv, TypeOK, Values
  <2>3. \A j \in Keys : nvs[j] \in 0 .. boot /\ nvs[j] \in {stored[j], boot}
    BY <2>2 DEF Inv, StoreInv, StoredLines, Age
  <2>4. \A j \in Keys : j < k => nvs[k] <= nvs[j]
    BY <2>2 DEF Inv, StoreInv, StoreOrder, StoredLines, Age
  <2> QED  BY <2>1, <2>2, <2>3, <2>4 DEF Keys
<1> QED  BY <1>1, InvHolds, PTL
=============================================================================

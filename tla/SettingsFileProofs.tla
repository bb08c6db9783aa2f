-------------------------- MODULE SettingsFileProofs --------------------------
(***************************************************************************)
(* Proofs about SettingsFile, for any number of savers and saves and any   *)
(* size of the document.                                                   *)
(***************************************************************************)
EXTENDS SettingsFile, TLAPS

(* The order of the calls: nothing reaches fsync that is not complete, and *)
(* nothing reaches rename that is not on stable storage.                   *)
Ordered ==
  \A s \in Savers :
    /\ pc[s] \in {"fsync", "close", "rename"} => temp[s].len = Size
    /\ pc[s] \in {"close", "rename"} => temp[s].safe = Size

(* What the name refers to has been flushed, not only written.             *)
Flushed == Whole(path) /\ Whole(disk) /\ path.safe = Size /\ disk.safe = Size

(* Every call has a document of its own, not installed before its rename.  *)
OwnDocument ==
  /\ \A s \in Savers : pc[s] # "idle" => doc[s] # 0 /\ doc[s] \notin installed
  /\ \A s, t \in Savers : s # t /\ doc[s] = doc[t] => doc[s] = 0

(* The descriptor that is still to be closed.                              *)
Descriptors ==
  \A s \in Savers :
    /\ fd[s] => pc[s] \in {"write", "fsync", "close", "fail"}
    /\ pc[s] \in {"write", "fsync", "close"} => fd[s]
    /\ fd[s] => opened[s] = 1 /\ closes[s] = 0
    /\ ~fd[s] => closes[s] = opened[s]
    /\ pc[s] = "mkstemp" => opened[s] = 0

IInv == TypeOK /\ Ordered /\ Flushed /\ OwnDocument /\ ResultIsHonest /\ Descriptors

LEMMA InitIInv == Init => IInv
BY FileAssumption DEF Init, IInv, TypeOK, Ordered, Flushed, OwnDocument, ResultIsHonest, Descriptors,
  Files, File, NoFile, Steps, Whole

LEMMA TypeStep == ASSUME TypeOK, OwnDocument, [Next]_vars PROVE TypeOK'
<1> USE FileAssumption DEF TypeOK
<1>1. ASSUME NEW s \in Savers, Begin(s) PROVE TypeOK'
  BY <1>1 DEF Begin, Step, Steps
<1>2. ASSUME NEW s \in Savers, Mkstemp(s) PROVE TypeOK'
  <2>1. /\ pc' \in [Savers -> Steps]
        /\ fd' \in [Savers -> BOOLEAN]
        /\ opened' \in [Savers -> 0..1]
        /\ answer' \in [Savers -> {"none", "saved", "failed"}]
    <3>1. pc' \in [Savers -> Steps]
      BY <1>2 DEF Mkstemp, Step, Steps
    <3>2. fd' \in [Savers -> BOOLEAN]
      BY <1>2 DEF Mkstemp
    <3>3. opened' \in [Savers -> 0..1]
      BY <1>2 DEF Mkstemp
    <3>4. answer' \in [Savers -> {"none", "saved", "failed"}]
      BY <1>2 DEF Mkstemp
    <3> QED BY <3>1, <3>2, <3>3, <3>4
  <2>2. temp' \in [Savers -> Files]
    <3>1. File(doc[s], 0, 0) \in Files
      BY DEF File, Files
    <3> QED BY <1>2, <3>1 DEF Mkstemp
  <2>3. \A t \in Savers : pc'[t] \in {"idle", "mkstemp"} => temp'[t] = NoFile
    BY <1>2 DEF Mkstemp, Step
  <2> QED BY <1>2, <2>1, <2>2, <2>3 DEF Mkstemp
<1>3. ASSUME NEW s \in Savers, Write(s) PROVE TypeOK'
  <2>1. pc' \in [Savers -> Steps]
    BY <1>3 DEF Write, Step, Steps
  <2>2. temp' \in [Savers -> Files]
    <3>1. ASSUME NEW n \in 1..Size - temp[s].len, temp' = [temp EXCEPT ![s].len = @ + n]
          PROVE  temp' \in [Savers -> Files]
      <4>1. temp[s] \in Files /\ temp[s].len + n \in 0..Size
        BY DEF Files
      <4>2. [temp[s] EXCEPT !.len = @ + n] \in Files
        BY <4>1 DEF Files
      <4> QED BY <3>1, <4>2
    <3> QED BY <1>3, <3>1 DEF Write
  <2>3. \A t \in Savers : pc'[t] \in {"idle", "mkstemp"} => temp'[t] = NoFile
    <3>1. pc[s] = "write" /\ pc'[s] \notin {"idle", "mkstemp"}
      BY <1>3 DEF Write, Step
    <3>2. \A t \in Savers \ {s} : pc'[t] = pc[t] /\ temp'[t] = temp[t]
      BY <1>3 DEF Write, Step
    <3> QED BY <3>1, <3>2
  <2> QED BY <1>3, <2>1, <2>2, <2>3 DEF Write
<1>4. ASSUME NEW s \in Savers, Fsync(s) PROVE TypeOK'
  <2>1. pc' \in [Savers -> Steps]
    BY <1>4 DEF Fsync, Step, Steps
  <2>2. [temp[s] EXCEPT !.safe = temp[s].len] \in Files
    BY DEF Files
  <2>3. temp' \in [Savers -> Files]
    BY <1>4, <2>2 DEF Fsync
  <2>4. \A t \in Savers : pc'[t] \in {"idle", "mkstemp"} => temp'[t] = NoFile
    <3>1. pc'[s] \notin {"idle", "mkstemp"}
      BY <1>4 DEF Fsync, Step
    <3>2. \A t \in Savers \ {s} : pc'[t] = pc[t] /\ temp'[t] = temp[t]
      BY <1>4 DEF Fsync, Step
    <3> QED BY <3>1, <3>2
  <2> QED BY <1>4, <2>1, <2>3, <2>4 DEF Fsync
<1>5. ASSUME NEW s \in Savers, Close(s) PROVE TypeOK'
  <2>1. pc' \in [Savers -> Steps]
    BY <1>5 DEF Close, Step, Steps
  <2>2. fd' \in [Savers -> BOOLEAN] /\ closes' \in [Savers -> Nat]
    BY <1>5 DEF Close
  <2>3. \A t \in Savers : pc'[t] \in {"idle", "mkstemp"} => pc[t] \in {"idle", "mkstemp"}
    BY <1>5 DEF Close, Step
  <2> QED BY <1>5, <2>1, <2>2, <2>3 DEF Close
<1>6. ASSUME NEW s \in Savers, Rename(s) PROVE TypeOK'
  <2>1. pc' \in [Savers -> Steps] /\ answer' \in [Savers -> {"none", "saved", "failed"}]
    BY <1>6 DEF Rename, Step, Steps
  <2>2. path' \in Files /\ temp' \in [Savers -> Files]
    <3>1. NoFile \in Files
      BY DEF NoFile, File, Files
    <3>2. path' \in Files
      BY <1>6 DEF Rename
    <3>3. temp' \in [Savers -> Files]
      BY <1>6, <3>1 DEF Rename
    <3> QED BY <3>2, <3>3
  <2>3. doc[s] \in 1..docs
    BY <1>6 DEF Rename, Step, OwnDocument
  <2>4. installed' \in SUBSET (1..docs)
    BY <1>6, <2>3 DEF Rename
  <2>5. \A t \in Savers : pc'[t] \in {"idle", "mkstemp"} => temp'[t] = NoFile
    BY <1>6 DEF Rename, Step
  <2> QED BY <1>6, <2>1, <2>2, <2>4, <2>5 DEF Rename
<1>7. ASSUME NEW s \in Savers, Fail(s) PROVE TypeOK'
  BY <1>7 DEF Fail, Step, Steps, NoFile, File, Files
<1>8. ASSUME NEW dead \in SUBSET Savers, Kill(dead), path' \in Files, disk' \in Files PROVE TypeOK'
  <2>1. pc' \in [Savers -> Steps] /\ answer' \in [Savers -> {"none", "saved", "failed"}]
    BY <1>8 DEF Kill, Steps
  <2>2. temp' \in [Savers -> Files]
    BY <1>8 DEF Kill, NoFile, File, Files
  <2>3. fd' \in [Savers -> BOOLEAN] /\ opened' \in [Savers -> 0..1] /\ closes' \in [Savers -> Nat]
    <3>1. fd' \in [Savers -> BOOLEAN]
      BY <1>8 DEF Kill
    <3>2. opened' \in [Savers -> 0..1]
      BY <1>8 DEF Kill
    <3>3. closes' \in [Savers -> Nat]
      BY <1>8 DEF Kill
    <3> QED BY <3>1, <3>2, <3>3
  <2>4. \A t \in Savers : pc'[t] \in {"idle", "mkstemp"} => temp'[t] = NoFile
    BY <1>8 DEF Kill
  <2> QED BY <1>8, <2>1, <2>2, <2>3, <2>4 DEF Kill
<1>9. CASE FlushDirectory
  BY <1>9 DEF FlushDirectory, call
<1>10. CASE PowerLoss
  <2>1. path' \in Files /\ disk' \in Files
    BY <1>10 DEF PowerLoss, File, Files
  <2> QED BY <1>8, <1>10, <2>1 DEF PowerLoss
<1>11. CASE UNCHANGED vars
  BY <1>11 DEF vars, call
<1>12. ASSUME NEW s \in Savers, Crash(s) PROVE TypeOK'
  BY <1>8, <1>12 DEF Crash
<1> QED BY <1>1, <1>2, <1>3, <1>4, <1>5, <1>6, <1>7, <1>9, <1>10, <1>11, <1>12 DEF Next, SaveSettings

LEMMA OrderedStep == ASSUME TypeOK, Ordered, [Next]_vars PROVE Ordered'
<1> USE FileAssumption DEF Step
<1>1. ASSUME NEW s \in Savers, SaveSettings(s) PROVE Ordered'
  <2> SUFFICES ASSUME NEW t \in Savers
               PROVE  /\ pc'[t] \in {"fsync", "close", "rename"} => temp'[t].len = Size
                      /\ pc'[t] \in {"close", "rename"} => temp'[t].safe = Size
    BY DEF Ordered
  <2>1. CASE t # s
    <3>1. pc'[t] = pc[t] /\ temp'[t] = temp[t]
      BY <1>1, <2>1 DEF SaveSettings, Begin, Mkstemp, Write, Fsync, Close, Rename, Fail, TypeOK
    <3> QED BY <3>1 DEF Ordered
  <2>2. CASE t = s
    <3>1. CASE Begin(s) \/ Mkstemp(s) \/ Fail(s)
      BY <2>2, <3>1 DEF Begin, Mkstemp, Fail, TypeOK
    <3>2. CASE Write(s)
      BY <2>2, <3>2 DEF Write, TypeOK
    <3>3. CASE Fsync(s)
      BY <2>2, <3>3 DEF Fsync, TypeOK, Ordered, Files
    <3>4. CASE Close(s)
      BY <2>2, <3>4 DEF Close, TypeOK, Ordered
    <3>5. CASE Rename(s)
      BY <2>2, <3>5 DEF Rename, TypeOK, Ordered
    <3> QED BY <1>1, <3>1, <3>2, <3>3, <3>4, <3>5 DEF SaveSettings
  <2> QED BY <2>1, <2>2
<1>2. ASSUME NEW dead \in SUBSET Savers, Kill(dead) PROVE Ordered'
  BY <1>2 DEF Kill, Ordered, TypeOK
<1>3. CASE FlushDirectory \/ UNCHANGED vars
  BY <1>3 DEF FlushDirectory, vars, call, Ordered
<1> QED BY <1>1, <1>2, <1>3 DEF Next, Crash, PowerLoss

LEMMA FlushedStep == ASSUME TypeOK, Ordered, Flushed, [Next]_vars PROVE Flushed'
<1> USE FileAssumption DEF Flushed, Whole
<1>1. ASSUME NEW s \in Savers, Rename(s) PROVE Flushed'
  BY <1>1 DEF Rename, Step, Ordered
<1>2. ASSUME NEW s \in Savers, SaveSettings(s), ~Rename(s) PROVE Flushed'
  BY <1>2 DEF SaveSettings, Begin, Mkstemp, Write, Fsync, Close, Fail
<1>3. CASE PowerLoss
  BY <1>3 DEF PowerLoss, File
<1>4. CASE FlushDirectory \/ UNCHANGED vars
  BY <1>4 DEF FlushDirectory, vars
<1>5. ASSUME NEW s \in Savers, Crash(s) PROVE Flushed'
  BY <1>5 DEF Crash
<1> QED BY <1>1, <1>2, <1>3, <1>4, <1>5 DEF Next

LEMMA HonestStep ==
  ASSUME TypeOK, OwnDocument, ResultIsHonest, [Next]_vars
  PROVE  OwnDocument' /\ ResultIsHonest'
<1> USE DEF OwnDocument, ResultIsHonest
<1>1. ASSUME NEW s \in Savers, Begin(s) PROVE OwnDocument' /\ ResultIsHonest'
  <2>1. /\ docs + 1 # 0 /\ docs + 1 \notin installed
        /\ \A t \in Savers : doc[t] # docs + 1
    BY DEF TypeOK
  <2>2. /\ doc'[s] = docs + 1 /\ answer'[s] = "none" /\ installed' = installed
        /\ \A t \in Savers \ {s} : doc'[t] = doc[t] /\ pc'[t] = pc[t] /\ answer'[t] = answer[t]
    BY <1>1 DEF Begin, Step, TypeOK
  <2> QED BY <2>1, <2>2
<1>2. ASSUME NEW s \in Savers, Rename(s) PROVE OwnDocument' /\ ResultIsHonest'
  <2>1. CASE pc'[s] = "idle"
    <3>1. /\ installed' = installed \cup {doc[s]} /\ answer'[s] = "saved" /\ doc' = doc
          /\ \A t \in Savers \ {s} : pc'[t] = pc[t] /\ answer'[t] = answer[t]
      BY <1>2, <2>1 DEF Rename, Step, TypeOK
    <3>2. \A t \in Savers \ {s} : doc[t] # doc[s]
      BY <1>2 DEF Rename, Step
    <3> QED BY <2>1, <3>1, <3>2
  <2>2. CASE pc'[s] # "idle"
    <3>1. UNCHANGED <<installed, answer, doc>> /\ \A t \in Savers : pc'[t] = "idle" <=> pc[t] = "idle"
      BY <1>2, <2>2 DEF Rename, Step, TypeOK
    <3> QED BY <3>1
  <2> QED BY <2>1, <2>2
<1>3. ASSUME NEW s \in Savers, Mkstemp(s) \/ Fail(s) PROVE OwnDocument' /\ ResultIsHonest'
  <2>1. /\ UNCHANGED <<installed, doc>>
        /\ answer'[s] = answer[s] \/ answer'[s] = "failed"
        /\ pc[s] # "idle"
        /\ \A t \in Savers \ {s} : pc'[t] = pc[t] /\ answer'[t] = answer[t]
    BY <1>3 DEF Mkstemp, Fail, Step, TypeOK
  <2> QED BY <2>1
<1>4. ASSUME NEW s \in Savers, Write(s) \/ Fsync(s) \/ Close(s) PROVE OwnDocument' /\ ResultIsHonest'
  <2>1. UNCHANGED <<installed, doc, answer>> /\ \A t \in Savers : pc'[t] = "idle" <=> pc[t] = "idle"
    BY <1>4 DEF Write, Fsync, Close, Step, TypeOK
  <2> QED BY <2>1
<1>5. ASSUME NEW dead \in SUBSET Savers, Kill(dead) PROVE OwnDocument' /\ ResultIsHonest'
  BY <1>5 DEF Kill, TypeOK
<1>6. CASE FlushDirectory \/ UNCHANGED vars
  BY <1>6 DEF FlushDirectory, vars, call
<1> QED BY <1>1, <1>2, <1>3, <1>4, <1>5, <1>6 DEF Next, SaveSettings, Crash, PowerLoss

LEMMA DescriptorsStep == ASSUME TypeOK, Descriptors, [Next]_vars PROVE Descriptors'
<1> USE DEF Step
<1>1. ASSUME NEW s \in Savers, SaveSettings(s) PROVE Descriptors'
  <2> DEFINE Owned(t) == /\ fd[t] => pc[t] \in {"write", "fsync", "close", "fail"}
                         /\ pc[t] \in {"write", "fsync", "close"} => fd[t]
                         /\ fd[t] => opened[t] = 1 /\ closes[t] = 0
                         /\ ~fd[t] => closes[t] = opened[t]
                         /\ pc[t] = "mkstemp" => opened[t] = 0
  <2>1. \A t \in Savers \ {s} : /\ pc'[t] = pc[t] /\ fd'[t] = fd[t]
                                /\ opened'[t] = opened[t] /\ closes'[t] = closes[t]
    BY <1>1 DEF SaveSettings, Begin, Mkstemp, Write, Fsync, Close, Rename, Fail, TypeOK
  <2>2. Owned(s)'
    <3>0. Owned(s)
      BY DEF Descriptors
    <3>1. CASE Begin(s)
      BY <3>0, <3>1 DEF Begin, TypeOK
    <3>2. CASE Mkstemp(s)
      BY <3>0, <3>2 DEF Mkstemp, TypeOK
    <3>3. CASE Write(s) \/ Fsync(s)
      BY <3>0, <3>3 DEF Write, Fsync, TypeOK
    <3>4. CASE Close(s)
      BY <3>0, <3>4 DEF Close, TypeOK
    <3>5. CASE Rename(s)
      BY <3>0, <3>5 DEF Rename, TypeOK
    <3>6. CASE Fail(s)
      BY <3>0, <3>6 DEF Fail, TypeOK
    <3> QED BY <1>1, <3>1, <3>2, <3>3, <3>4, <3>5, <3>6 DEF SaveSettings
  <2>3. \A t \in Savers : Owned(t)'
    BY <2>1, <2>2 DEF Descriptors
  <2> QED BY <2>3 DEF Descriptors
<1>2. ASSUME NEW dead \in SUBSET Savers, Kill(dead) PROVE Descriptors'
  BY <1>2 DEF Kill, Descriptors, TypeOK
<1>3. CASE FlushDirectory \/ UNCHANGED vars
  BY <1>3 DEF FlushDirectory, vars, call, Descriptors
<1> QED BY <1>1, <1>2, <1>3 DEF Next, Crash, PowerLoss

LEMMA NextIInv == IInv /\ [Next]_vars => IInv'
BY TypeStep, OrderedStep, FlushedStep, HonestStep, DescriptorsStep DEF IInv

LEMMA Invariance == Spec => []IInv
BY InitIInv, NextIInv, PTL DEF Spec

(* Types, and no temporary file survives the call that made it.            *)
THEOREM TypeCorrect == Spec => []TypeOK
BY Invariance, PTL DEF IInv

(* The path and its stable copy always hold one whole document.            *)
THEOREM PathAlwaysWhole == Spec => []PathIsWhole
<1>1. IInv => PathIsWhole
  BY DEF IInv, Flushed, PathIsWhole
<1> QED BY <1>1, Invariance, PTL

(* A save that returns true has replaced the file, one that returns false  *)
(* has not.                                                                *)
THEOREM ResultAlwaysHonest == Spec => []ResultIsHonest
BY Invariance, PTL DEF IInv

(* Every descriptor is closed once on every path.                          *)
THEOREM CallsCleanUp == Spec => []CallCleansUp
<1>1. ASSUME IInv PROVE CallCleansUp
  <2> SUFFICES ASSUME NEW s \in Savers
               PROVE  /\ closes[s] <= opened[s]
                      /\ pc[s] = "idle" => closes[s] = opened[s] /\ temp[s] = NoFile
    BY DEF CallCleansUp
  <2>1. closes[s] \in Nat /\ opened[s] \in Nat
    BY <1>1 DEF IInv, TypeOK
  <2>2. closes[s] = opened[s] \/ (pc[s] # "idle" /\ opened[s] = 1 /\ closes[s] = 0)
    BY <1>1 DEF IInv, Descriptors
  <2>3. pc[s] = "idle" => temp[s] = NoFile
    BY <1>1 DEF IInv, TypeOK
  <2> QED BY <2>1, <2>2, <2>3
<1> QED BY <1>1, Invariance, PTL

LEMMA StepImplements == IInv /\ IInv' /\ [Next]_vars => [Atomic!Next]_(Atomic!vars)
<1> SUFFICES ASSUME IInv, IInv', [Next]_vars PROVE [Atomic!Next]_(Atomic!vars)
  OBVIOUS
<1>1. Value(path) = path.doc /\ Value(disk) = disk.doc
  BY DEF IInv, Flushed, Value
<1>2. Value(path)' = path'.doc /\ Value(disk)' = disk'.doc /\ path'.doc \in Nat
  BY DEF IInv, Flushed, Value, Whole, TypeOK, Files
<1>3. ASSUME NEW s \in Savers, Rename(s) PROVE Atomic!Replace
  BY <1>1, <1>2, <1>3 DEF Rename, Atomic!Replace
<1>4. ASSUME NEW s \in Savers, SaveSettings(s), ~Rename(s) PROVE UNCHANGED <<path, disk>>
  BY <1>4 DEF SaveSettings, Begin, Mkstemp, Write, Fsync, Close, Fail
<1>5. CASE PowerLoss
  BY <1>1, <1>2, <1>5 DEF PowerLoss, File, Atomic!Next, Atomic!Lose
<1>6. CASE FlushDirectory
  BY <1>1, <1>2, <1>6 DEF FlushDirectory, Atomic!Next, Atomic!Settle
<1>7. ASSUME NEW s \in Savers, Crash(s) PROVE UNCHANGED <<path, disk>>
  BY <1>7 DEF Crash
<1>8. UNCHANGED <<path, disk>> => UNCHANGED Atomic!vars
  BY DEF Value, Whole, Atomic!vars
<1> QED BY <1>3, <1>4, <1>5, <1>6, <1>7, <1>8 DEF Next, vars, Atomic!Next

(* The writer implements the file that is replaced in one step.            *)
THEOREM WriterImplementsAtomicFile == Spec => ImplementsAtomicFile
<1>1. Init => Atomic!Init
  BY FileAssumption DEF Init, Value, Whole, File, Atomic!Init
<1> QED BY <1>1, InitIInv, NextIInv, StepImplements, PTL DEF Spec, ImplementsAtomicFile, Atomic!Spec
===============================================================================

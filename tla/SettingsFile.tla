----------------------------- MODULE SettingsFile -----------------------------
(***************************************************************************)
(* The writing half of ClientManager::save_settings: a document goes to a  *)
(* temporary file of its own, is written piece by piece, flushed, closed   *)
(* and renamed over the destination; every failure removes the temporary   *)
(* file and returns false.  Savers are processes that use the same path    *)
(* (within a process the control mutex admits one save at a time).  A      *)
(* process may be killed and the machine may lose power at any moment.     *)
(*                                                                         *)
(* A document is its number.  A file knows how many units of its document  *)
(* have been written and how many of those are on stable storage.          *)
(***************************************************************************)
EXTENDS Integers

CONSTANTS Savers,
          Size,      \* units of a document that one write() may transfer
          MaxSaves   \* bound: calls of save_settings

ASSUME FileAssumption == Size \in Nat \ {0} /\ MaxSaves \in Nat

VARIABLES
  path, disk,      \* the file that the name refers to: now, and on stable storage
  pc, doc, answer, \* step, document and last result of each saver
  temp,            \* its temporary file
  fd,              \* the local variable: TRUE is fd >= 0
  opened, closes,  \* descriptors that the last call obtained; calls of close
  docs,            \* history: documents so far
  installed        \* history: documents that were renamed over the path

call == <<pc, doc, answer, temp, fd, opened, closes>>
vars == <<path, disk, call, docs, installed>>

File(d, len, safe) == [doc |-> d, len |-> len, safe |-> safe]
NoFile == File(0, 0, 0)

(* An earlier run of the program has left document 0.                      *)
Init ==
  /\ path = File(0, Size, Size) /\ disk = path
  /\ pc = [s \in Savers |-> "idle"]
  /\ doc = [s \in Savers |-> 0]
  /\ answer = [s \in Savers |-> "none"]
  /\ temp = [s \in Savers |-> NoFile]
  /\ fd = [s \in Savers |-> FALSE]
  /\ opened = [s \in Savers |-> 0] /\ closes = [s \in Savers |-> 0]
  /\ docs = 0 /\ installed = {}

-------------------------------------------------------------------------------
Step(s, from, to) == pc[s] = from /\ pc' = [pc EXCEPT ![s] = to]

(* The configuration is serialised: a new document.                        *)
Begin(s) ==
  /\ docs < MaxSaves /\ docs' = docs + 1
  /\ Step(s, "idle", "mkstemp")
  /\ doc' = [doc EXCEPT ![s] = docs + 1]
  /\ answer' = [answer EXCEPT ![s] = "none"]
  /\ opened' = [opened EXCEPT ![s] = 0] /\ closes' = [closes EXCEPT ![s] = 0]
  /\ UNCHANGED <<path, disk, temp, fd, installed>>

(* The name is unique, so the file is the saver's own.  A failure here, or *)
(* an exception while the text is made, returns false with nothing open.   *)
Mkstemp(s) ==
  /\ \/ /\ Step(s, "mkstemp", "write")
        /\ temp' = [temp EXCEPT ![s] = File(doc[s], 0, 0)]
        /\ fd' = [fd EXCEPT ![s] = TRUE]
        /\ opened' = [opened EXCEPT ![s] = 1]
        /\ UNCHANGED answer
     \/ /\ Step(s, "mkstemp", "idle")
        /\ answer' = [answer EXCEPT ![s] = "failed"]
        /\ UNCHANGED <<temp, fd, opened>>
  /\ UNCHANGED <<path, disk, doc, closes, docs, installed>>

(* Mutant: one write() is taken to be enough.                              *)
WriteOnce(s) ==
  /\ \/ /\ Step(s, "write", "fsync")
        /\ \E n \in 1..Size : temp' = [temp EXCEPT ![s].len = n]
     \/ Step(s, "write", "fail") /\ UNCHANGED temp
  /\ UNCHANGED <<path, disk, doc, answer, fd, opened, closes, docs, installed>>

(* The loop: short writes go round again (as does EINTR, which changes     *)
(* nothing), an error throws.                                              *)
Write(s) ==
  /\ \/ /\ \E n \in 1..Size - temp[s].len : temp' = [temp EXCEPT ![s].len = @ + n]
        /\ Step(s, "write", IF temp'[s].len = Size THEN "fsync" ELSE "write")
     \/ Step(s, "write", "fail") /\ UNCHANGED temp
  /\ UNCHANGED <<path, disk, doc, answer, fd, opened, closes, docs, installed>>

(* Mutant: the result of fsync is not looked at.                           *)
FsyncUnchecked(s) ==
  /\ Step(s, "fsync", "close")
  /\ temp' = [temp EXCEPT ![s].safe = Size] \/ UNCHANGED temp
  /\ UNCHANGED <<path, disk, doc, answer, fd, opened, closes, docs, installed>>

Fsync(s) ==
  /\ \/ Step(s, "fsync", "close") /\ temp' = [temp EXCEPT ![s].safe = temp[s].len]
     \/ Step(s, "fsync", "fail") /\ UNCHANGED temp
  /\ UNCHANGED <<path, disk, doc, answer, fd, opened, closes, docs, installed>>

(* Mutant: fd is kept after a close that fails.                            *)
CloseKeepingFd(s) ==
  /\ \/ Step(s, "close", "rename") /\ fd' = [fd EXCEPT ![s] = FALSE]
     \/ Step(s, "close", "fail") /\ UNCHANGED fd
  /\ closes' = [closes EXCEPT ![s] = @ + 1]
  /\ UNCHANGED <<path, disk, doc, answer, temp, opened, docs, installed>>

(* The descriptor is gone even if close reports an error.                  *)
Close(s) ==
  /\ Step(s, "close", "rename") \/ Step(s, "close", "fail")
  /\ fd' = [fd EXCEPT ![s] = FALSE]
  /\ closes' = [closes EXCEPT ![s] = @ + 1]
  /\ UNCHANGED <<path, disk, doc, answer, temp, opened, docs, installed>>

(* Mutant: the result of rename is not looked at.                          *)
RenameUnchecked(s) ==
  /\ Step(s, "rename", "idle")
  /\ answer' = [answer EXCEPT ![s] = "saved"]
  /\ temp' = [temp EXCEPT ![s] = NoFile]
  /\ \/ path' = temp[s] /\ installed' = installed \cup {doc[s]}
     \/ UNCHANGED <<path, installed>>
  /\ UNCHANGED <<disk, doc, fd, opened, closes, docs>>

Rename(s) ==
  /\ \/ /\ Step(s, "rename", "idle")
        /\ path' = temp[s]
        /\ temp' = [temp EXCEPT ![s] = NoFile]
        /\ installed' = installed \cup {doc[s]}
        /\ answer' = [answer EXCEPT ![s] = "saved"]
     \/ /\ Step(s, "rename", "fail")
        /\ UNCHANGED <<path, temp, installed, answer>>
  /\ UNCHANGED <<disk, doc, fd, opened, closes, docs>>

(* The catch block.                                                        *)
Fail(s) ==
  /\ Step(s, "fail", "idle")
  /\ closes' = [closes EXCEPT ![s] = IF fd[s] THEN @ + 1 ELSE @]
  /\ fd' = [fd EXCEPT ![s] = FALSE]
  /\ temp' = [temp EXCEPT ![s] = NoFile]
  /\ answer' = [answer EXCEPT ![s] = "failed"]
  /\ UNCHANGED <<path, disk, doc, opened, docs, installed>>

SaveSettings(s) == \/ Begin(s) \/ Mkstemp(s) \/ Write(s) \/ Fsync(s)
                   \/ Close(s) \/ Rename(s) \/ Fail(s)

-------------------------------------------------------------------------------
(* The environment.  A killed process leaves its temporary file behind     *)
(* under a name that nobody reads; the kernel closes its descriptors.      *)

Kill(dead) ==
  /\ pc' = [s \in Savers |-> IF s \in dead THEN "idle" ELSE pc[s]]
  /\ answer' = [s \in Savers |-> IF s \in dead THEN "none" ELSE answer[s]]
  /\ temp' = [s \in Savers |-> IF s \in dead THEN NoFile ELSE temp[s]]
  /\ fd' = [s \in Savers |-> IF s \in dead THEN FALSE ELSE fd[s]]
  /\ opened' = [s \in Savers |-> IF s \in dead THEN 0 ELSE opened[s]]
  /\ closes' = [s \in Savers |-> IF s \in dead THEN 0 ELSE closes[s]]
  /\ UNCHANGED <<doc, docs, installed>>

Crash(s) == Kill({s}) /\ UNCHANGED <<path, disk>>

(* The system writes the directory back when it likes.                     *)
FlushDirectory == disk' = path /\ UNCHANGED <<path, call, docs, installed>>

(* What is not on stable storage may be lost, the name included.           *)
PowerLoss ==
  /\ Kill(Savers)
  /\ \E n \in disk.safe..disk.len : path' = File(disk.doc, n, n)
  /\ disk' = path'

-------------------------------------------------------------------------------
Next == \/ \E s \in Savers : SaveSettings(s) \/ Crash(s)
        \/ FlushDirectory \/ PowerLoss

Spec == Init /\ [][Next]_vars

-------------------------------------------------------------------------------
Steps == {"idle", "mkstemp", "write", "fsync", "close", "rename", "fail"}
Files == [doc : Nat, len : 0..Size, safe : 0..Size]

(* Types; a call has a temporary file only between mkstemp and its return. *)
TypeOK ==
  /\ path \in Files /\ disk \in Files
  /\ pc \in [Savers -> Steps]
  /\ doc \in [Savers -> 0..docs]
  /\ answer \in [Savers -> {"none", "saved", "failed"}]
  /\ temp \in [Savers -> Files]
  /\ fd \in [Savers -> BOOLEAN]
  /\ opened \in [Savers -> 0..1] /\ closes \in [Savers -> Nat]
  /\ docs \in Nat /\ installed \in SUBSET (1..docs)
  /\ \A s \in Savers : pc[s] \in {"idle", "mkstemp"} => temp[s] = NoFile

(* The path always names one whole document, and so does the name on       *)
(* stable storage: whatever fails, whoever is killed and whenever the      *)
(* power goes, the next start finds settings that it can parse.            *)
Whole(file) == file.len = Size
PathIsWhole == Whole(path) /\ Whole(disk) /\ disk.safe = Size

(* The writer implements the atomic file.                                  *)
Torn == -1
Value(file) == IF Whole(file) THEN file.doc ELSE Torn
Atomic == INSTANCE AtomicFile WITH Documents <- Nat, value <- Value(path), stable <- Value(disk)
ImplementsAtomicFile == Atomic!Spec

(* The result is honest: a save that returned true did replace the path,   *)
(* and one that returned false did not.                                    *)
ResultIsHonest ==
  \A s \in Savers : /\ answer[s] = "saved" => doc[s] \in installed
                    /\ answer[s] = "failed" => doc[s] \notin installed

(* Every path through the function closes the descriptor it was given,     *)
(* once (a second close could hit another thread's descriptor), and a call *)
(* that has returned has left no temporary file behind.                    *)
CallCleansUp ==
  \A s \in Savers : /\ closes[s] <= opened[s]
                    /\ pc[s] = "idle" => closes[s] = opened[s] /\ temp[s] = NoFile
===============================================================================

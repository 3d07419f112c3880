-------------------------------- MODULE Shares --------------------------------
(***************************************************************************)
(* A directory of shares on disk (shares.rs): one file a share and         *)
(* public.bin, written one after the other by save, read back by load.     *)
(* Nothing removes a file; a save over an older ceremony's files replaces  *)
(* the ones it names.  Ceremonies are numbered in the order their shares   *)
(* are saved, and a file is known by the ceremony whose share it holds.    *)
(***************************************************************************)
EXTENDS Integers, Sequences

CONSTANTS
  Sizes,         \* how many participants a ceremony may have
  MaxCeremonies  \* bound: ceremonies saved into the directory

ASSUME SharesAssumption ==
  /\ Sizes \subseteq Nat \ {0}
  /\ MaxCeremonies \in Nat

VARIABLES
  files,     \* share files: 0 absent, -1 created but not whole, else the ceremony
  public,    \* public.bin likewise
  size,      \* how many participants each ceremony saved so far had
  writing,   \* the file the present save is at: a share, 0 for public.bin, -1 for none
  cutShort   \* the ceremonies whose save did not come to its end

dir == <<files, public, size, writing, cutShort>>

Absent == 0
Torn == -1
Idle == -1
Ids == UNION {1 .. n : n \in Sizes}
Latest == Len(size)

DirInit ==
  /\ files = [i \in Ids |-> Absent]
  /\ public = Absent
  /\ size = << >>
  /\ writing = Idle
  /\ cutShort = {}

(* save, called with the shares of a new ceremony in the order of their ids. *)
BeginSave ==
  /\ writing = Idle
  /\ Latest < MaxCeremonies
  /\ \E n \in Sizes : size' = Append(size, n)
  /\ writing' = 1
  /\ UNCHANGED <<files, public, cutShort>>

(* Opening a file truncates it; what it is to hold follows. *)
Truncate ==
  /\ \/ /\ writing \in Ids
        /\ files[writing] # Torn
        /\ files' = [files EXCEPT ![writing] = Torn]
        /\ UNCHANGED public
     \/ /\ writing = 0
        /\ public # Torn
        /\ public' = Torn
        /\ UNCHANGED files
  /\ UNCHANGED <<size, writing, cutShort>>

\* Mutant of Write: public.bin is written before the shares.
WritePublicFirst ==
  /\ \/ /\ writing \in Ids
        /\ files[writing] = Torn
        /\ files' = [files EXCEPT ![writing] = Latest]
        /\ public' = Latest
        /\ writing' = IF writing < size[Latest] THEN writing + 1 ELSE Idle
     \/ /\ writing = 0
        /\ public' = Latest
        /\ writing' = Idle
        /\ UNCHANGED files
  /\ UNCHANGED <<size, cutShort>>

Write ==
  /\ \/ /\ writing \in Ids
        /\ files[writing] = Torn
        /\ files' = [files EXCEPT ![writing] = Latest]
        /\ writing' = IF writing < size[Latest] THEN writing + 1 ELSE 0
        /\ UNCHANGED public
     \/ /\ writing = 0
        /\ public = Torn
        /\ public' = Latest
        /\ writing' = Idle
        /\ UNCHANGED files
  /\ UNCHANGED <<size, cutShort>>

(* An error of the file system ends the save, and so does the end of the process. *)
SaveCutShort ==
  /\ writing # Idle
  /\ writing' = Idle
  /\ cutShort' = cutShort \cup {Latest}
  /\ UNCHANGED <<files, public, size>>

DirNext == BeginSave \/ Truncate \/ Write \/ SaveCutShort

(* load: refused unless public.bin and every share file there deserialise. *)
Loads == public \notin {Absent, Torn} /\ \A i \in Ids : files[i] # Torn
Loaded == {i \in Ids : files[i] # Absent}

-----------------------------------------------------------------------------

(* What load returns under a public package is that ceremony's own shares, all of
   them, unless a save of a later ceremony was cut short, or is going on; the files a
   smaller ceremony did not name stay and are loaded too.  In particular a directory
   one ceremony was ever saved into loads as that ceremony, whole, or not at all,
   however the save ended: public.bin is written last. *)
MixedForCause ==
  Loads =>
    /\ \A i \in 1 .. size[public] : files[i] >= public
    /\ \A i \in Loaded :
         CASE files[i] = public -> i <= size[public]
           [] files[i] > public -> files[i] \in cutShort \/ writing # Idle
           [] files[i] < public -> i > size[public]
================================================================================
